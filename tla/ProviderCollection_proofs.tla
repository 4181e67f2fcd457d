---------------------- MODULE ProviderCollection_proofs ----------------------
(***************************************************************************)
(* Proofs about ProviderCollection and the exchange of AppServer, for any  *)
(* environments, any files, any exchanges, answers and child processes,    *)
(* and any timeouts of which the assumptions hold.  First the exchange,    *)
(* the clock, the token and what stood in the way; then what the documents *)
(* of each provider are read as, and the rows made of the readings.        *)
(***************************************************************************)
EXTENDS ProviderCollection, FiniteSetTheorems, SequenceTheorems, TLAPS

---------------------------------------------------------------------------
(* The exchange with the app-server.                                       *)

Losses == {"failed", "timed_out", "unauthenticated"}

\* What an exchange may come to: a document, or a loss.
Made(o) == o.tag \in Losses \/ (o.tag = "ok" /\ o.doc # NULL)

\* What is known of the exchange, and of what it came to.
Server ==
  /\ exchange \in {"none", "opening", "asked", "over"}
  /\ elapsed \in 0..EXCHANGE_TIMEOUT
  /\ graceAt \in Optional(Nat)
  /\ accountKnown => accountPlan \in Accounts
  /\ rateLimits # NULL => \E answer \in LimitAnswers : rateLimits = answer.result
  /\ exchange = "opening" => rateLimits = NULL
  /\ exchange = "asked" /\ rateLimits # NULL => 2 \in answered
  /\ exchange = "over" => Made(outcome)

LEMMA InitServer == Init => Server
BY ServerAssumption DEF Init, ServerInit, Server, Optional

LEMMA LossIsMade ==
  ASSUME NEW tag \in Losses
  PROVE  Made(Outcome(tag))
BY DEF Made, Outcome

LEMMA ConcludedIsMade ==
  ASSUME NEW limits, NEW plan, NEW otherwise \in {"failed", "timed_out"}
  PROVE  Made(Concluded(limits, plan, otherwise))
<1>1. Made(Outcome(otherwise))
  BY LossIsMade DEF Losses
<1>2. \A doc : doc # NULL => Made([tag |-> "ok", doc |-> doc])
  BY DEF Made
<1> QED
  BY <1>1, <1>2 DEF Concluded

\* Limits that can be shown conclude an exchange well.
LEMMA ShownLimitsConclude ==
  ASSUME NEW answer \in LimitAnswers, answer.result # NULL, NEW plan, plan \in Accounts \/ plan = NULL,
         Normalized(answer.result, NULL) # NULL, NEW otherwise
  PROVE  Concluded(answer.result, plan, otherwise).tag = "ok"
<1>1. Normalized(answer.result, plan) # NULL
  BY NormalizedAssumption
<1> QED
  BY <1>1 DEF Concluded

LEMMA OpenedServer ==
  ASSUME NEW started \in BOOLEAN, Open(started)
  PROVE  Server'
<1>1. exchange' = "opening" \/ (exchange' = "over" /\ Made(outcome'))
  BY LossIsMade DEF Open, EndExchange, Losses
<1> QED
  BY <1>1, ServerAssumption DEF Open, Server, Optional

\* The time of a line, or of a timer, is within the exchange.
LEMMA ArrivesInTime ==
  ASSUME Server, Arrives
  PROVE  elapsed' \in 0..EXCHANGE_TIMEOUT
<1>1. PICK at \in Arrivals \cup {elapsed} : InTime(at) /\ elapsed' = at
  BY DEF Arrives
<1>2. elapsed \in 0..EXCHANGE_TIMEOUT
  BY DEF Server
<1>3. at \in Nat /\ at <= EXCHANGE_TIMEOUT
  BY <1>1, <1>2, ServerAssumption DEF InTime
<1> QED
  BY <1>1, <1>3, ServerAssumption

LEMMA NextServer ==
  ASSUME Server, ServerNext
  PROVE  Server'
<1> USE DEF Server
<1>0. Made(Outcome("failed"))
  BY LossIsMade DEF Losses
<1>1. ASSUME NEW ok \in BOOLEAN, Initialized(ok) PROVE Server'
  <2>1. elapsed' \in 0..EXCHANGE_TIMEOUT /\ UNCHANGED <<accountKnown, accountPlan, rateLimits, graceAt>>
    BY <1>1, ArrivesInTime DEF Initialized
  <2>2. rateLimits = NULL
    BY <1>1 DEF Initialized
  <2>3. CASE exchange' = "asked"
    BY <2>1, <2>2, <2>3
  <2>4. CASE EndExchange(Outcome("failed"))
    BY <2>1, <2>2, <2>4, <1>0 DEF EndExchange
  <2> QED
    BY <1>1, <2>3, <2>4 DEF Initialized
<1>2. ASSUME NEW plan \in Accounts, AccountRead(plan) PROVE Server'
  <2>1. /\ elapsed' \in 0..EXCHANGE_TIMEOUT /\ UNCHANGED <<rateLimits, graceAt>>
        /\ accountPlan' = plan /\ exchange = "asked" /\ answered' = answered \cup {1}
    BY <1>2, ArrivesInTime DEF AccountRead
  <2>2. CASE UNCHANGED <<exchange, outcome>>
    BY <2>1, <2>2
  <2>3. CASE EndExchange(Concluded(rateLimits, plan, "failed"))
    <3>1. Made(Concluded(rateLimits, plan, "failed"))
      BY ConcludedIsMade
    <3> QED
      BY <2>1, <2>3, <3>1 DEF EndExchange
  <2> QED
    BY <1>2, <2>2, <2>3 DEF AccountRead
<1>3. ASSUME NEW answer \in LimitAnswers, RateLimitsRead(answer) PROVE Server'
  <2>1. /\ elapsed' \in 0..EXCHANGE_TIMEOUT /\ UNCHANGED <<accountKnown, accountPlan>>
        /\ exchange = "asked" /\ rateLimits = NULL /\ answered' = answered \cup {2}
    BY <1>3, ArrivesInTime DEF RateLimitsRead
  <2>2. CASE answer.error # NULL
    <3>1. PICK tag \in Losses : EndExchange(Outcome(tag))
      BY <1>3, <2>2 DEF RateLimitsRead, Losses
    <3>2. Made(Outcome(tag))
      BY LossIsMade
    <3> QED
      BY <1>3, <2>1, <2>2, <3>1, <3>2 DEF EndExchange, RateLimitsRead
  <2>3. CASE answer.error = NULL /\ HasData(answer.result)
    <3>1. rateLimits' = answer.result
      BY <1>3, <2>3 DEF RateLimitsRead
    <3>2. CASE accountKnown
      <4>1. EndExchange(Concluded(answer.result, accountPlan, "failed")) /\ UNCHANGED graceAt
        BY <1>3, <2>3, <3>2 DEF RateLimitsRead
      <4>2. Made(Concluded(answer.result, accountPlan, "failed"))
        BY ConcludedIsMade
      <4> QED
        BY <2>1, <3>1, <4>1, <4>2 DEF EndExchange
    <3>3. CASE ~accountKnown
      <4>1. PICK at \in Nat : elapsed' = at
        BY <2>1, ServerAssumption
      <4>2. graceAt' = at + GRACE /\ UNCHANGED <<exchange, outcome>>
        BY <1>3, <2>3, <3>3, <4>1 DEF RateLimitsRead
      <4>3. graceAt' \in Optional(Nat)
        BY <4>2, ServerAssumption DEF Optional
      <4>4. exchange' = "asked" /\ 2 \in answered' /\ accountKnown' = accountKnown
        BY <2>1, <4>2
      <4> QED
        BY <2>1, <3>1, <3>3, <4>3, <4>4
    <3> QED
      BY <3>2, <3>3
  <2>4. CASE answer.error = NULL /\ ~HasData(answer.result)
    BY <1>3, <2>1, <2>4 DEF RateLimitsRead
  <2> QED
    BY <2>2, <2>3, <2>4
<1>4. CASE Closed
  <2>1. elapsed' \in 0..EXCHANGE_TIMEOUT /\ UNCHANGED <<accountKnown, accountPlan, rateLimits, graceAt>>
    BY <1>4, ArrivesInTime DEF Closed
  <2> QED
    BY <1>0, <1>4, <2>1 DEF Closed, EndExchange
<1>5. CASE GraceExpires
  <2>1. elapsed' \in 0..EXCHANGE_TIMEOUT /\ UNCHANGED <<accountKnown, accountPlan, rateLimits, graceAt>>
    BY <1>5, ServerAssumption DEF GraceExpires, Optional
  <2>2. Made(Concluded(rateLimits, IF accountKnown THEN accountPlan ELSE NULL, "failed"))
    BY ConcludedIsMade
  <2> QED
    BY <1>5, <2>1, <2>2 DEF GraceExpires, EndExchange
<1>6. CASE HardTimeout
  <2>1. elapsed' \in 0..EXCHANGE_TIMEOUT /\ UNCHANGED <<accountKnown, accountPlan, rateLimits, graceAt>>
    BY <1>6, ServerAssumption DEF HardTimeout
  <2>2. Made(Concluded(rateLimits, IF accountKnown THEN accountPlan ELSE NULL, "timed_out"))
    BY ConcludedIsMade
  <2> QED
    BY <1>6, <2>1, <2>2 DEF HardTimeout, EndExchange
<1> QED
  BY <1>1, <1>2, <1>3, <1>4, <1>5, <1>6 DEF ServerNext

\* The exchange is opened, goes on, is taken, or rests.
LEMMA StepServer ==
  ASSUME [Next]_vars
  PROVE  \/ \E started \in BOOLEAN : Open(started)
         \/ ServerNext
         \/ Taken
         \/ UNCHANGED serverVars
<1>1. CASE GrokStart \/ GrokRenewed
  BY <1>1 DEF GrokStart, GrokRenewed
<1>2. CASE GrokBilling \/ GrokMonthly
  BY <1>2 DEF GrokBilling, GrokMonthly, Sent
<1>3. CASE CodexStart \/ CodexExchange \/ CodexAgain \/ CodexOutcome
  BY <1>3 DEF CodexStart, CodexExchange, CodexAgain, CodexOutcome
<1>4. CASE ClaudeStart \/ ClaudeProbed \/ ClaudeUsage
  BY <1>4 DEF ClaudeStart, ClaudeProbed, ClaudeUsage, Sent
<1>5. CASE AgyStart \/ AgyReached \/ AgyVersion \/ AgyUsage
  BY <1>5 DEF AgyStart, AgyReached, AgyVersion, AgyUsage, AgyUnchanged
<1>6. CASE Done \/ UNCHANGED vars
  BY <1>6 DEF Done, vars
<1> QED
  BY <1>1, <1>2, <1>3, <1>4, <1>5, <1>6 DEF Next

LEMMA StepKeepsServer == Server /\ [Next]_vars => Server'
<1> SUFFICES ASSUME Server, [Next]_vars PROVE Server'
  OBVIOUS
<1>1. CASE Taken
  BY <1>1 DEF Taken, Server
<1>2. CASE UNCHANGED serverVars
  BY <1>2 DEF serverVars, Server
<1> QED
  BY <1>1, <1>2, OpenedServer, NextServer, StepServer

---------------------------------------------------------------------------

\* Shows the plan that a timer concludes with.
LEMMA LimitsAtHandConclude ==
  ASSUME Server, rateLimits # NULL, Normalized(rateLimits, NULL) # NULL, NEW otherwise,
         NEW plan, plan \in Accounts \/ plan = NULL
  PROVE  Concluded(rateLimits, plan, otherwise).tag = "ok"
<1>1. PICK answer \in LimitAnswers : rateLimits = answer.result
  BY DEF Server
<1> QED
  BY <1>1, ShownLimitsConclude

\* Limits that can be shown and came before the deadline are returned, for
\* any answers in any order and any deadlines (run_exchange(), finalize()).
THEOREM LimitsReceivedAreReturnedHolds == Spec => LimitsReceivedAreReturned
<1> DEFINE Ends == /\ exchange # "over" /\ exchange' = "over" /\ ~Closed
                   /\ rateLimits' # NULL /\ Normalized(rateLimits', NULL) # NULL
<1>1. ASSUME Server, [Next]_vars, Ends PROVE outcome'.tag = "ok"
  <2>1. ASSUME NEW started \in BOOLEAN, Open(started) PROVE FALSE
    BY <1>1, <2>1 DEF Open
  <2>2. CASE Taken \/ UNCHANGED serverVars
    BY <1>1, <2>2 DEF Taken, serverVars
  <2>3. ASSUME NEW ok \in BOOLEAN, Initialized(ok) PROVE FALSE
    BY <1>1, <2>3 DEF Initialized, Server
  <2>4. ASSUME NEW plan \in Accounts, AccountRead(plan) PROVE outcome'.tag = "ok"
    <3>1. rateLimits' = rateLimits
      BY <2>4 DEF AccountRead
    <3>2. outcome' = Concluded(rateLimits, plan, "failed")
      BY <1>1, <2>4, <3>1 DEF AccountRead, EndExchange
    <3> QED
      BY <1>1, <3>1, <3>2, LimitsAtHandConclude
  <2>5. ASSUME NEW answer \in LimitAnswers, RateLimitsRead(answer) PROVE outcome'.tag = "ok"
    <3>1. rateLimits = NULL
      BY <2>5, <1>1 DEF RateLimitsRead, Server
    <3>2. rateLimits' = answer.result /\ outcome' = Concluded(answer.result, accountPlan, "failed") /\ accountKnown
      BY <1>1, <2>5, <3>1 DEF RateLimitsRead, EndExchange
    <3>3. accountPlan \in Accounts
      BY <1>1, <3>2 DEF Server
    <3> QED
      BY <1>1, <3>2, <3>3, ShownLimitsConclude
  <2>6. CASE GraceExpires
    <3>1. rateLimits' = rateLimits
          /\ outcome' = Concluded(rateLimits, IF accountKnown THEN accountPlan ELSE NULL, "failed")
      BY <2>6 DEF GraceExpires, EndExchange
    <3>2. (IF accountKnown THEN accountPlan ELSE NULL) \in Accounts \cup {NULL}
      BY <1>1 DEF Server
    <3> QED
      BY <1>1, <3>1, <3>2, LimitsAtHandConclude
  <2>7. CASE HardTimeout
    <3>1. rateLimits' = rateLimits
          /\ outcome' = Concluded(rateLimits, IF accountKnown THEN accountPlan ELSE NULL, "timed_out")
      BY <2>7 DEF HardTimeout, EndExchange
    <3>2. (IF accountKnown THEN accountPlan ELSE NULL) \in Accounts \cup {NULL}
      BY <1>1 DEF Server
    <3> QED
      BY <1>1, <3>1, <3>2, LimitsAtHandConclude
  <2> QED
    BY <1>1, <2>1, <2>2, <2>3, <2>4, <2>5, <2>6, <2>7, StepServer DEF ServerNext
<1>2. Server /\ [Next]_vars => [Ends => outcome'.tag = "ok"]_serverVars
  BY <1>1
<1> QED
  BY <1>2, InitServer, StepKeepsServer, PTL DEF Spec, LimitsReceivedAreReturned

---------------------------------------------------------------------------
(* Which collection is where.                                              *)

Place ==
  /\ provider \in ProviderId
  /\ pc \in {"renewing", "billing", "monthly"} => provider = "grok"
  /\ pc \in {"exchange", "retrying"} => provider = "codex"
  /\ pc = "usage" => provider = "claude"
  /\ pc \in {"reaching", "agy"} => provider = "antigravity"
  /\ pc = "version" => provider \in {"claude", "antigravity"}

LEMMA InitPlace == Init => Place
BY DEF Init, Place

LEMMA NextPlace == Place /\ [Next]_vars => Place'
<1> SUFFICES ASSUME Place, [Next]_vars PROVE Place'
  OBVIOUS
<1> USE DEF Place, Finish, Await
<1>1. CASE GrokStart
  BY <1>1 DEF GrokStart
<1>2. CASE GrokRenewed
  BY <1>2 DEF GrokRenewed
<1>3. CASE GrokBilling
  BY <1>3 DEF GrokBilling, Sent, SentAgain
<1>4. CASE GrokMonthly
  BY <1>4 DEF GrokMonthly, Sent, SentAgain
<1>5. CASE CodexStart \/ CodexExchange \/ CodexAgain
  BY <1>5 DEF CodexStart, CodexExchange, CodexAgain, CodexUnchanged, collectionVars
<1>6. CASE CodexOutcome
  BY <1>6 DEF CodexOutcome, CodexUnchanged
<1>7. CASE ClaudeStart
  <2>1. pc' \in {"done", "version", "usage"}
    BY <1>7 DEF ClaudeStart, ClaudeCredentials
  <2> QED
    BY <1>7, <2>1 DEF ClaudeStart
<1>8. CASE ClaudeProbed
  BY <1>8 DEF ClaudeProbed
<1>9. CASE ClaudeUsage
  BY <1>9 DEF ClaudeUsage, Sent, SentAgain
<1>10. CASE AgyStart \/ AgyReached \/ AgyVersion \/ AgyUsage
  BY <1>10 DEF AgyStart, AgyReached, AgyVersion, AgyUsage, AgyUnchanged
<1>11. CASE Done \/ UNCHANGED vars
  BY <1>11 DEF Done, vars, collectionVars
<1> QED
  BY <1>1, <1>2, <1>3, <1>4, <1>5, <1>6, <1>7, <1>8, <1>9, <1>10, <1>11 DEF Next

---------------------------------------------------------------------------
(* What a collection takes.                                                *)

LEMMA RequestTakes ==
  ASSUME NEW x, x.ends \in Optional(Nat)
  PROVE  HttpSend(x).took \in 0..TIMEOUT
BY AccessAssumption DEF HttpSend, Optional

LEMMA ChildTakes ==
  ASSUME NEW child, child.starts => child.ends \in Optional(Nat)
  PROVE  RunProcess(child).took \in 0..TIMEOUT
<1>1. CASE ~child.starts
  BY <1>1, AccessAssumption DEF RunProcess
<1>2. CASE child.starts /\ (child.ends = NULL \/ child.ends > TIMEOUT)
  BY <1>2, AccessAssumption DEF RunProcess
<1>3. CASE child.starts /\ child.ends # NULL /\ ~(child.ends > TIMEOUT)
  <2>1. child.ends \in Nat /\ child.ends <= TIMEOUT
    BY <1>3, AccessAssumption DEF Optional
  <2>2. RunProcess(child).took = child.ends
    <3>1. CASE child.broken
      BY <1>3, <3>1 DEF RunProcess
    <3>2. CASE ~child.broken
      BY <1>3, <3>2 DEF RunProcess
    <3> QED
      BY <3>1, <3>2
  <2> QED
    BY <2>1, <2>2
<1> QED
  BY <1>1, <1>2, <1>3

\* What a first attempt and the delay before the second may have taken.
Late == IF attempt = 1 THEN 0 ELSE TIMEOUT + RETRY_DELAY

\* How late it may be at each step of a collection.
Clock ==
  /\ now \in Nat /\ attempt \in {1, 2}
  /\ pc \in {"start", "renewing", "reaching"} => now = 0 /\ attempt = 1
  /\ pc = "version" => now <= (IF provider = "claude" THEN 0 ELSE TIMEOUT) /\ attempt = 1
  /\ pc = "agy" => now <= 2 * TIMEOUT
  /\ pc \in {"billing", "usage"} => now <= TIMEOUT + Late
  /\ pc = "monthly" => now <= 3 * TIMEOUT + RETRY_DELAY + Late
  /\ pc \in {"exchange", "retrying"} => now <= Late
  /\ now <= 5 * TIMEOUT + 2 * RETRY_DELAY

LEMMA InitClock == Init => Clock
BY AccessAssumption DEF Init, Clock

LEMMA NextClock == Server /\ Place /\ Clock /\ [Next]_vars => Clock'
<1> SUFFICES ASSUME Server, Place, Clock, [Next]_vars PROVE Clock'
  OBVIOUS
<1> USE AccessAssumption DEF Clock, Late
<1>1. CASE GrokStart
  <2>1. pc = "start" /\ pc' \in {"done", "billing", "renewing"} /\ UNCHANGED <<provider, now, attempt>>
    BY <1>1 DEF GrokStart, Finish, Await
  <2> QED
    BY <2>1
<1>2. CASE GrokRenewed
  <2>1. PICK child \in RenewalRuns : now' = now + RunProcess(child).took
    BY <1>2 DEF GrokRenewed
  <2>2. RunProcess(child).took \in 0..TIMEOUT
    BY ChildTakes, InputAssumption
  <2>3. pc = "renewing" /\ pc' \in {"done", "billing"} /\ UNCHANGED <<provider, attempt>>
    BY <1>2 DEF GrokRenewed, Finish, Await
  <2> QED
    BY <2>1, <2>2, <2>3
<1>3. CASE GrokBilling
  <2>1. PICK x \in GrokAnswers \cup Exchanges :
          \/ /\ attempt = 1 /\ attempt' = 2 /\ now' = now + HttpSend(x).took + RETRY_DELAY /\ pc' = pc
          \/ attempt' = 1 /\ now' = now + HttpSend(x).took /\ pc' \in {"done", "monthly"}
    BY <1>3 DEF GrokBilling, SentAgain, GivenUp, Again, Answered, Finish, Await
  <2>2. HttpSend(x).took \in 0..TIMEOUT
    BY RequestTakes, InputAssumption
  <2>3. pc = "billing"
    BY <1>3 DEF GrokBilling
  <2> QED
    BY <2>1, <2>2, <2>3
<1>4. CASE GrokMonthly
  <2>1. PICK x \in GrokAnswers \cup Exchanges :
          \/ /\ attempt = 1 /\ attempt' = 2 /\ now' = now + HttpSend(x).took + RETRY_DELAY /\ pc' = pc
          \/ attempt' = 1 /\ now' = now + HttpSend(x).took /\ pc' = "done"
    BY <1>4 DEF GrokMonthly, SentAgain, GivenUp, Again, Answered, Finish
  <2>2. HttpSend(x).took \in 0..TIMEOUT
    BY RequestTakes, InputAssumption
  <2>3. pc = "monthly"
    BY <1>4 DEF GrokMonthly
  <2> QED
    BY <2>1, <2>2, <2>3
<1>5. CASE CodexStart
  <2>1. pc = "start" /\ pc' \in {"done", "exchange"} /\ UNCHANGED <<provider, now, attempt>>
    BY <1>5 DEF CodexStart, CodexUnchanged, Finish, Await
  <2> QED
    BY <2>1
<1>6. CASE CodexExchange
  BY <1>6 DEF CodexExchange, collectionVars
<1>7. CASE CodexAgain
  <2>1. pc = "retrying" /\ pc' = "exchange" /\ UNCHANGED <<provider, now, attempt>>
    BY <1>7 DEF CodexAgain, CodexUnchanged, Await
  <2> QED
    BY <2>1
<1>8. CASE CodexOutcome
  <2>1. \/ attempt = 1 /\ attempt' = 2 /\ now' = now + elapsed + RETRY_DELAY /\ pc' = "retrying"
        \/ attempt' = attempt /\ now' = now + elapsed /\ pc' = "done"
    BY <1>8 DEF CodexOutcome, Again, Finish, Await
  <2>2. elapsed \in 0..TIMEOUT
    BY CollectionConstants DEF Server
  <2>3. pc = "exchange"
    BY <1>8 DEF CodexOutcome
  <2> QED
    BY <2>1, <2>2, <2>3
<1>9. CASE ClaudeStart
  <2>1. pc = "start" /\ provider = "claude" /\ UNCHANGED <<provider, now, attempt>>
    BY <1>9 DEF ClaudeStart
  <2>2. pc' \in {"done", "version", "usage"}
    BY <1>9 DEF ClaudeStart, ClaudeCredentials, Finish, Await
  <2> QED
    BY <2>1, <2>2
<1>10. CASE ClaudeProbed
  <2>1. PICK child \in VersionRuns : now' = now + RunProcess(child).took
    BY <1>10 DEF ClaudeProbed
  <2>2. RunProcess(child).took \in 0..TIMEOUT
    BY ChildTakes, InputAssumption
  <2>3. pc = "version" /\ provider = "claude" /\ pc' = "usage" /\ UNCHANGED <<provider, attempt>>
    BY <1>10 DEF ClaudeProbed, Await
  <2> QED
    BY <2>1, <2>2, <2>3
<1>11. CASE ClaudeUsage
  <2>1. PICK x \in ClaudeAnswers \cup Exchanges :
          \/ /\ attempt = 1 /\ attempt' = 2 /\ now' = now + HttpSend(x).took + RETRY_DELAY /\ pc' = pc
          \/ attempt' = 1 /\ now' = now + HttpSend(x).took /\ pc' = "done"
    BY <1>11 DEF ClaudeUsage, SentAgain, GivenUp, Again, Answered, Finish
  <2>2. HttpSend(x).took \in 0..TIMEOUT
    BY RequestTakes, InputAssumption
  <2>3. pc = "usage"
    BY <1>11 DEF ClaudeUsage
  <2> QED
    BY <2>1, <2>2, <2>3
<1>12. CASE AgyStart
  <2>1. pc = "start" /\ pc' \in {"done", "reaching"} /\ UNCHANGED <<provider, now, attempt>>
    BY <1>12 DEF AgyStart, AgyUnchanged, Finish, Await
  <2> QED
    BY <2>1
<1>13. CASE AgyReached
  <2>1. PICK x \in Exchanges : now' = now + HttpSend(x).took
    BY <1>13 DEF AgyReached
  <2>2. HttpSend(x).took \in 0..TIMEOUT
    BY RequestTakes, InputAssumption
  <2>3. pc = "reaching" /\ pc' \in {"done", "version"} /\ UNCHANGED <<provider, attempt>>
    BY <1>13 DEF AgyReached, AgyUnchanged, Finish, Await
  <2>4. provider = "antigravity"
    BY <1>13 DEF AgyReached, Place
  <2> QED
    BY <2>1, <2>2, <2>3, <2>4
<1>14. CASE AgyVersion
  <2>1. PICK child \in VersionRuns : now' = now + RunProcess(child).took
    BY <1>14 DEF AgyVersion
  <2>2. RunProcess(child).took \in 0..TIMEOUT
    BY ChildTakes, InputAssumption
  <2>3. pc = "version" /\ provider = "antigravity" /\ pc' \in {"done", "agy"} /\ UNCHANGED <<provider, attempt>>
    BY <1>14 DEF AgyVersion, AgyUnchanged, Finish, Await
  <2> QED
    BY <2>1, <2>2, <2>3
<1>15. CASE AgyUsage
  <2>1. PICK child \in UsageRuns : now' = now + RunProcess(child).took
    BY <1>15 DEF AgyUsage
  <2>2. RunProcess(child).took \in 0..TIMEOUT
    BY ChildTakes, InputAssumption
  <2>3. pc = "agy" /\ pc' = "done" /\ UNCHANGED <<provider, attempt>>
    BY <1>15 DEF AgyUsage, AgyUnchanged, Finish
  <2> QED
    BY <2>1, <2>2, <2>3
<1>16. CASE Done
  BY <1>16 DEF Done, vars, collectionVars
<1>17. CASE UNCHANGED vars
  BY <1>17 DEF vars, collectionVars
<1> QED
  BY <1>1, <1>2, <1>3, <1>4, <1>5, <1>6, <1>7, <1>8, <1>9, <1>10, <1>11, <1>12, <1>13, <1>14,
     <1>15, <1>16, <1>17 DEF Next

\* The plugin never kills a helper that is still collecting one provider, for
\* any timeouts of which five and two retries fit the lane (Service.qml's
\* statusTimeoutMs, the catalog's timeouts, run_process() and retry.rs).
THEOREM CollectionFitsItsLaneHolds == Spec => []CollectionFitsItsLane
<1>1. Clock => CollectionFitsItsLane
  BY LaneAssumption, AccessAssumption DEF Clock, CollectionFitsItsLane
<1> QED
  BY <1>1, InitServer, StepKeepsServer, InitPlace, NextPlace, InitClock, NextClock, PTL DEF Spec

---------------------------------------------------------------------------
(* Grok's token.                                                           *)

\* The token in hand lasts from when it was checked for longer than the
\* requests that may still be sent with it take.
Tokens ==
  /\ askedAt \in Nat
  /\ pc \in {"renewing", "billing", "monthly"} => file.expires \in Optional(Nat)
  /\ pc \in {"billing", "monthly"} /\ file.expires # NULL => file.expires > askedAt + TOKEN_EXPIRY_MARGIN
  /\ pc = "billing" => now <= askedAt + Late
  /\ pc = "monthly" => now <= askedAt + 2 * TIMEOUT + RETRY_DELAY + Late
  /\ \A r \in requests : r.to = "grok" /\ r.expires # NULL => r.at < r.expires

LEMMA InitTokens == Init => Tokens
BY DEF Init, Tokens

\* A request that is sent in time keeps the invariant's last part.
LEMMA SentInTime ==
  ASSUME NEW answer, Sent(answer), Tokens,
         provider = "grok" /\ file.expires # NULL => now < file.expires
  PROVE  \A r \in requests' : r.to = "grok" /\ r.expires # NULL => r.at < r.expires
<1>1. PICK request : request = [to |-> provider, at |-> now, expires |-> file.expires]
  OBVIOUS
<1>2. request.to = provider /\ request.at = now /\ request.expires = file.expires
  BY <1>1
<1>3. requests' = requests \cup {request}
  BY <1>1 DEF Sent
<1> QED
  BY <1>2, <1>3 DEF Tokens

LEMMA FreshToken ==
  ASSUME NEW f, f.expires \in Optional(Nat), NEW at \in Nat, ~GrokTokenExpired(f, at)
  PROVE  f.expires # NULL => f.expires > at + TOKEN_EXPIRY_MARGIN
BY AccessAssumption DEF GrokTokenExpired, Optional

LEMMA NextTokens == Place /\ Clock /\ Tokens /\ [Next]_vars => Tokens'
<1> SUFFICES ASSUME Place, Clock, Tokens, [Next]_vars PROVE Tokens'
  OBVIOUS
<1> USE AccessAssumption DEF Tokens, Late
<1>1. CASE GrokStart
  <2>1. pc = "start" /\ UNCHANGED <<now, attempt, requests>> /\ now = 0 /\ attempt = 1
    BY <1>1 DEF GrokStart, Clock
  <2>2. CASE pc' = "done" /\ (askedAt' = askedAt \/ askedAt' = now)
    BY <2>1, <2>2
  <2>3. ASSUME NEW f \in GrokFiles, f.is = "token", file' = f, askedAt' = now, pc' = "renewing"
        PROVE  Tokens'
    BY <2>1, <2>3, InputAssumption
  <2>4. ASSUME NEW f \in GrokFiles, f.is = "token", file' = f, askedAt' = now, pc' = "billing",
               ~GrokTokenExpired(f, now)
        PROVE  Tokens'
    <3>1. f.expires \in Optional(Nat)
      BY <2>4, InputAssumption
    <3>2. f.expires # NULL => f.expires > now + TOKEN_EXPIRY_MARGIN
      BY <2>1, <2>4, <3>1, FreshToken
    <3> QED
      BY <2>1, <2>4, <3>1, <3>2
  <2> QED
    BY <1>1, <2>2, <2>3, <2>4 DEF GrokStart, Finish, Await
<1>2. CASE GrokRenewed
  <2>1. PICK child \in RenewalRuns, f \in GrokFiles :
          /\ now' = now + RunProcess(child).took /\ askedAt' = now'
          /\ \/ pc' = "done"
             \/ /\ pc' = "billing" /\ f.is \in {"token", "torn"}
                /\ file' = IF f.is = "torn" THEN file ELSE f
                /\ ~GrokTokenExpired(file', now')
    BY <1>2 DEF GrokRenewed, Finish, Await
  <2>2. RunProcess(child).took \in 0..TIMEOUT
    BY ChildTakes, InputAssumption
  <2>3. pc = "renewing" /\ now = 0 /\ attempt = 1 /\ UNCHANGED <<attempt, requests>>
    BY <1>2 DEF GrokRenewed, Clock
  <2>4. PICK at \in Nat : now' = at
    BY <2>1, <2>2, <2>3
  <2>5. CASE pc' = "done"
    BY <2>1, <2>3, <2>4, <2>5
  <2>6. CASE pc' = "billing"
    <3>1. file'.expires \in Optional(Nat)
      BY <2>1, <2>3, <2>6, InputAssumption
    <3>2. file'.expires # NULL => file'.expires > at + TOKEN_EXPIRY_MARGIN
      BY <2>1, <2>4, <2>6, <3>1, FreshToken
    <3> QED
      BY <2>1, <2>3, <2>4, <2>6, <3>1, <3>2
  <2> QED
    BY <2>1, <2>5, <2>6
<1>3. CASE GrokBilling
  <2>1. PICK x \in GrokAnswers \cup Exchanges :
          /\ Sent(HttpSend(x)) /\ askedAt' = askedAt
          /\ \/ /\ attempt = 1 /\ attempt' = 2 /\ now' = now + HttpSend(x).took + RETRY_DELAY /\ pc' = pc
             \/ attempt' = 1 /\ now' = now + HttpSend(x).took /\ pc' \in {"done", "monthly"}
    BY <1>3 DEF GrokBilling, SentAgain, GivenUp, Again, Answered, Finish, Await
  <2>2. HttpSend(x).took \in 0..TIMEOUT
    BY RequestTakes, InputAssumption
  <2>3. pc = "billing" /\ file' = file
    BY <1>3, <2>1 DEF GrokBilling, Sent
  <2>4. file.expires # NULL => now < file.expires
    BY <2>3, MarginAssumption DEF Clock, Optional
  <2>5. \A r \in requests' : r.to = "grok" /\ r.expires # NULL => r.at < r.expires
    BY <2>1, <2>4, SentInTime
  <2> QED
    BY <2>1, <2>2, <2>3, <2>5 DEF Clock
<1>4. CASE GrokMonthly
  <2>1. PICK x \in GrokAnswers \cup Exchanges :
          /\ Sent(HttpSend(x)) /\ askedAt' = askedAt
          /\ \/ /\ attempt = 1 /\ attempt' = 2 /\ now' = now + HttpSend(x).took + RETRY_DELAY /\ pc' = pc
             \/ attempt' = 1 /\ now' = now + HttpSend(x).took /\ pc' = "done"
    BY <1>4 DEF GrokMonthly, SentAgain, GivenUp, Again, Answered, Finish
  <2>2. HttpSend(x).took \in 0..TIMEOUT
    BY RequestTakes, InputAssumption
  <2>3. pc = "monthly" /\ file' = file
    BY <1>4, <2>1 DEF GrokMonthly, Sent
  <2>4. file.expires # NULL => now < file.expires
    BY <2>3, MarginAssumption DEF Clock, Optional
  <2>5. \A r \in requests' : r.to = "grok" /\ r.expires # NULL => r.at < r.expires
    BY <2>1, <2>4, SentInTime
  <2> QED
    BY <2>1, <2>2, <2>3, <2>5 DEF Clock
<1>5. CASE CodexStart \/ CodexExchange \/ CodexAgain \/ CodexOutcome
  <2>1. UNCHANGED <<askedAt, file, requests>>
    BY <1>5 DEF CodexStart, CodexExchange, CodexAgain, CodexOutcome, CodexUnchanged, collectionVars
  <2>2. pc' \notin {"renewing", "billing", "monthly"}
    BY <1>5 DEF CodexStart, CodexExchange, CodexAgain, CodexOutcome, Finish, Await, collectionVars
  <2> QED
    BY <2>1, <2>2
<1>6. CASE ClaudeStart
  <2>1. pc' \in {"done", "version", "usage"}
    BY <1>6 DEF ClaudeStart, ClaudeCredentials, Finish, Await
  <2> QED
    BY <1>6, <2>1 DEF ClaudeStart
<1>7. CASE ClaudeProbed
  BY <1>7 DEF ClaudeProbed, Await
<1>8. CASE ClaudeUsage
  <2>1. PICK x \in ClaudeAnswers \cup Exchanges : Sent(HttpSend(x))
    BY <1>8 DEF ClaudeUsage
  <2>2. provider = "claude" /\ askedAt' = askedAt /\ pc' \in {"usage", "done"}
    BY <1>8 DEF ClaudeUsage, SentAgain, Finish
  <2>3. \A r \in requests' : r.to = "grok" /\ r.expires # NULL => r.at < r.expires
    BY <2>1, <2>2, SentInTime
  <2> QED
    BY <2>2, <2>3
<1>9. CASE AgyStart \/ AgyReached \/ AgyVersion \/ AgyUsage
  BY <1>9 DEF AgyStart, AgyReached, AgyVersion, AgyUsage, AgyUnchanged, Finish, Await
<1>10. CASE Done \/ UNCHANGED vars
  BY <1>10 DEF Done, vars, collectionVars
<1> QED
  BY <1>1, <1>2, <1>3, <1>4, <1>5, <1>6, <1>7, <1>8, <1>9, <1>10 DEF Next

\* No request goes to Grok with a token that has run out, for any files, any
\* answers and any timeouts that the margin covers: the token is checked once
\* and sent up to four times (GROK_TOKEN_EXPIRY_MARGIN, grok_token_expired()).
THEOREM GrokTokensOutliveTheirRequestsHolds == Spec => []GrokTokensOutliveTheirRequests
<1>1. Tokens => GrokTokensOutliveTheirRequests
  BY DEF Tokens, GrokTokensOutliveTheirRequests
<1> QED
  BY <1>1, InitServer, StepKeepsServer, InitPlace, NextPlace, InitClock, NextClock, InitTokens, NextTokens,
     PTL DEF Spec

---------------------------------------------------------------------------
(* What a result makes of the last good reading.                           *)

Passing == {"network", "timeout", "expired", "torn"}
Lasting == {"rejected", "missing", "empty"}

\* A failure that passes, and one that does not.
Passes(r) ==
  \E id \in ProviderId, l \in BOOLEAN :
    r = NetworkResult(id) \/ r = UnauthenticatedResult(id, l, TRUE) \/ r = ErrorResult(id, TRUE)
Lasts(r) ==
  \E id \in ProviderId, l \in BOOLEAN : r = MissingResult(id) \/ r = UnauthenticatedResult(id, l, FALSE)

LEMMA FailureIsARow ==
  ASSUME NEW id \in ProviderId, NEW state \in Failures, NEW retryable \in BOOLEAN, NEW action \in ActionKind
  PROVE  /\ Failure(id, state, retryable, action) # NULL
         /\ Failure(id, state, retryable, action).state = state
         /\ Failure(id, state, retryable, action).error.retryable = retryable
<1>1. Failure(id, state, retryable, action) \in ProviderStatus
  BY DEF Failure, ProviderStatus, ProviderState, ProviderError, Optional
<1> QED
  BY <1>1, NullAssumption DEF Failure

\* provider_status_from_result(), for the kinds of failure.
LEMMA ResultKinds ==
  ASSUME NEW r
  PROVE  /\ r.kind = "cli_missing" => StatusFromResult(r) = CliMissing(r.id, FALSE, "view_installation")
         /\ r.kind = "unauthenticated" =>
              StatusFromResult(r) =
                Unauthenticated(r.id, r.retryable, IF r.login THEN "login" ELSE "view_installation")
         /\ r.kind = "network_error" => StatusFromResult(r) = PassingFailure(r.id, r.kind, TRUE, "retry")
         /\ r.kind = "provider_error" => StatusFromResult(r) = ProviderErrorRow(r.id, r.retryable, "retry")
BY Zenon DEF StatusFromResult

LEMMA RowOfFailure ==
  ASSUME NEW id \in ProviderId, NEW state \in Failures, NEW retryable \in BOOLEAN, NEW action \in ActionKind,
         NEW r, StatusFromResult(r) = Failure(id, state, retryable, action)
  PROVE  RowOf(r).state = state /\ RowOf(r).error.retryable = retryable
<1>1. PICK failure : failure = Failure(id, state, retryable, action)
  OBVIOUS
<1>2. failure # NULL /\ failure.state = state /\ failure.error.retryable = retryable
  BY <1>1, FailureIsARow
<1>3. RowOf(r) = failure
  BY <1>1, <1>2 DEF RowOf
<1> QED
  BY <1>2, <1>3

LEMMA RowOfMissing ==
  ASSUME NEW id \in ProviderId, NEW r, r = MissingResult(id)
  PROVE  RowOf(r).state \in Failures /\ ~IsTemporaryFailure(RowOf(r))
<1>1. r.kind = "cli_missing" /\ r.id = id
  BY DEF MissingResult
<1>2. PICK retryable \in BOOLEAN : retryable = FALSE
  OBVIOUS
<1>3. StatusFromResult(r) = Failure(id, "cli_missing", retryable, "view_installation")
  BY <1>1, <1>2, ResultKinds DEF CliMissing
<1>4. RowOf(r).state = "cli_missing"
  BY <1>3, RowOfFailure DEF Failures, ActionKind
<1> QED
  BY <1>4 DEF Failures, IsTemporaryFailure

LEMMA RowOfUnauthenticated ==
  ASSUME NEW id \in ProviderId, NEW l \in BOOLEAN, NEW retryable \in BOOLEAN,
         NEW r, r = UnauthenticatedResult(id, l, retryable)
  PROVE  RowOf(r).state \in Failures /\ (IsTemporaryFailure(RowOf(r)) <=> retryable)
<1>1. r.kind = "unauthenticated" /\ r.id = id /\ r.retryable = retryable
  BY DEF UnauthenticatedResult
<1>2. PICK action \in {"login", "view_installation"} :
        StatusFromResult(r) = Failure(id, "unauthenticated", retryable, action)
  BY <1>1, ResultKinds DEF Unauthenticated
<1>3. RowOf(r).state = "unauthenticated" /\ RowOf(r).error.retryable = retryable
  BY <1>2, RowOfFailure DEF Failures, ActionKind
<1> QED
  BY <1>3 DEF Failures, IsTemporaryFailure

LEMMA RowOfNetwork ==
  ASSUME NEW id \in ProviderId, NEW r, r = NetworkResult(id)
  PROVE  IsTemporaryFailure(RowOf(r))
<1>1. r.kind = "network_error" /\ r.id = id
  BY DEF NetworkResult
<1>2. PICK retryable \in BOOLEAN : retryable = TRUE
  OBVIOUS
<1>3. StatusFromResult(r) = Failure(id, "network_error", retryable, "retry")
  BY <1>1, <1>2, ResultKinds DEF PassingFailure
<1>4. RowOf(r).state = "network_error"
  BY <1>3, RowOfFailure DEF Failures, ActionKind
<1> QED
  BY <1>4 DEF IsTemporaryFailure

LEMMA RowOfError ==
  ASSUME NEW id \in ProviderId, NEW retryable \in BOOLEAN, NEW r, r = ErrorResult(id, retryable)
  PROVE  IsTemporaryFailure(RowOf(r)) <=> retryable
<1>1. r.kind = "provider_error" /\ r.id = id /\ r.retryable = retryable
  BY DEF ErrorResult
<1>2. StatusFromResult(r) = Failure(id, "provider_error", retryable, "retry")
  BY <1>1, ResultKinds DEF ProviderErrorRow
<1>3. RowOf(r).state = "provider_error" /\ RowOf(r).error.retryable = retryable
  BY <1>2, RowOfFailure DEF Failures, ActionKind
<1> QED
  BY <1>3 DEF IsTemporaryFailure

LEMMA RowOfPassing ==
  ASSUME NEW r, Passes(r)
  PROVE  IsTemporaryFailure(RowOf(r))
BY RowOfNetwork, RowOfUnauthenticated, RowOfError DEF Passes

LEMMA RowOfLasting ==
  ASSUME NEW r, Lasts(r)
  PROVE  RowOf(r).state \in Failures /\ ~IsTemporaryFailure(RowOf(r))
BY RowOfMissing, RowOfUnauthenticated DEF Lasts

\* The verdict on a finished collection: what the property says, once.
Verdict(r, collected, why, kept) ==
  /\ why \subseteq Passing => r.kind = "ready" \/ IsTemporaryFailure(collected)
  /\ why \cap Lasting # {} /\ kept = NULL => collected.state \in Failures /\ ~IsTemporaryFailure(collected)

\* Until a collection is done only what is tried again stood in its way, and
\* only Grok's empty reading has been kept.
Judged ==
  /\ pc # "done" => row = NULL /\ causes \subseteq {"network", "timeout"}
  /\ pc \notin {"monthly", "done"} => credits = NULL
  /\ pc = "monthly" => credits \in Credits
  /\ pc = "done" => Verdict(result, row, causes, credits)

LEMMA InitJudged == Init => Judged
BY DEF Init, Judged

\* A cause that neither passes nor lasts says nothing of the result.
LEMMA FinishedOtherwise ==
  ASSUME NEW r, Finish(r), NEW cause, cause \notin Passing \cup Lasting, Because({cause}), Judged, pc # "done"
  PROVE  Judged'
<1>1. Verdict(r, row', causes', credits')
  BY DEF Judged, Because, Verdict, Passing, Lasting
<1> QED
  BY <1>1 DEF Judged, Finish

LEMMA FinishedPassing ==
  ASSUME NEW r, Finish(r), Passes(r), NEW cause \in Passing, Because({cause}), Judged, pc # "done"
  PROVE  Judged'
<1>1. Verdict(r, row', causes', credits')
  BY RowOfPassing DEF Judged, Because, Verdict, Passing, Lasting, Finish
<1> QED
  BY <1>1 DEF Judged, Finish

LEMMA FinishedLasting ==
  ASSUME NEW r, Finish(r), Lasts(r), NEW cause \in Lasting, Because({cause}), Judged, pc # "done"
  PROVE  Judged'
<1>1. Verdict(r, row', causes', credits')
  BY RowOfLasting DEF Judged, Because, Verdict, Passing, Lasting, Finish
<1> QED
  BY <1>1 DEF Judged, Finish

\* Nothing more stood in the way of a reading, or of a refusal that passes.
LEMMA FinishedWell ==
  ASSUME NEW r, Finish(r), r.kind = "ready" \/ Passes(r), Because({}), Judged, pc # "done"
  PROVE  Judged'
<1>1. Verdict(r, row', causes', credits')
  BY RowOfPassing DEF Judged, Because, Verdict, Passing, Lasting, Finish
<1> QED
  BY <1>1 DEF Judged, Finish

\* A collection that goes on, with what may stand in its way on it.
LEMMA WaitsOn ==
  ASSUME NEW next, Await(next), next \notin {"done", "monthly"}, causes' \subseteq causes \cup {"network", "timeout"},
         credits' = credits, Judged, pc \notin {"done", "monthly"}
  PROVE  Judged'
BY DEF Judged, Await

LEMMA PassingResults ==
  ASSUME NEW id \in ProviderId
  PROVE  Passes(NetworkResult(id)) /\ Passes(UnauthenticatedResult(id, login, TRUE)) /\ Passes(ErrorResult(id, TRUE))
<1>1. login \in BOOLEAN
  BY DEF login, LoginAvailable
<1> QED
  BY <1>1 DEF Passes

LEMMA LastingResults ==
  ASSUME NEW id \in ProviderId
  PROVE  Lasts(MissingResult(id)) /\ Lasts(UnauthenticatedResult(id, login, FALSE))
<1>1. login \in BOOLEAN
  BY DEF login, LoginAvailable
<1> QED
  BY <1>1 DEF Lasts

\* Only a request that did not get through is sent again.
LEMMA SentAgainJudged ==
  ASSUME NEW answer, Sent(answer), SentAgain(answer), Judged, pc # "done"
  PROVE  Judged'
<1>1. Cause(answer) = {"network"}
  BY DEF SentAgain, GivenUp, Again, Cause
<1> QED
  BY <1>1 DEF Sent, SentAgain, Because, Judged

\* http_failure()
LEMMA RefusedJudged ==
  ASSUME Place, Judged, pc # "done", NEW answer, ~Success(answer), NEW retryable5xx,
         Because(Cause(answer)), Finish(HttpFailure(provider, login, answer, retryable5xx))
  PROVE  Judged'
<1>0. provider \in ProviderId
  BY DEF Place
<1>1. CASE answer.tag = "network"
  <2>1. Cause(answer) = {"network"} /\ HttpFailure(provider, login, answer, retryable5xx) = NetworkResult(provider)
    BY <1>1 DEF Cause, HttpFailure, Rejected
  <2> QED
    BY <1>0, <2>1, PassingResults, FinishedPassing DEF Passing
<1>2. CASE answer.tag = "ok" /\ answer.status \in {401, 403}
  <2>1. Cause(answer) = {"rejected"}
    BY <1>2 DEF Cause
  <2>2. HttpFailure(provider, login, answer, retryable5xx) = UnauthenticatedResult(provider, login, FALSE)
    BY <1>2 DEF HttpFailure, Rejected
  <2> QED
    BY <1>0, <2>1, <2>2, LastingResults, FinishedLasting DEF Lasting
<1>3. CASE answer.tag # "network" /\ ~(answer.tag = "ok" /\ answer.status \in {401, 403})
  <2>1. PICK cause \in {"transport", "limited", "status"} : Cause(answer) = {cause}
    BY <1>3 DEF Cause
  <2> QED
    BY <2>1, FinishedOtherwise DEF Passing, Lasting
<1> QED
  BY <1>1, <1>2, <1>3

\* grok_auth_failure()
LEMMA FileJudged ==
  ASSUME NEW f \in GrokFiles, f.is # "token", Because({f.is}), Finish(GrokAuthFailure(f, login)), Judged, pc # "done"
  PROVE  Judged'
<1>0. "grok" \in ProviderId
  BY DEF ProviderId
<1>1. f.is \in {"missing", "unreadable", "torn", "empty"}
  BY InputAssumption
<1>2. CASE f.is \in {"missing", "empty"}
  <2>1. GrokAuthFailure(f, login) = UnauthenticatedResult("grok", login, FALSE)
    BY <1>2, Zenon DEF GrokAuthFailure
  <2> QED
    BY <1>0, <1>2, <2>1, LastingResults, FinishedLasting DEF Lasting
<1>3. CASE f.is = "torn"
  <2>1. GrokAuthFailure(f, login) = UnauthenticatedResult("grok", login, TRUE)
    BY <1>3, Zenon DEF GrokAuthFailure
  <2> QED
    BY <1>0, <1>3, <2>1, PassingResults, FinishedPassing DEF Passing
<1>4. CASE f.is = "unreadable"
  BY <1>4, FinishedOtherwise DEF Passing, Lasting
<1> QED
  BY <1>1, <1>2, <1>3, <1>4

\* An expired session comes back when the command line is used.
LEMMA ExpiredJudged ==
  ASSUME NEW id \in ProviderId, Finish(UnauthenticatedResult(id, login, TRUE)), Because({"expired"}),
         Judged, pc # "done"
  PROVE  Judged'
BY PassingResults, FinishedPassing DEF Passing

\* What a readable answer of Grok is.
LEMMA GrokReading ==
  ASSUME NEW x \in GrokAnswers \cup Exchanges, Success(HttpSend(x)), HttpSend(x).body # NULL, NEW at \in Nat
  PROVE  /\ GrokResult(HttpSend(x).body, at).kind = "ready"
         /\ GrokResult(HttpSend(x).body, at).windows = <<>> => GrokResult(HttpSend(x).body, at) \in Credits
<1>1. PICK doc : doc = HttpSend(x).body
  OBVIOUS
<1>2. doc = x.body
  BY <1>1 DEF HttpSend
<1>3. doc \in GrokBillingDoc
  BY <1>1, <1>2, InputAssumption, CollectionConstants
<1>4. doc.tier \in Optional(STRING)
  BY <1>3 DEF GrokBillingDoc
<1>5. PICK windows : GrokResult(doc, at) = ReadyResult("grok", doc.tier, windows, at, <<>>)
  BY <1>1 DEF GrokResult
<1>6. GrokResult(doc, at).kind = "ready" /\ GrokResult(doc, at).windows = windows
  BY <1>5 DEF ReadyResult
<1>7. windows = <<>> => GrokResult(doc, at) \in Credits
  BY <1>4, <1>5 DEF ReadyResult, Credits
<1> QED
  BY <1>1, <1>6, <1>7

LEMMA GrokUnread ==
  ASSUME NEW at
  PROVE  GrokResult(NULL, at).kind = "provider_error"
BY DEF GrokResult, ErrorResult

LEMMA GrokCause ==
  ASSUME provider = "grok", NEW answer, Success(answer)
  PROVE  Cause(answer) = IF answer.body = NULL THEN {"body"} ELSE {}
BY DEF Cause, Faulty, Success

\* The credits stay a reading when the monthly windows are added to them.
LEMMA MergedIsReady ==
  ASSUME NEW c \in Credits, NEW windows, NEW plan
  PROVE  [c EXCEPT !.windows = windows, !.plan = Or(@, plan)].kind = "ready"
BY DEF Credits

LEMMA GrokFirstJudged ==
  ASSUME Place, Tokens, Judged, GrokBilling
  PROVE  Judged'
<1>1. PICK x \in GrokAnswers \cup Exchanges :
        LET answer  == HttpSend(x)
            reading == GrokResult(answer.body, askedAt)
            empty   == reading.kind = "ready" /\ reading.windows = <<>>
        IN  /\ Sent(answer)
            /\ \/ SentAgain(answer)
               \/ ~Success(answer) /\ Finish(HttpFailure("grok", login, answer, TRUE))
               \/ Success(answer) /\ ~empty /\ Finish(reading)
               \/ Success(answer) /\ empty /\ credits' = reading /\ Await("monthly")
  BY DEF GrokBilling
<1>2. PICK answer : answer = HttpSend(x)
  OBVIOUS
<1>3. PICK reading : reading = GrokResult(answer.body, askedAt)
  OBVIOUS
<1>4. pc = "billing" /\ provider = "grok" /\ Because(Cause(answer)) /\ Sent(answer)
  BY <1>1, <1>2 DEF GrokBilling, Place, Sent
<1>5. CASE SentAgain(answer)
  BY <1>4, <1>5, SentAgainJudged
<1>6. Success(answer) => ~SentAgain(answer)
  BY DEF Success, SentAgain, GivenUp, Again
<1>7. CASE ~Success(answer) /\ Finish(HttpFailure("grok", login, answer, TRUE))
  BY <1>4, <1>7, RefusedJudged
<1>8. CASE Success(answer) /\ answer.body = NULL
  <2>1. reading.kind = "provider_error"
    BY <1>3, <1>8, GrokUnread
  <2>2. Finish(reading)
    BY <1>1, <1>2, <1>3, <1>8, <1>6, <2>1
  <2>3. Because({"body"})
    BY <1>4, <1>8, GrokCause
  <2> QED
    BY <1>4, <2>2, <2>3, FinishedOtherwise DEF Passing, Lasting
<1>9. CASE Success(answer) /\ answer.body # NULL
  <2>1. Because({})
    BY <1>4, <1>9, GrokCause
  <2>2. reading.kind = "ready" /\ (reading.windows = <<>> => reading \in Credits)
    BY <1>2, <1>3, <1>9, GrokReading DEF Tokens
  <2>3. CASE Finish(reading)
    BY <1>4, <2>1, <2>2, <2>3, FinishedWell
  <2>4. CASE reading.windows = <<>> /\ credits' = reading /\ Await("monthly")
    BY <1>4, <2>1, <2>2, <2>4 DEF Judged, Because, Await
  <2> QED
    BY <1>1, <1>2, <1>3, <1>9, <1>6, <2>2, <2>3, <2>4
<1> QED
  BY <1>1, <1>2, <1>3, <1>5, <1>7, <1>8, <1>9

LEMMA GrokMonthlyJudged ==
  ASSUME Place, Tokens, Judged, GrokMonthly
  PROVE  Judged'
<1>1. PICK x \in GrokAnswers \cup Exchanges :
        LET answer  == HttpSend(x)
            monthly == GrokResult(answer.body, askedAt)
            refused == answer.tag = "ok" /\ ~Success(answer) /\ answer.status < 500
            merged  == IF monthly.kind = "ready"
                       THEN [credits EXCEPT !.windows = monthly.windows, !.plan = Or(@, monthly.plan)]
                       ELSE credits
        IN  /\ Sent(answer)
            /\ \/ SentAgain(answer)
               \/ /\ credits' = credits
                  /\ \/ refused /\ Finish(credits)
                     \/ ~Success(answer) /\ Finish(HttpFailure("grok", login, answer, TRUE))
                     \/ Success(answer) /\ Finish(merged)
  BY DEF GrokMonthly
<1>2. PICK answer : answer = HttpSend(x)
  OBVIOUS
<1>3. /\ pc = "monthly" /\ provider = "grok" /\ Because(Cause(answer)) /\ Sent(answer)
      /\ credits \in Credits
  BY <1>1, <1>2 DEF GrokMonthly, Place, Sent, Judged
<1>4. ASSUME NEW r, Finish(r), r.kind = "ready", credits' = credits PROVE Judged'
  <2>1. credits # NULL
    BY <1>3, CreditsAssumption
  <2>2. Verdict(r, row', causes', credits')
    BY <1>4, <2>1 DEF Verdict
  <2> QED
    BY <1>4, <2>2 DEF Judged, Finish
<1>5. CASE SentAgain(answer)
  BY <1>3, <1>5, SentAgainJudged
<1>6. CASE ~Success(answer) /\ Finish(HttpFailure("grok", login, answer, TRUE))
  BY <1>3, <1>6, RefusedJudged
<1>7. CASE Finish(credits) /\ credits' = credits
  <2>1. credits.kind = "ready"
    BY <1>3 DEF Credits
  <2> QED
    BY <1>4, <1>7, <2>1
<1>8. ASSUME NEW windows, NEW plan, credits' = credits,
             Finish([credits EXCEPT !.windows = windows, !.plan = Or(@, plan)])
      PROVE  Judged'
  BY <1>3, <1>4, <1>8, MergedIsReady
<1> QED
  BY <1>1, <1>2, <1>5, <1>6, <1>7, <1>8

LEMMA GrokStartJudged ==
  ASSUME Judged, GrokStart
  PROVE  Judged'
<1>1. pc = "start" /\ UNCHANGED credits /\ "grok" \in ProviderId
  BY DEF GrokStart, ProviderId
<1>2. CASE Finish(ErrorResult("grok", FALSE)) /\ Because({"setup"})
  BY <1>1, <1>2, FinishedOtherwise DEF Passing, Lasting
<1>3. ASSUME NEW f \in GrokFiles, f.is # "token", Finish(GrokAuthFailure(f, login)), Because({f.is})
      PROVE  Judged'
  BY <1>1, <1>3, FileJudged
<1>4. CASE Finish(ExpiredGrok) /\ Because({"expired"})
  BY <1>1, <1>4, ExpiredJudged DEF ExpiredGrok
<1>5. CASE (Await("billing") \/ Await("renewing")) /\ UNCHANGED causes
  BY <1>1, <1>5, WaitsOn
<1> QED
  BY <1>2, <1>3, <1>4, <1>5 DEF GrokStart

LEMMA GrokRenewedJudged ==
  ASSUME Judged, GrokRenewed
  PROVE  Judged'
<1>1. pc = "renewing" /\ UNCHANGED credits /\ "grok" \in ProviderId
  BY DEF GrokRenewed, ProviderId
<1>2. ASSUME NEW f \in GrokFiles, f.is # "token", Finish(GrokAuthFailure(f, login)), Because({f.is})
      PROVE  Judged'
  BY <1>1, <1>2, FileJudged
<1>3. CASE Finish(ExpiredGrok) /\ Because({"expired"})
  BY <1>1, <1>3, ExpiredJudged DEF ExpiredGrok
<1>4. CASE Await("billing") /\ UNCHANGED causes
  BY <1>1, <1>4, WaitsOn
<1> QED
  BY <1>2, <1>3, <1>4 DEF GrokRenewed

LEMMA CodexJudged ==
  ASSUME Server, Judged, CodexStart \/ CodexExchange \/ CodexAgain \/ CodexOutcome
  PROVE  Judged'
<1>0. "codex" \in ProviderId
  BY DEF ProviderId
<1>1. CASE CodexStart
  <2>1. pc = "start" /\ UNCHANGED credits
    BY <1>1 DEF CodexStart, CodexUnchanged
  <2>2. CASE Finish(ErrorResult("codex", FALSE)) /\ Because({"setup"})
    BY <2>1, <2>2, FinishedOtherwise DEF Passing, Lasting
  <2>3. CASE Finish(MissingResult("codex")) /\ Because({"missing"})
    BY <1>0, <2>1, <2>3, LastingResults, FinishedLasting DEF Lasting
  <2>4. CASE Await("exchange") /\ UNCHANGED causes
    BY <2>1, <2>4, WaitsOn
  <2> QED
    BY <1>1, <2>2, <2>3, <2>4 DEF CodexStart
<1>2. CASE CodexExchange
  BY <1>2 DEF CodexExchange, collectionVars, Judged
<1>3. CASE CodexAgain
  BY <1>3, WaitsOn DEF CodexAgain, CodexUnchanged
<1>4. CASE CodexOutcome
  <2>1. pc = "exchange" /\ UNCHANGED credits /\ Made(outcome)
    BY <1>4 DEF CodexOutcome, CodexUnchanged, Taken, Server
  <2>2. CASE Again("codex", attempt, outcome.tag = "timed_out")
    <3>1. Await("retrying") /\ Because({"timeout"})
      BY <1>4, <2>2 DEF CodexOutcome
    <3> QED
      BY <2>1, <3>1, WaitsOn DEF Because
  <2>3. CASE ~Again("codex", attempt, outcome.tag = "timed_out")
    <3>1. /\ Because(CASE outcome.tag = "ok" -> {} [] outcome.tag = "timed_out" -> {"timeout"}
                        [] outcome.tag = "failed" -> {"exchange"} [] OTHER -> {"rejected"})
          /\ Finish(CASE outcome.tag = "ok" -> CodexResult(outcome.doc, now')
                       [] outcome.tag = "unauthenticated" -> UnauthenticatedResult("codex", login, FALSE)
                       [] OTHER -> ErrorResult("codex", TRUE))
      BY <1>4, <2>3 DEF CodexOutcome
    <3>2. CASE outcome.tag = "ok"
      <4>1. Because({}) /\ Finish(CodexResult(outcome.doc, now'))
        BY <3>1, <3>2
      <4>2. CodexResult(outcome.doc, now').kind = "ready"
        BY <2>1, <3>2 DEF Made, Losses, CodexResult, ReadyResult
      <4> QED
        BY <2>1, <4>1, <4>2, FinishedWell
    <3>3. CASE outcome.tag = "timed_out"
      <4>1. Because({"timeout"}) /\ Finish(ErrorResult("codex", TRUE))
        BY <3>1, <3>3
      <4> QED
        BY <1>0, <2>1, <4>1, PassingResults, FinishedPassing DEF Passing
    <3>4. CASE outcome.tag = "failed"
      <4>1. Because({"exchange"}) /\ Finish(ErrorResult("codex", TRUE))
        BY <3>1, <3>4
      <4> QED
        BY <2>1, <4>1, FinishedOtherwise DEF Passing, Lasting
    <3>5. CASE outcome.tag = "unauthenticated"
      <4>1. Because({"rejected"}) /\ Finish(UnauthenticatedResult("codex", login, FALSE))
        BY <3>1, <3>5
      <4> QED
        BY <1>0, <2>1, <4>1, LastingResults, FinishedLasting DEF Lasting
    <3> QED
      BY <2>1, <3>2, <3>3, <3>4, <3>5 DEF Made, Losses
  <2> QED
    BY <2>2, <2>3
<1> QED
  BY <1>1, <1>2, <1>3, <1>4

LEMMA ClaudeStartJudged ==
  ASSUME Judged, ClaudeStart
  PROVE  Judged'
<1>1. pc = "start" /\ UNCHANGED credits /\ "claude" \in ProviderId
  BY DEF ClaudeStart, ProviderId
<1>2. PICK f \in ClaudeFiles :
        CASE ClaudeCredentials(f, now) = "missing" ->
               Finish(UnauthenticatedResult("claude", login, FALSE)) /\ Because({f.is}) /\ UNCHANGED file
          [] ClaudeCredentials(f, now) = "expired" ->
               Finish(UnauthenticatedResult("claude", login, TRUE)) /\ Because({"expired"}) /\ UNCHANGED file
          [] OTHER ->
               Await(IF Executable("claude", env) THEN "version" ELSE "usage") /\ file' = f /\ UNCHANGED causes
  BY DEF ClaudeStart
<1>3. CASE ClaudeCredentials(f, now) = "missing"
  <2>1. Finish(UnauthenticatedResult("claude", login, FALSE)) /\ Because({f.is})
    BY <1>2, <1>3
  <2>2. f.is \in {"missing", "empty"}
    BY <1>3, InputAssumption DEF ClaudeCredentials
  <2> QED
    BY <1>1, <2>1, <2>2, LastingResults, FinishedLasting DEF Lasting
<1>4. CASE ClaudeCredentials(f, now) = "expired"
  <2>1. Finish(UnauthenticatedResult("claude", login, TRUE)) /\ Because({"expired"})
    BY <1>2, <1>4
  <2> QED
    BY <1>1, <2>1, ExpiredJudged
<1>5. CASE ClaudeCredentials(f, now) \notin {"missing", "expired"}
  <2>1. Await(IF Executable("claude", env) THEN "version" ELSE "usage") /\ UNCHANGED causes
    BY <1>2, <1>5
  <2> QED
    BY <1>1, <2>1, WaitsOn
<1> QED
  BY <1>3, <1>4, <1>5

\* claude_from_usage_json(), of a success.
LEMMA ClaudeReadingJudged ==
  ASSUME Judged, pc = "usage", provider = "claude", NEW answer, Success(answer), Because(Cause(answer)),
         NEW at, NEW plan, Finish(ClaudeResult(answer.body, at, plan, login))
  PROVE  Judged'
<1>1. Cause(answer) = IF Faulty(answer.body) THEN {"body"} ELSE {}
  BY DEF Cause, Success
<1>2. CASE Faulty(answer.body)
  BY <1>1, <1>2, FinishedOtherwise DEF Passing, Lasting
<1>3. CASE ~Faulty(answer.body)
  <2>0. Because({}) /\ answer.body # NULL /\ answer.body.error \in {NULL, "token_expired"} /\ "claude" \in ProviderId
    BY <1>1, <1>3 DEF Faulty, ProviderId
  <2>1. CASE answer.body.error = "token_expired"
    <3>1. ClaudeResult(answer.body, at, plan, login) = UnauthenticatedResult("claude", login, TRUE)
      BY <2>0, <2>1 DEF ClaudeResult
    <3> QED
      BY <2>0, <3>1, PassingResults, FinishedWell
  <2>2. CASE answer.body.error # "token_expired"
    <3>1. ClaudeResult(answer.body, at, plan, login).kind = "ready"
      BY <2>0, <2>2 DEF ClaudeResult, ReadyResult
    <3> QED
      BY <2>0, <3>1, FinishedWell
  <2> QED
    BY <2>1, <2>2
<1> QED
  BY <1>2, <1>3

LEMMA ClaudeUsageJudged ==
  ASSUME Place, Judged, ClaudeUsage
  PROVE  Judged'
<1>1. PICK x \in ClaudeAnswers \cup Exchanges :
        LET answer  == HttpSend(x)
            reading == IF Success(answer) THEN ClaudeResult(answer.body, now', file.plan, login)
                       ELSE IF answer.tag = "ok" /\ answer.status = 429
                       THEN LimitedResult("claude", RetryInstant(answer.retryAfter, now'))
                       ELSE HttpFailure("claude", login, answer, FALSE)
        IN  /\ Sent(answer)
            /\ SentAgain(answer) \/ Finish(reading)
  BY DEF ClaudeUsage
<1>2. PICK answer : answer = HttpSend(x)
  OBVIOUS
<1>3. pc = "usage" /\ provider = "claude" /\ Sent(answer) /\ Because(Cause(answer))
  BY <1>1, <1>2 DEF ClaudeUsage, Sent
<1>4. CASE SentAgain(answer)
  BY <1>3, <1>4, SentAgainJudged
<1>5. CASE Success(answer) /\ Finish(ClaudeResult(answer.body, now', file.plan, login))
  BY <1>3, <1>5, ClaudeReadingJudged
<1>6. CASE /\ answer.tag = "ok" /\ answer.status = 429
           /\ Finish(LimitedResult("claude", RetryInstant(answer.retryAfter, now')))
  <2>1. Cause(answer) = {"limited"}
    BY <1>6 DEF Cause
  <2> QED
    BY <1>3, <1>6, <2>1, FinishedOtherwise DEF Passing, Lasting
<1>7. CASE ~Success(answer) /\ Finish(HttpFailure("claude", login, answer, FALSE))
  BY <1>3, <1>7, RefusedJudged
<1> QED
  BY <1>1, <1>2, <1>4, <1>5, <1>6, <1>7

LEMMA AgyJudged ==
  ASSUME Judged, AgyStart \/ AgyReached \/ AgyVersion \/ AgyUsage
  PROVE  Judged'
<1>1. "antigravity" \in ProviderId /\ UNCHANGED credits
  BY DEF ProviderId, AgyStart, AgyReached, AgyVersion, AgyUsage, AgyUnchanged
<1>2. pc \in {"start", "reaching", "version", "agy"}
  BY DEF AgyStart, AgyReached, AgyVersion, AgyUsage
<1>3. CASE Finish(MissingResult("antigravity")) /\ Because({"missing"})
  BY <1>1, <1>2, <1>3, LastingResults, FinishedLasting DEF Lasting
<1>4. ASSUME NEW cause \in {"network", "timeout"}, Finish(NetworkResult("antigravity")), Because({cause})
      PROVE  Judged'
  BY <1>1, <1>2, <1>4, PassingResults, FinishedPassing DEF Passing
<1>5. ASSUME NEW r, NEW cause \in {"unsupported", "body"}, Finish(r), Because({cause})
      PROVE  Judged'
  BY <1>2, <1>5, FinishedOtherwise DEF Passing, Lasting
<1>6. CASE Finish(UnauthenticatedResult("antigravity", login, FALSE)) /\ Because({"rejected"})
  BY <1>1, <1>2, <1>6, LastingResults, FinishedLasting DEF Lasting
<1>7. ASSUME NEW next \in {"reaching", "version", "agy"}, Await(next), UNCHANGED causes
      PROVE  Judged'
  BY <1>1, <1>2, <1>7, WaitsOn
<1>8. CASE AgyStart
  BY <1>8, <1>3, <1>7 DEF AgyStart
<1>9. CASE AgyReached
  BY <1>9, <1>4, <1>7 DEF AgyReached
<1>10. CASE AgyVersion
  BY <1>10, <1>4, <1>5, <1>7 DEF AgyVersion
<1>11. CASE AgyUsage
  <2>1. PICK child \in UsageRuns :
          LET run == RunProcess(child)
          IN  /\ Finish(AntigravityUsage(run, login, now'))
              /\ Because(IF run.tag # "exit" THEN {"timeout"} ELSE IF run.out.banner THEN {"rejected"} ELSE {"body"})
    BY <1>11 DEF AgyUsage
  <2>2. PICK run : run = RunProcess(child)
    OBVIOUS
  <2>3. CASE run.tag # "exit"
    BY <2>1, <2>2, <2>3, <1>4 DEF AntigravityUsage
  <2>4. CASE run.tag = "exit" /\ run.out.banner
    BY <2>1, <2>2, <2>4, <1>6 DEF AntigravityUsage
  <2>5. CASE run.tag = "exit" /\ ~run.out.banner
    BY <2>1, <2>2, <2>5, <1>5
  <2> QED
    BY <2>3, <2>4, <2>5
<1> QED
  BY <1>8, <1>9, <1>10, <1>11

LEMMA NextJudged == Server /\ Place /\ Tokens /\ Judged /\ [Next]_vars => Judged'
<1> SUFFICES ASSUME Server, Place, Tokens, Judged, [Next]_vars PROVE Judged'
  OBVIOUS
<1>1. CASE GrokStart \/ GrokRenewed \/ GrokBilling \/ GrokMonthly
  BY <1>1, GrokStartJudged, GrokRenewedJudged, GrokFirstJudged, GrokMonthlyJudged
<1>2. CASE CodexStart \/ CodexExchange \/ CodexAgain \/ CodexOutcome
  BY <1>2, CodexJudged
<1>3. CASE ClaudeStart
  BY <1>3, ClaudeStartJudged
<1>4. CASE ClaudeProbed
  BY <1>4, WaitsOn DEF ClaudeProbed
<1>5. CASE ClaudeUsage
  BY <1>5, ClaudeUsageJudged
<1>6. CASE AgyStart \/ AgyReached \/ AgyVersion \/ AgyUsage
  BY <1>6, AgyJudged
<1>7. CASE Done \/ UNCHANGED vars
  BY <1>7 DEF Done, vars, collectionVars, Judged
<1> QED
  BY <1>1, <1>2, <1>3, <1>4, <1>5, <1>6, <1>7 DEF Next

\* What passes by itself leaves a row over which the last good reading is
\* kept, and a rejected or absent sign-in one over which it is not, for any
\* answers, files, children and exchanges (http_failure(), the adapters'
\* collect(), provider_status_from_result(), is_temporary_failure()).
THEOREM RetentionFollowsTheCauseHolds == Spec => []RetentionFollowsTheCause
<1>1. Judged => RetentionFollowsTheCause
  BY DEF Judged, Verdict, Passing, Lasting, RetentionFollowsTheCause
<1> QED
  BY <1>1, InitServer, StepKeepsServer, InitPlace, NextPlace, InitClock, NextClock, InitTokens, NextTokens,
     InitJudged, NextJudged, PTL DEF Spec

---------------------------------------------------------------------------
(* Sets of numbers, and lists.                                             *)

\* Induction on finite sets, for the members of a set of sets.
LEMMA FiniteInduction ==
  ASSUME NEW S, IsFiniteSet(S), NEW G,
         \A X \in SUBSET S : (\A x \in X : X \ {x} \in G) => X \in G
  PROVE  S \in G
<1> DEFINE Bad == {X \in SUBSET S : X \notin G}
<1>1. IsWellFoundedOn(StrictSubsetOrdering(S), SUBSET S)
  BY FS_StrictSubsetOrderingWellFounded, FS_FiniteSubsetsOfFinite
<1>2. SUFFICES ASSUME S \notin G PROVE FALSE
  OBVIOUS
<1>3. Bad \subseteq SUBSET S /\ Bad # {}
  BY <1>2
<1>4. PICK X \in Bad : \A Y \in Bad : <<Y, X>> \notin StrictSubsetOrdering(S)
  <2> HIDE DEF Bad
  <2> QED
    BY <1>1, <1>3, WFMin
<1>5. X \in SUBSET S /\ X \notin G
  OBVIOUS
<1>6. PICK x \in X : X \ {x} \notin G
  BY <1>5
<1>7. X \ {x} \in Bad
  BY <1>5, <1>6
<1>8. <<X \ {x}, X>> \in StrictSubsetOrdering(S)
  BY <1>5, <1>6 DEF StrictSubsetOrdering
<1> QED
  BY <1>4, <1>7, <1>8

\* Induction on the numbers up to n, for the members of a set of numbers.
LEMMA CountedInduction ==
  ASSUME NEW n \in Nat, NEW G, 0 \in G, \A i \in Nat : i < n /\ i \in G => i + 1 \in G
  PROVE  n \in G
<1> DEFINE H == {X \in SUBSET (1..n) : \A m \in 0..n : X = 1..m => m \in G}
<1>1. IsFiniteSet(1..n)
  BY FS_Interval
<1>2. ASSUME NEW X \in SUBSET (1..n), \A x \in X : X \ {x} \in H PROVE X \in H
  <2>1. SUFFICES ASSUME NEW m \in 0..n, X = 1..m PROVE m \in G
    OBVIOUS
  <2>2. CASE m = 0
    BY <2>2
  <2>3. CASE m # 0
    <3>1. m \in X /\ X \ {m} = 1..(m - 1) /\ m - 1 \in 0..n
      BY <2>1, <2>3
    <3>2. m - 1 \in G
      BY <1>2, <3>1
    <3> QED
      BY <2>1, <2>3, <3>1, <3>2
  <2> QED
    BY <2>2, <2>3
<1>3. 1..n \in H
  <2> HIDE DEF H
  <2> QED
    BY <1>1, <1>2, FiniteInduction
<1> QED
  BY <1>3

\* A finite set of numbers has a greatest one.
LEMMA FiniteGreatest ==
  ASSUME NEW S \in SUBSET Int, IsFiniteSet(S), S # {}
  PROVE  \E m \in S : \A x \in S : x <= m
<1> DEFINE G == {X \in SUBSET S : X # {} => \E m \in X : \A x \in X : x <= m}
<1>1. ASSUME NEW X \in SUBSET S, \A x \in X : X \ {x} \in G
      PROVE  X \in G
  <2>1. SUFFICES ASSUME X # {} PROVE \E m \in X : \A x \in X : x <= m
    OBVIOUS
  <2>2. PICK y \in X : TRUE
    BY <2>1
  <2>3. CASE X \ {y} = {}
    <3>1. \A x \in X : x = y /\ x \in Int
      BY <2>3
    <3> QED
      BY <2>2, <3>1
  <2>4. CASE X \ {y} # {}
    <3>1. PICK m \in X \ {y} : \A x \in X \ {y} : x <= m
      BY <1>1, <2>2, <2>4
    <3>2. m \in Int /\ y \in Int /\ X \subseteq Int
      BY <2>2, <3>1
    <3>3. CASE y <= m
      BY <2>2, <3>1, <3>3
    <3>4. CASE m <= y
      BY <2>2, <3>1, <3>2, <3>4
    <3> QED
      BY <3>2, <3>3, <3>4
  <2> QED
    BY <2>3, <2>4
<1>2. S \in G
  <2> HIDE DEF G
  <2> QED
    BY <1>1, FiniteInduction
<1> QED
  BY <1>2

\* A finite set of numbers has a least one.
LEMMA FiniteLeast ==
  ASSUME NEW S \in SUBSET Int, IsFiniteSet(S), S # {}
  PROVE  \E m \in S : \A x \in S : m <= x
<1> DEFINE G == {X \in SUBSET S : X # {} => \E m \in X : \A x \in X : m <= x}
<1>1. ASSUME NEW X \in SUBSET S, \A x \in X : X \ {x} \in G
      PROVE  X \in G
  <2>1. SUFFICES ASSUME X # {} PROVE \E m \in X : \A x \in X : m <= x
    OBVIOUS
  <2>2. PICK y \in X : TRUE
    BY <2>1
  <2>3. CASE X \ {y} = {}
    <3>1. \A x \in X : x = y /\ x \in Int
      BY <2>3
    <3> QED
      BY <2>2, <3>1
  <2>4. CASE X \ {y} # {}
    <3>1. PICK m \in X \ {y} : \A x \in X \ {y} : m <= x
      BY <1>1, <2>2, <2>4
    <3>2. m \in Int /\ y \in Int /\ X \subseteq Int
      BY <2>2, <3>1
    <3>3. CASE m <= y
      BY <2>2, <3>1, <3>3
    <3>4. CASE y <= m
      BY <2>2, <3>1, <3>2, <3>4
    <3> QED
      BY <3>2, <3>3, <3>4
  <2> QED
    BY <2>3, <2>4
<1>2. S \in G
  <2> HIDE DEF G
  <2> QED
    BY <1>1, FiniteInduction
<1> QED
  BY <1>2

---------------------------------------------------------------------------
(* FlattenSeq.                                                             *)

\* The first k of some lists joined, for every k.
Joins(f, n, lists) == f = [i \in 1..n |-> IF i = 1 THEN lists[i] ELSE f[i - 1] \o lists[i]]

LEMMA JoinsExist ==
  ASSUME NEW n \in Nat, NEW lists
  PROVE  \E f : Joins(f, n, lists)
<1> DEFINE G == {k \in Nat : \E f : Joins(f, k, lists)}
<1>1. 0 \in G
  <2>1. Joins([i \in 1..0 |-> 0], 0, lists)
    BY DEF Joins
  <2> QED
    BY <2>1
<1>2. ASSUME NEW k \in Nat, k \in G PROVE k + 1 \in G
  <2>1. PICK f : Joins(f, k, lists)
    BY <1>2
  <2>2. PICK g : g = [i \in 1..(k + 1) |-> IF i = 1 THEN lists[i] ELSE f[i - 1] \o lists[i]]
    OBVIOUS
  <2>3. ASSUME NEW i \in 1..k PROVE g[i] = f[i]
    <3>1. i \in 1..(k + 1)
      OBVIOUS
    <3>2. g[i] = IF i = 1 THEN lists[i] ELSE f[i - 1] \o lists[i]
      BY <2>2, <3>1
    <3>3. f[i] = IF i = 1 THEN lists[i] ELSE f[i - 1] \o lists[i]
      BY <2>1 DEF Joins
    <3> QED
      BY <3>2, <3>3
  <2>4. \A i \in 1..(k + 1) : i # 1 => i - 1 \in 1..k
    OBVIOUS
  <2>5. Joins(g, k + 1, lists)
    BY <2>2, <2>3, <2>4 DEF Joins
  <2> QED
    BY <2>5
<1>3. n \in G
  <2> HIDE DEF G
  <2> QED
    BY <1>1, <1>2, CountedInduction
<1> QED
  BY <1>3

LEMMA FlattenJoins ==
  ASSUME NEW S, NEW lists \in Seq(Seq(S)), lists # <<>>
  PROVE  \E f : Joins(f, Len(lists), lists) /\ FlattenSeq(lists) = f[Len(lists)]
<1>1. Len(lists) \in Nat \ {0}
  OBVIOUS
<1>2. \E f : Joins(f, Len(lists), lists)
  BY <1>1, JoinsExist
<1>3. PICK f : f = CHOOSE g : Joins(g, Len(lists), lists)
  OBVIOUS
<1>4. Joins(f, Len(lists), lists)
  BY <1>2, <1>3
<1>5. FlattenSeq(lists) = f[Len(lists)]
  BY <1>1, <1>3 DEF FlattenSeq, Joins
<1> QED
  BY <1>4, <1>5

\* What is in a list of optional things joined: `at' says which of them each
\* entry is.
Picked(flat, lists, k, at) ==
  /\ at \in [1..Len(flat) -> 1..k]
  /\ \A p \in 1..Len(flat) : lists[at[p]] = <<flat[p]>>
  /\ \A p, q \in 1..Len(flat) : p < q => at[p] < at[q]
  /\ \A i \in 1..k : lists[i] # <<>> => \E p \in 1..Len(flat) : at[p] = i

LEMMA JoinsStep ==
  ASSUME NEW n \in Nat, NEW lists, NEW f, Joins(f, n, lists), NEW k \in Nat, k + 1 \in 1..n
  PROVE  f[k + 1] = IF k = 0 THEN lists[k + 1] ELSE f[k] \o lists[k + 1]
<1>1. ASSUME NEW i \in 1..n PROVE f[i] = IF i = 1 THEN lists[i] ELSE f[i - 1] \o lists[i]
  BY DEF Joins
<1>2. f[k + 1] = IF k + 1 = 1 THEN lists[k + 1] ELSE f[k + 1 - 1] \o lists[k + 1]
  BY <1>1
<1>3. k + 1 - 1 = k /\ (k + 1 = 1 <=> k = 0)
  OBVIOUS
<1> QED
  BY <1>2, <1>3

LEMMA JoinedAreSequences ==
  ASSUME NEW S, NEW lists \in Seq(Seq(S)), NEW f, Joins(f, Len(lists), lists)
  PROVE  \A k \in 1..Len(lists) : f[k] \in Seq(S)
<1> DEFINE G == {k \in Nat : k \in 1..Len(lists) => f[k] \in Seq(S)}
<1>1. ASSUME NEW k \in Nat, k \in G PROVE k + 1 \in G
  <2>1. SUFFICES ASSUME k + 1 \in 1..Len(lists) PROVE f[k + 1] \in Seq(S)
    OBVIOUS
  <2>2. f[k + 1] = IF k = 0 THEN lists[k + 1] ELSE f[k] \o lists[k + 1]
    BY <2>1, JoinsStep
  <2>3. lists[k + 1] \in Seq(S)
    BY <2>1
  <2>4. CASE k = 0
    BY <2>2, <2>3, <2>4
  <2>5. CASE k # 0
    <3>1. f[k] \in Seq(S)
      BY <1>1, <2>1, <2>5
    <3>2. f[k + 1] = f[k] \o lists[k + 1]
      BY <2>2, <2>5
    <3> QED
      BY <2>3, <3>1, <3>2
  <2> QED
    BY <2>4, <2>5
<1>2. 0 \in G
  OBVIOUS
<1>3. ASSUME NEW k \in 1..Len(lists) PROVE k \in G
  <2> HIDE DEF G
  <2> QED
    BY <1>1, <1>2, CountedInduction
<1> QED
  BY <1>3

LEMMA FlattenIsASequence ==
  ASSUME NEW S, NEW lists \in Seq(Seq(S))
  PROVE  FlattenSeq(lists) \in Seq(S)
<1>1. CASE lists = <<>>
  BY <1>1 DEF FlattenSeq
<1>2. CASE lists # <<>>
  <2>1. PICK f : Joins(f, Len(lists), lists) /\ FlattenSeq(lists) = f[Len(lists)]
    BY <1>2, FlattenJoins
  <2>2. Len(lists) \in 1..Len(lists)
    BY <1>2
  <2> QED
    BY <2>1, <2>2, JoinedAreSequences
<1> QED
  BY <1>1, <1>2

\* One more option joined to those picked so far.
LEMMA PicksGrow ==
  ASSUME NEW S, NEW flat \in Seq(S), NEW option \in Seq(S), Len(option) <= 1,
         NEW k \in Nat, NEW lists, lists[k + 1] = option, NEW at, Picked(flat, lists, k, at)
  PROVE  \E more : Picked(flat \o option, lists, k + 1, more)
<1>1. CASE option = <<>>
  <2>1. flat \o option = flat
    BY <1>1
  <2>2. Picked(flat, lists, k + 1, at)
    BY <1>1 DEF Picked
  <2> QED
    BY <2>1, <2>2
<1>2. CASE option # <<>>
  <2>1. PICK x \in S : option = <<x>>
    <3>1. PICK l \in Nat \ {0} : Len(option) = l
      BY <1>2, EmptySeq
    <3>2. l <= 1
      BY <3>1
    <3>3. l = 1
      BY <3>2
    <3>4. Len(option) = 1
      BY <3>1, <3>3
    <3>5. option[1] \in S
      BY <3>4, ElementOfSeq
    <3>6. option = <<option[1]>>
      BY <3>4, <3>5
    <3> QED
      BY <3>5, <3>6
  <2>2. PICK all \in Seq(S) : all = flat \o option
    <3>1. flat \o option \in Seq(S)
      OBVIOUS
    <3> QED
      BY <3>1
  <2>3. Len(all) = Len(flat) + 1 /\ all[Len(flat) + 1] = x /\ \A p \in 1..Len(flat) : all[p] = flat[p]
    BY <2>1, <2>2
  <2>4. PICK more : more = [p \in 1..Len(all) |-> IF p <= Len(flat) THEN at[p] ELSE k + 1]
    OBVIOUS
  <2>5. /\ \A p \in 1..Len(flat) : p \in 1..Len(all) /\ more[p] = at[p] /\ at[p] \in 1..k
        /\ Len(flat) + 1 \in 1..Len(all) /\ more[Len(flat) + 1] = k + 1
        /\ \A p \in 1..Len(all) : p \in 1..Len(flat) \/ p = Len(flat) + 1
    <3>1. \A p \in 1..Len(all) : more[p] = IF p <= Len(flat) THEN at[p] ELSE k + 1
      BY <2>4
    <3>2. Len(flat) \in Nat /\ at \in [1..Len(flat) -> 1..k]
      BY DEF Picked
    <3>3. Len(flat) + 1 \in 1..Len(all) /\ \A p \in 1..Len(all) : p \in 1..Len(flat) \/ p = Len(flat) + 1
      BY <2>3, <3>2
    <3>4. more[Len(flat) + 1] = k + 1
      BY <3>1, <3>2, <3>3
    <3>5. ASSUME NEW p \in 1..Len(flat)
          PROVE  p \in 1..Len(all) /\ more[p] = at[p] /\ at[p] \in 1..k
      <4>1. p \in 1..Len(all) /\ p <= Len(flat)
        BY <2>3, <3>2
      <4>2. more[p] = at[p]
        BY <3>1, <4>1
      <4>3. at[p] \in 1..k
        BY <3>2
      <4> QED
        BY <4>1, <4>2, <4>3
    <3> QED
      BY <3>3, <3>4, <3>5
  <2>6. more \in [1..Len(all) -> 1..(k + 1)]
    <3>1. ASSUME NEW p \in 1..Len(all) PROVE (IF p <= Len(flat) THEN at[p] ELSE k + 1) \in 1..(k + 1)
      <4>1. CASE p \in 1..Len(flat)
        <5>1. at[p] \in 1..k /\ p <= Len(flat)
          BY <2>5, <4>1
        <5> QED
          BY <5>1
      <4>2. CASE p = Len(flat) + 1
        <5>1. ~(p <= Len(flat))
          BY <4>2
        <5> QED
          BY <5>1
      <4> QED
        BY <2>5, <4>1, <4>2
    <3> QED
      BY <2>4, <3>1
  <2>7. \A p \in 1..Len(all) : lists[more[p]] = <<all[p]>>
    BY <2>1, <2>3, <2>5 DEF Picked
  <2>8. \A p, q \in 1..Len(all) : p < q => more[p] < more[q]
    <3>1. SUFFICES ASSUME NEW p \in 1..Len(all), NEW q \in 1..Len(all), p < q PROVE more[p] < more[q]
      OBVIOUS
    <3>2. p \in 1..Len(flat)
      BY <3>1, <2>3
    <3>3. CASE q \in 1..Len(flat)
      BY <3>1, <3>2, <3>3, <2>5 DEF Picked
    <3>4. CASE q = Len(flat) + 1
      BY <3>2, <3>4, <2>5
    <3> QED
      BY <3>3, <3>4, <2>5
  <2>9. \A i \in 1..(k + 1) : lists[i] # <<>> => \E p \in 1..Len(all) : more[p] = i
    <3>1. ASSUME NEW i \in 1..k, lists[i] # <<>> PROVE \E p \in 1..Len(all) : more[p] = i
      BY <3>1, <2>5 DEF Picked
    <3> QED
      BY <3>1, <2>5
  <2>10. Picked(all, lists, k + 1, more)
    BY <2>6, <2>7, <2>8, <2>9 DEF Picked
  <2> QED
    BY <2>2, <2>10
<1> QED
  BY <1>1, <1>2

\* The options that are there, in their order.
LEMMA FlattenPicks ==
  ASSUME NEW S, NEW lists \in Seq(Seq(S)), \A i \in 1..Len(lists) : Len(lists[i]) <= 1
  PROVE  /\ FlattenSeq(lists) \in Seq(S)
         /\ \E at : Picked(FlattenSeq(lists), lists, Len(lists), at)
<1>0. FlattenSeq(lists) \in Seq(S)
  BY FlattenIsASequence
<1>1. CASE lists = <<>>
  <2>1. FlattenSeq(lists) = <<>>
    BY <1>1 DEF FlattenSeq
  <2>2. PICK at : at = [p \in 1..0 |-> 1]
    OBVIOUS
  <2>3. Picked(<<>>, lists, Len(lists), at)
    BY <1>1, <2>2 DEF Picked
  <2> QED
    BY <1>0, <2>1, <2>3
<1>2. CASE lists # <<>>
  <2>1. PICK f : Joins(f, Len(lists), lists) /\ FlattenSeq(lists) = f[Len(lists)]
    BY <1>2, FlattenJoins
  <2>2. \A k \in 1..Len(lists) : f[k] \in Seq(S)
    BY <2>1, JoinedAreSequences
  <2> DEFINE G == {k \in Nat : k \in 1..Len(lists) => \E at : Picked(f[k], lists, k, at)}
  <2>3. ASSUME NEW k \in Nat, k \in G PROVE k + 1 \in G
    <3>1. SUFFICES ASSUME k + 1 \in 1..Len(lists) PROVE \E at : Picked(f[k + 1], lists, k + 1, at)
      OBVIOUS
    <3>2. f[k + 1] = IF k = 0 THEN lists[k + 1] ELSE f[k] \o lists[k + 1]
      BY <2>1, <3>1, JoinsStep
    <3>3. lists[k + 1] \in Seq(S) /\ Len(lists[k + 1]) <= 1
      BY <3>1
    <3>4. CASE k = 0
      <4>1. PICK at : at = [p \in 1..0 |-> 1]
        OBVIOUS
      <4>2. Picked(<<>>, lists, k, at)
        BY <3>4, <4>1 DEF Picked
      <4>3. f[k + 1] = <<>> \o lists[k + 1]
        BY <3>2, <3>3, <3>4
      <4>4. \E more : Picked(<<>> \o lists[k + 1], lists, k + 1, more)
        <5>1. <<>> \in Seq(S)
          OBVIOUS
        <5> QED
          BY <3>3, <4>2, <5>1, PicksGrow
      <4> QED
        BY <4>3, <4>4
    <3>5. CASE k # 0
      <4>1. k \in 1..Len(lists)
        BY <3>1, <3>5
      <4>2. PICK at : Picked(f[k], lists, k, at)
        BY <2>3, <4>1
      <4>3. f[k] \in Seq(S)
        BY <2>2, <4>1
      <4>4. f[k + 1] = f[k] \o lists[k + 1]
        BY <3>2, <3>5
      <4>5. \E more : Picked(f[k] \o lists[k + 1], lists, k + 1, more)
        BY <3>3, <4>2, <4>3, PicksGrow
      <4> QED
        BY <4>4, <4>5
    <3> QED
      BY <3>4, <3>5
  <2>4. 0 \in G
    OBVIOUS
  <2>5. Len(lists) \in G
    <3> HIDE DEF G
    <3> QED
      BY <2>3, <2>4, CountedInduction
  <2>6. Len(lists) \in 1..Len(lists)
    BY <1>2
  <2> QED
    BY <1>0, <2>1, <2>5, <2>6
<1> QED
  BY <1>1, <1>2

---------------------------------------------------------------------------
(* FoldLeft.                                                               *)

\* The greatest of the numbers up to k + 1 is k + 1, where it is.
LEMMA MaxIsLast ==
  ASSUME NEW k \in Nat, NEW s \in SUBSET (1..(k + 1)), k + 1 \in s
  PROVE  Max(s) = k + 1
<1>1. \A y \in s : k + 1 >= y
  OBVIOUS
<1>2. \A x \in s : (\A y \in s : x >= y) => x = k + 1
  <2>1. ASSUME NEW x \in s, \A y \in s : x >= y PROVE x = k + 1
    <3>1. x \in 1..(k + 1) /\ x >= k + 1
      BY <2>1
    <3> QED
      BY <3>1
  <2> QED
    BY <2>1
<1> QED
  BY <1>1, <1>2 DEF Max

\* A set of the numbers up to n that is not empty has a greatest member.
LEMMA GreatestIsIn ==
  ASSUME NEW n \in Nat
  PROVE  \A s \in SUBSET (1..n) : s # {} => Max(s) \in s
<1> DEFINE G == {k \in Nat : \A s \in SUBSET (1..k) : s # {} => Max(s) \in s}
<1>1. 0 \in G
  <2>1. \A s \in SUBSET (1..0) : s = {}
    OBVIOUS
  <2> QED
    BY <2>1
<1>2. ASSUME NEW k \in Nat, k \in G PROVE k + 1 \in G
  <2>1. ASSUME NEW s \in SUBSET (1..(k + 1)), s # {} PROVE Max(s) \in s
    <3>1. CASE k + 1 \in s
      BY <3>1, MaxIsLast
    <3>2. CASE k + 1 \notin s
      <4>1. s \in SUBSET (1..k)
        BY <3>2
      <4> QED
        BY <1>2, <2>1, <4>1
    <3> QED
      BY <3>1, <3>2
  <2> QED
    BY <2>1
<1>3. n \in G
  <2> HIDE DEF G
  <2> QED
    BY <1>1, <1>2, CountedInduction
<1> QED
  BY <1>3

\* What FoldLeft is computed by, with a function for the operator.
FoldsWith(g, n, step, base) ==
  g = [s \in SUBSET (1..n) |-> IF s = {} THEN base ELSE step[Max(s)][g[s \ {Max(s)}]]]

LEMMA FoldExists ==
  ASSUME NEW R, NEW n \in Nat, NEW base \in R, NEW step \in [1..n -> [R -> R]]
  PROVE  \E g \in [SUBSET (1..n) -> R] : FoldsWith(g, n, step, base)
<1> DEFINE G == {k \in Nat : k <= n => \E g \in [SUBSET (1..k) -> R] : FoldsWith(g, k, step, base)}
<1>1. 0 \in G
  <2>1. PICK g : g = [s \in SUBSET (1..0) |-> base]
    OBVIOUS
  <2>2. SUBSET (1..0) = {{}}
    OBVIOUS
  <2>3. g \in [SUBSET (1..0) -> R]
    BY <2>1
  <2>4. g = [s \in SUBSET (1..0) |-> IF s = {} THEN base ELSE step[Max(s)][g[s \ {Max(s)}]]]
    BY <2>1, <2>2
  <2> QED
    BY <2>3, <2>4 DEF FoldsWith
<1>2. ASSUME NEW k \in Nat, k < n, k \in G PROVE k + 1 \in G
  <2>0. k <= n
    BY <1>2
  <2>1. PICK g \in [SUBSET (1..k) -> R] : FoldsWith(g, k, step, base)
    BY <1>2, <2>0, Zenon
  <2>2. PICK h : h = [s \in SUBSET (1..(k + 1)) |-> IF k + 1 \in s THEN step[k + 1][g[s \ {k + 1}]] ELSE g[s]]
    OBVIOUS
  <2>3. \A s \in SUBSET (1..(k + 1)) :
          /\ s \ {k + 1} \in SUBSET (1..k)
          /\ k + 1 \notin s => s \in SUBSET (1..k)
          /\ s \in SUBSET (1..k) => k + 1 \notin s
    OBVIOUS
  <2>4. \A s \in SUBSET (1..k) : s \in SUBSET (1..(k + 1)) /\ h[s] = g[s]
    BY <2>2, <2>3
  <2>5. k + 1 \in 1..n
    BY <1>2
  <2>6. h \in [SUBSET (1..(k + 1)) -> R]
    <3>1. ASSUME NEW s \in SUBSET (1..(k + 1))
          PROVE  (IF k + 1 \in s THEN step[k + 1][g[s \ {k + 1}]] ELSE g[s]) \in R
      <4>1. \A r \in R : step[k + 1][r] \in R
        BY <2>5
      <4> QED
        BY <2>3, <4>1
    <3> QED
      BY <2>2, <3>1
  <2>7. ASSUME NEW s \in SUBSET (1..(k + 1))
        PROVE  h[s] = IF s = {} THEN base ELSE step[Max(s)][h[s \ {Max(s)}]]
    <3>1. CASE k + 1 \in s
      <4>1. Max(s) = k + 1 /\ s # {}
        BY <3>1, MaxIsLast
      <4>2. h[s \ {k + 1}] = g[s \ {k + 1}]
        BY <2>3, <2>4
      <4>3. h[s] = step[k + 1][g[s \ {k + 1}]]
        BY <2>2, <3>1
      <4> QED
        BY <4>1, <4>2, <4>3
    <3>2. CASE k + 1 \notin s
      <4>1. s \in SUBSET (1..k)
        BY <2>3, <3>2
      <4>2. g[s] = IF s = {} THEN base ELSE step[Max(s)][g[s \ {Max(s)}]]
        BY <2>1, <4>1 DEF FoldsWith
      <4>3. h[s] = g[s] /\ h[s \ {Max(s)}] = g[s \ {Max(s)}]
        BY <2>4, <4>1
      <4> QED
        BY <4>2, <4>3
    <3> QED
      BY <3>1, <3>2
  <2>8. h = [s \in SUBSET (1..(k + 1)) |-> h[s]]
    BY <2>2
  <2>9. FoldsWith(h, k + 1, step, base)
    BY <2>7, <2>8 DEF FoldsWith
  <2> QED
    BY <2>6, <2>9
<1>3. n \in G
  <2> HIDE DEF G
  <2> QED
    BY <1>1, <1>2, CountedInduction
<1>4. n <= n
  OBVIOUS
<1> QED
  BY <1>3, <1>4, Zenon

---------------------------------------------------------------------------
(* Windows.                                                                *)

\* A part of an identifier: a name, or a number as it is written.
Part == STRING \cup {ToString(n) : n \in Int}

ShownWindow ==
  {w \in [id : Seq(Part), used : Percent, left : Percent, resetsAt : Optional(Instant), minutes : Optional(Nat)] :
     ValidWindow(w)}

\* No window, or one that has that id.
Shows(list, id) == list = <<>> \/ \E w \in ShownWindow : w.id = id /\ list = <<w>>

\* The lists of windows that differ in their ids, and of those the ones
\* without the workspace limit.
Distinct == {windows \in Seq(ShownWindow) : UniqueWindowIds(windows)}
WithoutWorkspace == {windows \in Seq(ShownWindow) : \A i \in DOMAIN windows : windows[i].id # <<"workspace-limit">>}

LEMMA Clamped ==
  ASSUME NEW percent \in Int
  PROVE  Clamp(percent) \in Percent /\ 100 - Clamp(percent) \in Percent
BY DEF Clamp, Percent

LEMMA DateIsOptional ==
  ASSUME NEW raw \in RawDate
  PROVE  Date(raw) \in Optional(Nat)
BY DEF Date, RawDate, Optional

LEMMA PositiveIsOptional ==
  ASSUME NEW seconds \in Optional(Int)
  PROVE  PositiveInstant(seconds) \in Optional(Nat)
BY DEF PositiveInstant, Optional

\* UsageWindow::try_new(), of what was clamped.
LEMMA WindowIsShown ==
  ASSUME NEW id \in Seq(Part), NEW used \in Int, NEW resetsAt \in Optional(Nat), NEW minutes \in Optional(Nat)
  PROVE  Shows(WindowOf(id, used, resetsAt, minutes), id)
<1>1. PICK u \in Percent : u = Clamp(used) /\ 100 - u \in Percent
  BY Clamped
<1>2. PICK window : window = [id |-> id, used |-> u, left |-> 100 - u, resetsAt |-> resetsAt, minutes |-> minutes]
  OBVIOUS
<1>3. window.id = id
  BY <1>2
<1>4. window \in [id : Seq(Part), used : Percent, left : Percent, resetsAt : Optional(Instant), minutes : Optional(Nat)]
  BY <1>1, <1>2 DEF Instant
<1>5. WindowOf(id, used, resetsAt, minutes) = IF ValidWindow(window) THEN <<window>> ELSE <<>>
  BY <1>1, <1>2 DEF WindowOf, TryWindow
<1> QED
  BY <1>3, <1>4, <1>5 DEF Shows, ShownWindow

LEMMA ShowsIsAList ==
  ASSUME NEW id, NEW list, Shows(list, id)
  PROVE  list \in Seq(ShownWindow) /\ Len(list) <= 1
<1>1. CASE list = <<>>
  BY <1>1
<1>2. ASSUME NEW w \in ShownWindow, list = <<w>> PROVE list \in Seq(ShownWindow) /\ Len(list) <= 1
  BY <1>2
<1> QED
  BY <1>1, <1>2 DEF Shows

\* What one more window makes of a list.
LEMMA OneMore ==
  ASSUME NEW windows \in Seq(ShownWindow), NEW w \in ShownWindow
  PROVE  /\ windows \o <<w>> \in Seq(ShownWindow)
         /\ DOMAIN (windows \o <<w>>) = DOMAIN windows \cup {Len(windows) + 1}
         /\ Len(windows) + 1 \notin DOMAIN windows
         /\ (windows \o <<w>>)[Len(windows) + 1] = w
         /\ \A i \in DOMAIN windows : (windows \o <<w>>)[i] = windows[i]
<1>1. windows \o <<w>> \in Seq(ShownWindow)
  OBVIOUS
<1>2. Len(windows) \in Nat /\ DOMAIN windows = 1..Len(windows) /\ Len(windows \o <<w>>) = Len(windows) + 1
  OBVIOUS
<1>3. DOMAIN (windows \o <<w>>) = 1..(Len(windows) + 1)
  BY <1>1, <1>2
<1>4. \A i \in 1..Len(windows) : (windows \o <<w>>)[i] = windows[i]
  OBVIOUS
<1>5. (windows \o <<w>>)[Len(windows) + 1] = w
  OBVIOUS
<1> QED
  BY <1>1, <1>2, <1>3, <1>4, <1>5

\* A window that differs from the others in its id keeps a list distinct.
LEMMA StaysDistinct ==
  ASSUME NEW windows \in Distinct, NEW w \in ShownWindow, \A i \in DOMAIN windows : windows[i].id # w.id
  PROVE  windows \o <<w>> \in Distinct
<1>1. PICK more : more = windows \o <<w>>
  OBVIOUS
<1>2. PICK last : last = Len(windows) + 1
  OBVIOUS
<1>3. /\ more \in Seq(ShownWindow) /\ DOMAIN more = DOMAIN windows \cup {last} /\ last \notin DOMAIN windows
      /\ more[last] = w /\ \A i \in DOMAIN windows : more[i] = windows[i]
  BY <1>1, <1>2, OneMore DEF Distinct
<1>4. \A i, j \in DOMAIN windows : windows[i].id = windows[j].id => i = j
  BY DEF Distinct, UniqueWindowIds
<1>5. UniqueWindowIds(more)
  BY <1>3, <1>4, Zenon DEF UniqueWindowIds
<1> QED
  BY <1>1, <1>3, <1>5 DEF Distinct

\* push_window_unique()
LEMMA PushedStaysDistinct ==
  ASSUME NEW windows \in Distinct, NEW list, NEW id, Shows(list, id)
  PROVE  PushUnique(windows, list) \in Distinct
<1>1. CASE list = <<>>
  <2>1. windows \o <<>> = windows
    BY DEF Distinct
  <2>2. PushUnique(windows, list) = windows
    BY <1>1, <2>1 DEF PushUnique
  <2> QED
    BY <2>2
<1>2. ASSUME NEW w \in ShownWindow, list = <<w>> PROVE PushUnique(windows, list) \in Distinct
  <2>1. list # <<>> /\ list[1] = w
    BY <1>2
  <2>2. CASE \E i \in DOMAIN windows : windows[i].id = w.id
    BY <2>1, <2>2 DEF PushUnique
  <2>3. CASE \A i \in DOMAIN windows : windows[i].id # w.id
    <3>1. PushUnique(windows, list) = windows \o <<w>>
      BY <1>2, <2>1, <2>3 DEF PushUnique
    <3> QED
      BY <2>3, <3>1, StaysDistinct
  <2> QED
    BY <2>2, <2>3
<1> QED
  BY <1>1, <1>2 DEF Shows

\* The same, of any list, and of one without the workspace limit.
LEMMA PushedIsAList ==
  ASSUME NEW windows \in Seq(ShownWindow), NEW list, NEW id, Shows(list, id)
  PROVE  PushUnique(windows, list) \in Seq(ShownWindow)
<1>1. list \in Seq(ShownWindow)
  BY ShowsIsAList
<1>2. windows \o list \in Seq(ShownWindow)
  BY <1>1
<1> QED
  BY <1>2 DEF PushUnique

LEMMA PushedStaysWithout ==
  ASSUME NEW windows \in WithoutWorkspace, NEW list, NEW id, Shows(list, id), id # <<"workspace-limit">>
  PROVE  PushUnique(windows, list) \in WithoutWorkspace
<1>1. CASE list = <<>>
  <2>1. windows \o <<>> = windows
    BY DEF WithoutWorkspace
  <2>2. PushUnique(windows, list) = windows
    BY <1>1, <2>1 DEF PushUnique
  <2> QED
    BY <2>2
<1>2. ASSUME NEW w \in ShownWindow, w.id = id, list = <<w>> PROVE PushUnique(windows, list) \in WithoutWorkspace
  <2>1. windows \in Seq(ShownWindow)
    BY DEF WithoutWorkspace
  <2>2. windows \o <<w>> \in WithoutWorkspace
    <3>1. PICK more : more = windows \o <<w>>
      OBVIOUS
    <3>2. PICK last : last = Len(windows) + 1
      OBVIOUS
    <3>3. /\ more \in Seq(ShownWindow) /\ DOMAIN more = DOMAIN windows \cup {last}
          /\ more[last] = w /\ \A i \in DOMAIN windows : more[i] = windows[i]
      BY <2>1, <3>1, <3>2, OneMore
    <3>4. \A i \in DOMAIN more : more[i].id # <<"workspace-limit">>
      BY <1>2, <3>3, Zenon DEF WithoutWorkspace
    <3> QED
      BY <3>1, <3>3, <3>4 DEF WithoutWorkspace
  <2> QED
    BY <1>2, <2>2 DEF PushUnique
<1> QED
  BY <1>1, <1>2 DEF Shows

LEMMA AppendedStaysDistinct ==
  ASSUME NEW windows \in Distinct \cap WithoutWorkspace, NEW list, Shows(list, <<"workspace-limit">>)
  PROVE  windows \o list \in Distinct
<1>1. CASE list = <<>>
  <2>1. windows \o <<>> = windows
    BY DEF Distinct
  <2> QED
    BY <1>1, <2>1
<1>2. ASSUME NEW w \in ShownWindow, w.id = <<"workspace-limit">>, list = <<w>> PROVE windows \o list \in Distinct
  <2>1. \A i \in DOMAIN windows : windows[i].id # w.id
    BY <1>2 DEF WithoutWorkspace
  <2> QED
    BY <1>2, <2>1, StaysDistinct
<1> QED
  BY <1>1, <1>2 DEF Shows

LEMMA EmptyIsDistinct == <<>> \in Distinct /\ <<>> \in WithoutWorkspace
BY DEF Distinct, WithoutWorkspace, UniqueWindowIds

\* The identifiers.
LEMMA WordsAreIds ==
  /\ \A a \in Part : <<a>> \in Seq(Part)
  /\ \A a, b \in Part : <<a, b>> \in Seq(Part)
  /\ \A a, b, c \in Part : <<a, b, c>> \in Seq(Part)
OBVIOUS

LEMMA WordsAreLists ==
  ASSUME NEW S
  PROVE  (\A a \in S : <<a>> \in Seq(S)) /\ \A a, b \in S : <<a, b>> \in Seq(S)
OBVIOUS

LEMMA WordsAreParts == /\ \A word \in STRING : word \in Part
                       /\ \A n \in Int : ToString(n) \in Part
BY DEF Part

LEMMA NameIsSanitized ==
  ASSUME NEW name \in Name, NEW default \in STRING
  PROVE  Sanitized(name, default) \in STRING
BY DEF Name, Sanitized

LEMMA WindowIdIsShown ==
  ASSUME NEW minutes \in Optional(Int), NEW ordinal \in {1, 2}
  PROVE  CodexWindowId(minutes, ordinal) \in Seq(Part) /\ CodexWindowId(minutes, ordinal) # <<"workspace-limit">>
<1>1. <<"weekly">> \in Seq(Part) /\ <<"session">> \in Seq(Part)
  <2>1. "weekly" \in Part /\ "session" \in Part
    BY WordAssumption DEF Part
  <2> QED
    BY <2>1, WordsAreIds
<1>2. ASSUME minutes \in Int
      PROVE  <<"other", ToString(minutes), ToString(ordinal)>> \in Seq(Part)
             /\ <<"other", ToString(minutes), ToString(ordinal)>> # <<"workspace-limit">>
  <2>1. PICK a \in Part, b \in Part : a = ToString(minutes) /\ b = ToString(ordinal)
    BY <1>2, WordsAreParts
  <2>2. "other" \in Part
    BY WordAssumption DEF Part
  <2>3. <<"other", a, b>> \in Seq(Part)
    BY <2>2, WordsAreIds
  <2>4. Len(<<"other", a, b>>) # Len(<<"workspace-limit">>)
    OBVIOUS
  <2> QED
    BY <2>1, <2>3, <2>4
<1>3. <<"weekly">> # <<"workspace-limit">> /\ <<"session">> # <<"workspace-limit">>
  OBVIOUS
<1>4. minutes \notin {NULL, WEEK_MINUTES, SESSION_MINUTES} => minutes \in Int
  BY DEF Optional
<1>5. \/ CodexWindowId(minutes, ordinal) \in {<<"weekly">>, <<"session">>}
      \/ minutes \notin {NULL, WEEK_MINUTES, SESSION_MINUTES}
         /\ CodexWindowId(minutes, ordinal) = <<"other", ToString(minutes), ToString(ordinal)>>
  BY Zenon DEF CodexWindowId
<1> QED
  BY <1>1, <1>2, <1>3, <1>4, <1>5

---------------------------------------------------------------------------
(* Codex.                                                                  *)

LEMMA CodexWindowIsShown ==
  ASSUME NEW id \in Seq(Part), NEW raw \in CodexWindowRaw
  PROVE  Shows(CodexWindow(id, raw), id)
<1>1. raw.used \in Int /\ raw.minutes \in Optional(Int) /\ raw.resetsAt \in Optional(Int)
  BY DEF CodexWindowRaw
<1> QED
  BY <1>1, PositiveIsOptional, WindowIsShown DEF CodexWindow

LEMMA CodexSlotIsShown ==
  ASSUME NEW id \in Seq(Part), NEW raw \in Optional(CodexWindowRaw)
  PROVE  Shows(CodexSlot(id, raw), id)
<1>1. CASE raw = NULL
  BY <1>1 DEF CodexSlot, Shows
<1>2. CASE raw # NULL
  BY <1>2, CodexWindowIsShown DEF CodexSlot, Optional
<1> QED
  BY <1>1, <1>2

\* Codex's lists: windows without the workspace limit, which differ in their
\* ids if the main ones do.
CodexLists(doc) ==
  {windows \in WithoutWorkspace : UniqueWindowIds(CodexMainWindows(doc)) => windows \in Distinct}

LEMMA MainWindowsAreListed ==
  ASSUME NEW doc \in CodexRateLimitsDoc
  PROVE  CodexMainWindows(doc) \in CodexLists(doc)
<1> DEFINE slot(raw, ordinal) == IF raw = NULL THEN <<>> ELSE CodexWindow(CodexWindowId(raw.minutes, ordinal), raw)
<1>1. doc.primary \in Optional(CodexWindowRaw) /\ doc.secondary \in Optional(CodexWindowRaw)
  BY DEF CodexRateLimitsDoc
<1>2. ASSUME NEW raw \in Optional(CodexWindowRaw), NEW ordinal \in {1, 2}
      PROVE  slot(raw, ordinal) = <<>> \/ \E w \in ShownWindow : w.id # <<"workspace-limit">> /\ slot(raw, ordinal) = <<w>>
  <2>1. CASE raw = NULL
    BY <2>1
  <2>2. CASE raw # NULL
    <3>1. raw \in CodexWindowRaw /\ raw.minutes \in Optional(Int)
      BY <2>2 DEF Optional, CodexWindowRaw
    <3>2. PICK id \in Seq(Part) : id = CodexWindowId(raw.minutes, ordinal) /\ id # <<"workspace-limit">>
      BY <3>1, WindowIdIsShown
    <3>3. Shows(CodexWindow(id, raw), id)
      BY <3>1, CodexWindowIsShown
    <3> QED
      BY <2>2, <3>2, <3>3 DEF Shows
  <2> QED
    BY <2>1, <2>2
<1>3. PICK first : first = slot(doc.primary, 1)
  OBVIOUS
<1>4. PICK second : second = slot(doc.secondary, 2)
  OBVIOUS
<1>5. /\ first = <<>> \/ \E w \in ShownWindow : w.id # <<"workspace-limit">> /\ first = <<w>>
      /\ second = <<>> \/ \E w \in ShownWindow : w.id # <<"workspace-limit">> /\ second = <<w>>
  <2> HIDE DEF slot
  <2> QED
    BY <1>1, <1>2, <1>3, <1>4
<1>6. CodexMainWindows(doc) = first \o second
  BY <1>3, <1>4 DEF CodexMainWindows
<1>7. first \in WithoutWorkspace
  <2>1. ASSUME NEW w \in ShownWindow, w.id # <<"workspace-limit">> PROVE <<w>> \in WithoutWorkspace
    <3>1. <<w>> \in Seq(ShownWindow) /\ DOMAIN <<w>> = {1} /\ <<w>>[1] = w
      OBVIOUS
    <3> QED
      BY <2>1, <3>1 DEF WithoutWorkspace
  <2> QED
    BY <1>5, <2>1, EmptyIsDistinct
<1>8. first \o second \in WithoutWorkspace
  <2>1. CASE second = <<>>
    <3>1. first \o <<>> = first
      BY <1>7 DEF WithoutWorkspace
    <3> QED
      BY <1>7, <2>1, <3>1
  <2>2. ASSUME NEW w \in ShownWindow, w.id # <<"workspace-limit">>, second = <<w>>
        PROVE  first \o second \in WithoutWorkspace
    <3>1. PICK more : more = first \o <<w>>
      OBVIOUS
    <3>2. PICK last : last = Len(first) + 1
      OBVIOUS
    <3>3. /\ more \in Seq(ShownWindow) /\ DOMAIN more = DOMAIN first \cup {last}
          /\ more[last] = w /\ \A i \in DOMAIN first : more[i] = first[i]
      BY <1>7, <3>1, <3>2, OneMore DEF WithoutWorkspace
    <3>4. \A i \in DOMAIN more : more[i].id # <<"workspace-limit">>
      BY <1>7, <2>2, <3>3, Zenon DEF WithoutWorkspace
    <3> QED
      BY <2>2, <3>1, <3>3, <3>4 DEF WithoutWorkspace
  <2> QED
    BY <1>5, <2>1, <2>2
<1> QED
  BY <1>6, <1>8 DEF CodexLists, Distinct, WithoutWorkspace

LEMMA BucketStaysListed ==
  ASSUME NEW doc, NEW windows \in CodexLists(doc), NEW bucket \in CodexExtraBucketRaw
  PROVE  CodexBucket(windows, bucket) \in CodexLists(doc)
<1>1. PICK name \in STRING : name = Sanitized(bucket.limitId, "bucket")
  <2>1. bucket.limitId \in Name /\ "bucket" \in STRING
    BY WordAssumption DEF CodexExtraBucketRaw
  <2> QED
    BY <2>1, NameIsSanitized
<1>2. "codex" \in Part /\ "2" \in Part /\ name \in Part
  BY WordAssumption DEF Part
<1>3. PICK id \in Seq(Part) : id = <<"codex", name>> /\ id # <<"workspace-limit">>
  <2>1. Len(<<"codex", name>>) # Len(<<"workspace-limit">>)
    OBVIOUS
  <2> QED
    BY <1>2, <2>1, WordsAreIds
<1>4. PICK second \in Seq(Part) : second = <<"codex", name, "2">> /\ second # <<"workspace-limit">>
  <2>1. Len(<<"codex", name, "2">>) # Len(<<"workspace-limit">>)
    OBVIOUS
  <2> QED
    BY <1>2, <2>1, WordsAreIds
<1>5. PICK a : a = CodexSlot(id, bucket.primary) /\ Shows(a, id)
  BY CodexSlotIsShown DEF CodexExtraBucketRaw
<1>6. PICK b : b = CodexSlot(second, bucket.secondary) /\ Shows(b, second)
  BY CodexSlotIsShown DEF CodexExtraBucketRaw
<1>7. CodexBucket(windows, bucket) = PushUnique(PushUnique(windows, a), b)
  BY <1>1, <1>3, <1>4, <1>5, <1>6 DEF CodexBucket
<1>8. PushUnique(windows, a) \in CodexLists(doc)
  BY <1>3, <1>5, PushedStaysWithout, PushedStaysDistinct DEF CodexLists
<1>9. PushUnique(PushUnique(windows, a), b) \in CodexLists(doc)
  BY <1>4, <1>6, <1>8, PushedStaysWithout, PushedStaysDistinct DEF CodexLists
<1> QED
  BY <1>7, <1>9

LEMMA BucketsStayListed ==
  ASSUME NEW doc \in CodexRateLimitsDoc
  PROVE  FoldLeft(CodexBucket, CodexMainWindows(doc), doc.extras) \in CodexLists(doc)
<1> DEFINE Fold(g) == g = [s \in SUBSET (DOMAIN doc.extras) |->
                             IF s = {} THEN CodexMainWindows(doc)
                             ELSE CodexBucket(g[s \ {Max(s)}], doc.extras[Max(s)])]
<1>1. PICK n \in Nat : DOMAIN doc.extras = 1..n /\ \A i \in 1..n : doc.extras[i] \in CodexExtraBucketRaw
  <2>1. doc.extras \in Seq(CodexExtraBucketRaw)
    BY DEF CodexRateLimitsDoc
  <2> QED
    BY <2>1
<1>2. PICK base \in CodexLists(doc) : base = CodexMainWindows(doc)
  BY MainWindowsAreListed
<1>3. PICK step : step = [i \in 1..n |-> [windows \in CodexLists(doc) |-> CodexBucket(windows, doc.extras[i])]]
  OBVIOUS
<1>4. step \in [1..n -> [CodexLists(doc) -> CodexLists(doc)]]
  BY <1>1, <1>3, BucketStaysListed
<1>5. PICK g \in [SUBSET (1..n) -> CodexLists(doc)] : FoldsWith(g, n, step, base)
  BY <1>4, FoldExists
<1>6. \A s \in SUBSET (1..n) : s # {} => Max(s) \in s
  BY GreatestIsIn
<1>7. ASSUME NEW s \in SUBSET (1..n)
      PROVE  g[s] = IF s = {} THEN CodexMainWindows(doc) ELSE CodexBucket(g[s \ {Max(s)}], doc.extras[Max(s)])
  <2>1. g[s] = IF s = {} THEN base ELSE step[Max(s)][g[s \ {Max(s)}]]
    BY <1>5 DEF FoldsWith
  <2>2. CASE s = {}
    BY <1>2, <2>1, <2>2
  <2>3. CASE s # {}
    <3>1. Max(s) \in 1..n /\ g[s \ {Max(s)}] \in CodexLists(doc)
      BY <1>6, <2>3
    <3>2. \A i \in 1..n, windows \in CodexLists(doc) : step[i][windows] = CodexBucket(windows, doc.extras[i])
      BY <1>3
    <3> QED
      BY <2>1, <2>3, <3>1, <3>2
  <2> QED
    BY <2>2, <2>3
<1>8. Fold(g)
  BY <1>1, <1>5, <1>7
<1>9. PICK h : h = CHOOSE f : Fold(f)
  OBVIOUS
<1>10. Fold(h)
  <2> HIDE DEF Fold
  <2> QED
    BY <1>8, <1>9
<1>11. FoldLeft(CodexBucket, CodexMainWindows(doc), doc.extras) = h[1..n]
  BY <1>1, <1>9 DEF FoldLeft, MapThenFoldSet
<1> DEFINE G == {k \in Nat : k <= n => h[1..k] \in CodexLists(doc)}
<1>12. 0 \in G
  <2>1. {} \in SUBSET (1..n) /\ 1..0 = {}
    OBVIOUS
  <2>2. h[{}] = CodexMainWindows(doc)
    BY <1>1, <1>10, <2>1
  <2> QED
    BY <2>1, <2>2, MainWindowsAreListed
<1>13. ASSUME NEW k \in Nat, k < n, k \in G PROVE k + 1 \in G
  <2>1. 1..(k + 1) \in SUBSET (1..n) /\ k + 1 \in 1..(k + 1) /\ k + 1 \in 1..n /\ k <= n
    BY <1>13
  <2>2. Max(1..(k + 1)) = k + 1
    BY <2>1, MaxIsLast
  <2>3. (1..(k + 1)) \ {k + 1} = 1..k
    OBVIOUS
  <2>4. h[1..(k + 1)] = CodexBucket(h[1..k], doc.extras[k + 1])
    BY <1>1, <1>10, <2>1, <2>2, <2>3
  <2>5. CodexBucket(h[1..k], doc.extras[k + 1]) \in CodexLists(doc)
    BY <1>1, <1>13, <2>1, BucketStaysListed
  <2> QED
    BY <2>4, <2>5
<1>14. n \in G
  <2> HIDE DEF G
  <2> QED
    BY <1>12, <1>13, CountedInduction
<1>15. n <= n
  OBVIOUS
<1>16. h[1..n] \in CodexLists(doc)
  BY <1>14, <1>15
<1> QED
  BY <1>11, <1>16
LEMMA WorkspaceLimitIsShown ==
  ASSUME NEW limit \in Optional(CodexIndividualLimitRaw)
  PROVE  Shows(CodexWorkspaceLimit(limit), <<"workspace-limit">>)
<1>1. CASE limit = NULL
  BY <1>1 DEF CodexWorkspaceLimit, Shows
<1>2. CASE limit # NULL
  <2>1. limit.left \in Int /\ limit.resetsAt \in Optional(Int)
    BY <1>2 DEF Optional, CodexIndividualLimitRaw
  <2>2. <<"workspace-limit">> \in Seq(Part)
    <3>1. "workspace-limit" \in Part
      BY WordAssumption DEF Part
    <3> QED
      BY <3>1, WordsAreIds
  <2>3. PICK left \in Int : left = 100 - Clamp(limit.left)
    BY <2>1, Clamped DEF Percent
  <2>4. NULL \in Optional(Nat)
    BY DEF Optional
  <2>5. CodexWorkspaceLimit(limit) =
          WindowOf(<<"workspace-limit">>, left, PositiveInstant(limit.resetsAt), NULL)
    BY <1>2, <2>3 DEF CodexWorkspaceLimit
  <2> QED
    BY <2>1, <2>2, <2>3, <2>4, <2>5, PositiveIsOptional, WindowIsShown
<1> QED
  BY <1>1, <1>2

---------------------------------------------------------------------------
(* Resets and readings.                                                    *)

Dates == [expires : Optional(Nat), refills : Optional(Nat), cooldown : Optional(Nat)]

LEMMA ResetIsTyped ==
  ASSUME NEW id \in Seq(STRING), NEW label, NEW available \in Nat, NEW total \in Optional(Nat),
         NEW clears \in Seq(STRING), NEW dates \in Dates, NEW claimable \in BOOLEAN
  PROVE  TryReset(id, label, available, total, clears, dates, claimable) \in Seq(UsageReset)
<1>1. PICK reset : reset = [id |-> id, available |-> available, total |-> total, clears |-> clears,
                            expiresAt |-> dates.expires, refillsAt |-> dates.refills,
                            cooldownUntil |-> dates.cooldown, claimable |-> claimable]
  OBVIOUS
<1>2. reset \in UsageReset
  BY <1>1 DEF UsageReset, Dates, Id, Instant
<1>3. TryReset(id, label, available, total, clears, dates, claimable) \in {<<reset>>, <<>>}
  BY <1>1 DEF TryReset
<1>4. <<reset>> \in Seq(UsageReset) /\ <<>> \in Seq(UsageReset)
  BY <1>2
<1> QED
  BY <1>3, <1>4

\* What an adapter read, with the windows and resets the document may show.
Reading(id) ==
  [kind : {"ready"}, id : {id}, plan : Optional(STRING), windows : Seq(ShownWindow), at : Nat, resets : Seq(UsageReset)]

LEMMA ReadyIsAReading ==
  ASSUME NEW id, NEW plan \in Optional(STRING), NEW windows \in Seq(ShownWindow), NEW at \in Nat,
         NEW resets \in Seq(UsageReset)
  PROVE  /\ ReadyResult(id, plan, windows, at, resets) \in Reading(id)
         /\ ReadyResult(id, plan, windows, at, resets).windows = windows
BY DEF ReadyResult, Reading

LEMMA CreditsAreTyped ==
  ASSUME NEW count \in Optional(Nat)
  PROVE  CodexCredits(count) \in Seq(UsageReset)
<1>1. CASE count \in {NULL, 0}
  BY <1>1 DEF CodexCredits
<1>2. CASE count \notin {NULL, 0}
  <2>1. count \in Nat /\ NULL \in Optional(Nat)
    BY <1>2 DEF Optional
  <2>2. <<"codex-credits">> \in Seq(STRING) /\ <<>> \in Seq(STRING)
    <3>1. "codex-credits" \in STRING
      BY WordAssumption
    <3> QED
      BY <3>1, WordsAreLists, EmptySeq
  <2>3. NoDates \in Dates
    BY DEF NoDates, Dates, Optional
  <2> QED
    BY <1>2, <2>1, <2>2, <2>3, ResetIsTyped DEF CodexCredits
<1> QED
  BY <1>1, <1>2

\* codex_from_rate_limits_json(): what it shows differs in its ids if the two
\* main windows do.
LEMMA CodexReads ==
  ASSUME NEW doc \in CodexRateLimitsDoc, doc # NULL, NEW at \in Nat
  PROVE  /\ CodexResult(doc, at) \in Reading("codex")
         /\ UniqueWindowIds(CodexMainWindows(doc)) => CodexResult(doc, at).windows \in Distinct
<1>1. PICK listed \in CodexLists(doc) : listed = FoldLeft(CodexBucket, CodexMainWindows(doc), doc.extras)
  BY BucketsStayListed
<1>2. PICK limit : limit = CodexWorkspaceLimit(doc.individual) /\ Shows(limit, <<"workspace-limit">>)
  BY WorkspaceLimitIsShown DEF CodexRateLimitsDoc
<1>3. listed \o limit \in Seq(ShownWindow)
  <2>1. listed \in Seq(ShownWindow)
    BY DEF CodexLists, WithoutWorkspace
  <2> QED
    BY <1>2, <2>1, ShowsIsAList
<1>4. UniqueWindowIds(CodexMainWindows(doc)) => listed \o limit \in Distinct
  BY <1>1, <1>2, AppendedStaysDistinct DEF CodexLists
<1>5. doc.plan \in Optional(STRING) /\ doc.credits \in Optional(Nat)
  BY DEF CodexRateLimitsDoc
<1>6. CodexResult(doc, at) = ReadyResult("codex", doc.plan, listed \o limit, at, CodexCredits(doc.credits))
  BY <1>1, <1>2 DEF CodexResult
<1>7. PICK shown \in Seq(ShownWindow) : shown = listed \o limit
  BY <1>3
<1>8. PICK plan \in Optional(STRING), resets \in Seq(UsageReset) : plan = doc.plan /\ resets = CodexCredits(doc.credits)
  BY <1>5, CreditsAreTyped
<1>9. CodexResult(doc, at) = ReadyResult("codex", plan, shown, at, resets)
  BY <1>6, <1>7, <1>8
<1>10. CodexResult(doc, at) \in Reading("codex") /\ CodexResult(doc, at).windows = shown
  BY <1>9, ReadyIsAReading
<1> QED
  BY <1>4, <1>7, <1>10

---------------------------------------------------------------------------
(* Grok.                                                                   *)

LEMMA GrokProductIsKnown ==
  ASSUME NEW doc \in GrokBillingDoc, GrokProductUsed(doc) # NULL
  PROVE  GrokProductUsed(doc) \in Int
<1>1. PICK known : known = {doc.product[i] : i \in DOMAIN doc.product} \ {NULL}
  OBVIOUS
<1>2. PICK n \in Nat : DOMAIN doc.product = 1..n /\ \A i \in 1..n : doc.product[i] \in Optional(Int)
  <2>1. doc.product \in Seq(Optional(Int))
    BY DEF GrokBillingDoc
  <2> QED
    BY <2>1
<1>3. known \in SUBSET Int
  BY <1>1, <1>2 DEF Optional
<1>4. IsFiniteSet(known)
  <2>1. IsFiniteSet({doc.product[i] : i \in 1..n})
    <3>1. IsFiniteSet(1..n)
      BY FS_Interval
    <3>2. PICK f : f = [i \in 1..n |-> doc.product[i]]
      OBVIOUS
    <3>3. f \in Surjection(1..n, {doc.product[i] : i \in 1..n})
      BY <3>2 DEF Surjection
    <3> QED
      BY <3>1, <3>3, FS_Surjection
  <2> QED
    BY <1>1, <1>2, <2>1, FS_Subset
<1>5. CASE known = {}
  BY <1>1, <1>5 DEF GrokProductUsed
<1>6. CASE known # {}
  <2>1. \E best \in known : \A used \in known : used <= best
    BY <1>3, <1>4, <1>6, FiniteGreatest
  <2>2. GrokProductUsed(doc) = CHOOSE best \in known : \A used \in known : used <= best
    BY <1>1, <1>6 DEF GrokProductUsed
  <2> QED
    BY <1>3, <2>1, <2>2
<1> QED
  BY <1>5, <1>6

LEMMA GrokReads ==
  ASSUME NEW doc \in GrokBillingDoc, doc # NULL, NEW at \in Nat
  PROVE  GrokResult(doc, at) \in Reading("grok") /\ GrokResult(doc, at).windows \in Distinct
<1> DEFINE type == doc.period.type
           metered == Or(doc.credit, GrokProductUsed(doc))
           window == IF metered # NULL
                     THEN WindowOf(GrokWindowId(type), metered, GrokResetsAt(doc), GrokWindowMinutes(type))
                     ELSE IF GrokMonthlyUsed(doc) # NULL
                     THEN WindowOf(<<"monthly">>, GrokMonthlyUsed(doc), GrokResetsAt(doc), NULL)
                     ELSE <<>>
<1>1. /\ doc.credit \in Optional(Int) /\ doc.limit \in Optional(Int) /\ doc.used \in Optional(Int)
      /\ doc.tier \in Optional(STRING) /\ type \in Optional(STRING)
      /\ doc.period.end \in RawDate /\ doc.billingEnd \in RawDate
  BY DEF GrokBillingDoc
<1>2. GrokResetsAt(doc) \in Optional(Nat)
  <2>1. Or(doc.period.end, doc.billingEnd) \in RawDate
    BY <1>1 DEF Or
  <2> QED
    BY <2>1, DateIsOptional DEF GrokResetsAt
<1>3. "weekly" \in Part /\ "monthly" \in Part /\ (type \notin {NULL, "foreign"} => type \in Part)
  BY <1>1, WordAssumption DEF Part, Optional
<1>4. GrokWindowId(type) \in Seq(Part) /\ <<"monthly">> \in Seq(Part)
  BY <1>3, WordsAreIds DEF GrokWindowId
<1>5. GrokWindowMinutes(type) \in Optional(Nat) /\ NULL \in Optional(Nat)
  BY DEF GrokWindowMinutes, Optional, WEEK_MINUTES
<1>6. metered # NULL => metered \in Int
  BY <1>1, GrokProductIsKnown DEF Or, Optional
<1>7. GrokMonthlyUsed(doc) # NULL => GrokMonthlyUsed(doc) \in Int
  BY <1>1 DEF GrokMonthlyUsed, Optional
<1>8. PICK id : Shows(window, id)
  <2>1. CASE metered # NULL
    BY <1>2, <1>4, <1>5, <1>6, <2>1, WindowIsShown
  <2>2. CASE metered = NULL /\ GrokMonthlyUsed(doc) # NULL
    BY <1>2, <1>4, <1>5, <1>7, <2>2, WindowIsShown
  <2>3. CASE metered = NULL /\ GrokMonthlyUsed(doc) = NULL
    BY <2>3 DEF Shows
  <2> QED
    BY <2>1, <2>2, <2>3
<1>9. PICK list : list = window /\ Shows(list, id)
  BY <1>8
<1>10. list \in Distinct
  <2>1. CASE list = <<>>
    BY <2>1, EmptyIsDistinct
  <2>2. ASSUME NEW w \in ShownWindow, list = <<w>> PROVE list \in Distinct
    <3>1. \A i \in DOMAIN list : i = 1
      BY <2>2
    <3> QED
      BY <1>9, <3>1, ShowsIsAList DEF Distinct, UniqueWindowIds
  <2> QED
    BY <1>9, <2>1, <2>2 DEF Shows
<1>11. GrokResult(doc, at) = ReadyResult("grok", doc.tier, list, at, <<>>)
  BY <1>9 DEF GrokResult
<1>12. PICK plan \in Optional(STRING), resets \in Seq(UsageReset) : plan = doc.tier /\ resets = <<>>
  BY <1>1, EmptySeq
<1>13. list \in Seq(ShownWindow)
  BY <1>9, ShowsIsAList
<1>14. GrokResult(doc, at) = ReadyResult("grok", plan, list, at, resets)
  BY <1>11, <1>12
<1>15. GrokResult(doc, at) \in Reading("grok") /\ GrokResult(doc, at).windows = list
  BY <1>13, <1>14, ReadyIsAReading
<1> QED
  BY <1>10, <1>15
---------------------------------------------------------------------------
(* Claude.                                                                 *)

LEMMA ClaudeWindowIsShown ==
  ASSUME NEW id \in Seq(Part), NEW raw \in Optional(ClaudeWindowRaw), NEW minutes \in Optional(Nat)
  PROVE  Shows(ClaudeWindow(id, raw, minutes), id)
<1>1. CASE raw = NULL
  BY <1>1 DEF ClaudeWindow, Shows
<1>2. CASE raw # NULL
  <2>1. raw.used \in Int /\ raw.resetsAt \in RawDate
    BY <1>2 DEF Optional, ClaudeWindowRaw
  <2>2. ClaudeWindow(id, raw, minutes) = WindowOf(id, raw.used, Date(raw.resetsAt), minutes)
    BY <1>2 DEF ClaudeWindow
  <2> QED
    BY <2>1, <2>2, DateIsOptional, WindowIsShown
<1> QED
  BY <1>1, <1>2

LEMMA ModelIdIsShown ==
  ASSUME NEW name \in Name, NEW ordinal \in Nat
  PROVE  WeeklyModelId(name, ordinal) \in Seq(Part)
<1>1. PICK model \in Part : model = Sanitized(name, "model")
  <2>1. "model" \in STRING
    BY WordAssumption
  <2> QED
    BY <2>1, NameIsSanitized, WordsAreParts
<1>2. "weekly-model" \in Part
  BY WordAssumption DEF Part
<1>3. PICK id \in Seq(Part) : id = <<"weekly-model", model>>
  BY <1>2, WordsAreIds
<1>4. PICK more \in Seq(Part) : more = IF ordinal <= 1 THEN <<>> ELSE <<ToString(ordinal)>>
  <2>1. ToString(ordinal) \in Part
    BY WordsAreParts
  <2>2. <<ToString(ordinal)>> \in Seq(Part) /\ <<>> \in Seq(Part)
    BY <2>1, WordsAreIds, EmptySeq
  <2> QED
    BY <2>2
<1>5. WeeklyModelId(name, ordinal) = id \o more
  BY <1>1, <1>3, <1>4 DEF WeeklyModelId
<1> QED
  BY <1>5

LEMMA MinutesAreOptional ==
  NULL \in Optional(Nat) /\ SESSION_MINUTES \in Optional(Nat) /\ WEEK_MINUTES \in Optional(Nat)
BY DEF Optional, SESSION_MINUTES, WEEK_MINUTES

ClaudeAccumulators == [windows : Distinct, scoped : Nat]

LEMMA LimitStaysDistinct ==
  ASSUME NEW acc \in ClaudeAccumulators, NEW limit \in ClaudeLimitRaw
  PROVE  ClaudeLimit(acc, limit) \in ClaudeAccumulators
<1> DEFINE raw == [used |-> limit.used, resetsAt |-> limit.resetsAt]
           model == Or(limit.model, <<"model", "">>)
           window == CASE limit.kind = "session" -> ClaudeWindow(<<"session">>, raw, SESSION_MINUTES)
                   [] limit.kind = "weekly_all" -> ClaudeWindow(<<"weekly">>, raw, WEEK_MINUTES)
                   [] OTHER -> ClaudeWindow(WeeklyModelId(model, acc.scoped), raw,
                                            IF limit.kind = "weekly_scoped" THEN WEEK_MINUTES ELSE NULL)
           kept == limit.used = NULL \/ limit.kind \in {"five_hour", "seven_day", "seven_day_oauth_apps"}
<1>1. acc.windows \in Distinct /\ acc.scoped \in Nat
  BY DEF ClaudeAccumulators
<1>2. CASE kept
  BY <1>2 DEF ClaudeLimit
<1>3. CASE ~kept
  <2>1. raw \in Optional(ClaudeWindowRaw)
    <3>1. limit.used \in Int /\ limit.resetsAt \in RawDate
      BY <1>3 DEF ClaudeLimitRaw, Optional
    <3> QED
      BY <3>1 DEF ClaudeWindowRaw, Optional
  <2>2. model \in Name
    <3>1. limit.model \in Optional(Name)
      BY DEF ClaudeLimitRaw
    <3>2. <<"model", "">> \in Name
      BY WordAssumption DEF Name
    <3> QED
      BY <3>1, <3>2 DEF Or, Optional
  <2>3. <<"session">> \in Seq(Part) /\ <<"weekly">> \in Seq(Part)
    <3>1. "session" \in Part /\ "weekly" \in Part
      BY WordAssumption DEF Part
    <3> QED
      BY <3>1, WordsAreIds
  <2>4. PICK id : Shows(window, id)
    <3>1. CASE limit.kind = "session"
      <4>1. window = ClaudeWindow(<<"session">>, raw, SESSION_MINUTES)
        BY <3>1
      <4> QED
        BY <2>1, <2>3, <4>1, ClaudeWindowIsShown, MinutesAreOptional
    <3>2. CASE limit.kind = "weekly_all"
      <4>1. window = ClaudeWindow(<<"weekly">>, raw, WEEK_MINUTES)
        BY <3>2
      <4> QED
        BY <2>1, <2>3, <4>1, ClaudeWindowIsShown, MinutesAreOptional
    <3>3. CASE limit.kind \notin {"session", "weekly_all"}
      <4>1. PICK minutes \in Optional(Nat) : minutes = IF limit.kind = "weekly_scoped" THEN WEEK_MINUTES ELSE NULL
        BY MinutesAreOptional
      <4>2. window = ClaudeWindow(WeeklyModelId(model, acc.scoped), raw, minutes)
        BY <3>3, <4>1
      <4>3. WeeklyModelId(model, acc.scoped) \in Seq(Part)
        BY <1>1, <2>2, ModelIdIsShown
      <4> QED
        BY <2>1, <4>2, <4>3, ClaudeWindowIsShown
    <3> QED
      BY <3>1, <3>2, <3>3
  <2>5. PICK list : list = window /\ Shows(list, id)
    BY <2>4
  <2>6. PICK scoped \in Nat :
          ClaudeLimit(acc, limit) = [windows |-> PushUnique(acc.windows, list), scoped |-> scoped]
    <3>1. acc.scoped + 1 \in Nat
      BY <1>1
    <3>2. ClaudeLimit(acc, limit) =
            [windows |-> PushUnique(acc.windows, list),
             scoped  |-> IF limit.kind \in {"session", "weekly_all"} THEN acc.scoped ELSE acc.scoped + 1]
      BY <1>3, <2>5 DEF ClaudeLimit
    <3> QED
      BY <1>1, <3>1, <3>2
  <2>7. PICK more \in Distinct : more = PushUnique(acc.windows, list)
    BY <1>1, <2>5, PushedStaysDistinct
  <2> QED
    BY <2>6, <2>7 DEF ClaudeAccumulators
<1> QED
  BY <1>2, <1>3
LEMMA LimitsStayDistinct ==
  ASSUME NEW limits \in Seq(ClaudeLimitRaw), NEW base \in ClaudeAccumulators
  PROVE  FoldLeft(ClaudeLimit, base, limits) \in ClaudeAccumulators
<1> DEFINE Fold(g) == g = [s \in SUBSET (DOMAIN limits) |->
                             IF s = {} THEN base ELSE ClaudeLimit(g[s \ {Max(s)}], limits[Max(s)])]
<1>1. PICK n \in Nat : DOMAIN limits = 1..n /\ \A i \in 1..n : limits[i] \in ClaudeLimitRaw
  OBVIOUS
<1>2. PICK step : step = [i \in 1..n |-> [acc \in ClaudeAccumulators |-> ClaudeLimit(acc, limits[i])]]
  OBVIOUS
<1>3. step \in [1..n -> [ClaudeAccumulators -> ClaudeAccumulators]]
  BY <1>1, <1>2, LimitStaysDistinct
<1>4. PICK g \in [SUBSET (1..n) -> ClaudeAccumulators] : FoldsWith(g, n, step, base)
  BY <1>3, FoldExists
<1>5. \A s \in SUBSET (1..n) : s # {} => Max(s) \in s
  BY GreatestIsIn
<1>6. ASSUME NEW s \in SUBSET (1..n)
      PROVE  g[s] = IF s = {} THEN base ELSE ClaudeLimit(g[s \ {Max(s)}], limits[Max(s)])
  <2>1. g[s] = IF s = {} THEN base ELSE step[Max(s)][g[s \ {Max(s)}]]
    BY <1>4 DEF FoldsWith
  <2>2. CASE s = {}
    BY <2>1, <2>2
  <2>3. CASE s # {}
    <3>1. Max(s) \in 1..n /\ g[s \ {Max(s)}] \in ClaudeAccumulators
      BY <1>5, <2>3
    <3>2. \A i \in 1..n, acc \in ClaudeAccumulators : step[i][acc] = ClaudeLimit(acc, limits[i])
      BY <1>2
    <3> QED
      BY <2>1, <2>3, <3>1, <3>2
  <2> QED
    BY <2>2, <2>3
<1>7. Fold(g)
  BY <1>1, <1>4, <1>6
<1>8. PICK h : h = CHOOSE f : Fold(f)
  OBVIOUS
<1>9. Fold(h)
  <2> HIDE DEF Fold
  <2> QED
    BY <1>7, <1>8
<1>10. FoldLeft(ClaudeLimit, base, limits) = h[1..n]
  BY <1>1, <1>8 DEF FoldLeft, MapThenFoldSet
<1> DEFINE G == {k \in Nat : k <= n => h[1..k] \in ClaudeAccumulators}
<1>11. 0 \in G
  <2>1. {} \in SUBSET (1..n) /\ 1..0 = {}
    OBVIOUS
  <2>2. h[{}] = base
    BY <1>1, <1>9, <2>1
  <2> QED
    BY <2>1, <2>2
<1>12. ASSUME NEW k \in Nat, k < n, k \in G PROVE k + 1 \in G
  <2>1. 1..(k + 1) \in SUBSET (1..n) /\ k + 1 \in 1..(k + 1) /\ k + 1 \in 1..n /\ k <= n
    BY <1>12
  <2>2. Max(1..(k + 1)) = k + 1
    BY <2>1, MaxIsLast
  <2>3. (1..(k + 1)) \ {k + 1} = 1..k
    OBVIOUS
  <2>4. h[1..(k + 1)] = ClaudeLimit(h[1..k], limits[k + 1])
    BY <1>1, <1>9, <2>1, <2>2, <2>3
  <2>5. ClaudeLimit(h[1..k], limits[k + 1]) \in ClaudeAccumulators
    BY <1>1, <1>12, <2>1, LimitStaysDistinct
  <2> QED
    BY <2>4, <2>5
<1>13. n \in G
  <2> HIDE DEF G
  <2> QED
    BY <1>11, <1>12, CountedInduction
<1>14. n <= n
  OBVIOUS
<1>15. h[1..n] \in ClaudeAccumulators
  BY <1>13, <1>14
<1> QED
  BY <1>10, <1>15

LEMMA ClaudeWindowsAreDistinct ==
  ASSUME NEW doc \in ClaudeUsageDoc
  PROVE  ClaudeWindows(doc) \in Distinct
<1>1. /\ doc.five_hour \in Optional(ClaudeWindowRaw) /\ doc.seven_day \in Optional(ClaudeWindowRaw)
      /\ doc.oauth_apps \in Optional(ClaudeWindowRaw) /\ doc.opus \in Optional(ClaudeWindowRaw)
      /\ doc.sonnet \in Optional(ClaudeWindowRaw) /\ doc.limits \in Seq(ClaudeLimitRaw)
  BY DEF ClaudeUsageDoc
<1>2. "session" \in Part /\ "weekly" \in Part
  BY WordAssumption DEF Part
<1>3. <<"session">> \in Seq(Part) /\ <<"weekly">> \in Seq(Part)
  BY <1>2, WordsAreIds
<1>4. Or(doc.oauth_apps, doc.seven_day) \in Optional(ClaudeWindowRaw)
  BY <1>1 DEF Or
<1>5. PICK session : session = ClaudeWindow(<<"session">>, doc.five_hour, SESSION_MINUTES) /\ Shows(session, <<"session">>)
  BY <1>1, <1>3, ClaudeWindowIsShown, MinutesAreOptional
<1>6. PICK week : week = ClaudeWindow(<<"weekly">>, Or(doc.oauth_apps, doc.seven_day), WEEK_MINUTES) /\ Shows(week, <<"weekly">>)
  BY <1>3, <1>4, ClaudeWindowIsShown, MinutesAreOptional
<1>7. session \in Distinct
  <2>1. CASE session = <<>>
    BY <2>1, EmptyIsDistinct
  <2>2. ASSUME NEW w \in ShownWindow, session = <<w>> PROVE session \in Distinct
    <3>1. \A i \in DOMAIN session : i = 1
      BY <2>2
    <3> QED
      BY <1>5, <3>1, ShowsIsAList DEF Distinct, UniqueWindowIds
  <2> QED
    BY <1>5, <2>1, <2>2 DEF Shows
<1>8. PICK first \in Distinct : first = PushUnique(session, week)
  BY <1>6, <1>7, PushedStaysDistinct
<1>9. PICK acc \in ClaudeAccumulators : acc = FoldLeft(ClaudeLimit, [windows |-> first, scoped |-> 0], doc.limits)
  <2>1. [windows |-> first, scoped |-> 0] \in ClaudeAccumulators
    BY <1>8 DEF ClaudeAccumulators
  <2> QED
    BY <1>1, <2>1, LimitsStayDistinct
<1>10. "opus" \in STRING /\ "sonnet" \in STRING /\ "" \in STRING
  BY WordAssumption
<1>11. <<"opus", "">> \in Name /\ <<"sonnet", "">> \in Name
  BY <1>10 DEF Name
<1>12. PICK opusId \in Seq(Part) : opusId = WeeklyModelId(<<"opus", "">>, 0)
  BY <1>11, ModelIdIsShown
<1>13. PICK sonnetId \in Seq(Part) : sonnetId = WeeklyModelId(<<"sonnet", "">>, 0)
  BY <1>11, ModelIdIsShown
<1>14. PICK opus : opus = ClaudeWindow(opusId, doc.opus, WEEK_MINUTES) /\ Shows(opus, opusId)
  BY <1>1, ClaudeWindowIsShown, MinutesAreOptional
<1>15. PICK sonnet : sonnet = ClaudeWindow(sonnetId, doc.sonnet, WEEK_MINUTES) /\ Shows(sonnet, sonnetId)
  BY <1>1, ClaudeWindowIsShown, MinutesAreOptional
<1>16. PushUnique(acc.windows, opus) \in Distinct
  BY <1>14, PushedStaysDistinct DEF ClaudeAccumulators
<1>17. PushUnique(PushUnique(acc.windows, opus), sonnet) \in Distinct
  BY <1>15, <1>16, PushedStaysDistinct
<1>18. ClaudeWindows(doc) = PushUnique(PushUnique(acc.windows, opus), sonnet)
  BY <1>5, <1>6, <1>8, <1>9, <1>12, <1>13, <1>14, <1>15 DEF ClaudeWindows
<1> QED
  BY <1>17, <1>18

\* The members of a list, and what is made of a list of lists.
LEMMA AmongIsAList ==
  ASSUME NEW T, NEW list \in Seq(T), NEW S
  PROVE  Among(list, S) \in Seq(T)
<1>1. PICK lists : lists = [i \in DOMAIN list |-> IF list[i] \in S THEN <<list[i]>> ELSE <<>>]
  OBVIOUS
<1>2. PICK n \in Nat : DOMAIN list = 1..n /\ \A i \in 1..n : list[i] \in T
  OBVIOUS
<1>3. \A i \in 1..n : <<list[i]>> \in Seq(T) /\ <<>> \in Seq(T)
  BY <1>2
<1>4. lists \in [1..n -> Seq(T)]
  BY <1>1, <1>2, <1>3
<1>5. lists \in Seq(Seq(T))
  BY <1>4
<1> QED
  BY <1>1, <1>5, FlattenIsASequence DEF Among

LEMMA ClearsAreTyped ==
  ASSUME NEW keys \in Seq(STRING)
  PROVE  Clears(keys) \in Seq(STRING)
<1>1. PICK known \in Seq(STRING) : known = Among(keys, {"five_hour", "seven_day"})
  BY AmongIsAList
<1>2. PICK n \in Nat : DOMAIN known = 1..n
  OBVIOUS
<1>3. PICK clears : clears = [i \in DOMAIN known |-> IF known[i] = "five_hour" THEN "session" ELSE "weekly"]
  OBVIOUS
<1>4. "session" \in STRING /\ "weekly" \in STRING
  BY WordAssumption
<1>5. \A i \in 1..n : clears[i] \in STRING
  BY <1>2, <1>3, <1>4
<1>6. clears = [i \in 1..n |-> clears[i]]
  BY <1>2, <1>3
<1>7. clears \in Seq(STRING)
  BY <1>5, <1>6, IsASeq
<1> QED
  BY <1>1, <1>3, <1>7 DEF Clears

LEMMA GrantResetIsTyped ==
  ASSUME NEW grant \in ClaudeCedarEmberGrantRaw
  PROVE  GrantReset(grant) \in Seq(UsageReset)
<1>1. /\ grant.id \in Name /\ grant.left \in Optional(Nat) /\ grant.total \in Optional(Nat)
      /\ grant.ends \in RawDate /\ grant.clears \in Seq(STRING) /\ grant.usable \in BOOLEAN
      /\ grant.cooldown \in RawDate
  BY DEF ClaudeCedarEmberGrantRaw
<1>2. PICK id \in Seq(STRING) : id = <<"cedar-ember", Sanitized(grant.id, "bucket")>>
  <2>1. "cedar-ember" \in STRING /\ "bucket" \in STRING
    BY WordAssumption
  <2>2. Sanitized(grant.id, "bucket") \in STRING
    BY <1>1, <2>1, NameIsSanitized
  <2> QED
    BY <2>1, <2>2, WordsAreLists
<1>3. PICK dates \in Dates :
        dates = [expires |-> Date(grant.ends), refills |-> NULL, cooldown |-> Date(grant.cooldown)]
  <2>1. Date(grant.ends) \in Optional(Nat) /\ Date(grant.cooldown) \in Optional(Nat)
    BY <1>1, DateIsOptional
  <2> QED
    BY <2>1, MinutesAreOptional DEF Dates
<1>4. PICK left \in Nat : left = Or(grant.left, 0)
  BY <1>1 DEF Or, Optional
<1>5. PICK clears \in Seq(STRING) : clears = Clears(grant.clears)
  BY <1>1, ClearsAreTyped
<1>6. PICK claimable \in BOOLEAN : claimable = (grant.usable /\ Date(grant.cooldown) = NULL)
  OBVIOUS
<1>7. PICK label : label = Or(grant.label, "Usage reset")
  OBVIOUS
<1>8. GrantReset(grant) = TryReset(id, label, left, grant.total, clears, dates, claimable)
  BY <1>2, <1>3, <1>4, <1>5, <1>6, <1>7 DEF GrantReset
<1> QED
  BY <1>1, <1>8, ResetIsTyped

LEMMA CedarResetsAreTyped ==
  ASSUME NEW cedar \in Optional(ClaudeCedarEmberRaw)
  PROVE  CedarEmberResets(cedar) \in Seq(UsageReset)
<1>1. CASE cedar = NULL
  BY <1>1 DEF CedarEmberResets
<1>2. CASE cedar # NULL
  <2> DEFINE grants == cedar.grants
             offered == {grants[i] : i \in {j \in DOMAIN grants : GrantOffered(grants[j])}}
             first == {g \in offered : g.id = cedar.next}
             sorted == Among(grants, first) \o Among(grants, offered \ first)
             lists == [i \in DOMAIN sorted |-> GrantReset(sorted[i])]
  <2>1. grants \in Seq(ClaudeCedarEmberGrantRaw)
    BY <1>2 DEF Optional, ClaudeCedarEmberRaw
  <2>2. sorted \in Seq(ClaudeCedarEmberGrantRaw)
    <3> HIDE DEF grants, first, offered
    <3>1. PICK a \in Seq(ClaudeCedarEmberGrantRaw), b \in Seq(ClaudeCedarEmberGrantRaw) :
            a = Among(grants, first) /\ b = Among(grants, offered \ first)
      BY <2>1, AmongIsAList
    <3>2. a \o b \in Seq(ClaudeCedarEmberGrantRaw)
      OBVIOUS
    <3> QED
      BY <3>1, <3>2
  <2>3. lists \in Seq(Seq(UsageReset))
    <3>1. PICK list \in Seq(ClaudeCedarEmberGrantRaw) : list = sorted
      BY <2>2
    <3>2. PICK n \in Nat : DOMAIN list = 1..n /\ \A i \in 1..n : list[i] \in ClaudeCedarEmberGrantRaw
      OBVIOUS
    <3>3. lists = [i \in 1..n |-> GrantReset(list[i])]
      BY <3>1, <3>2
    <3> HIDE DEF lists
    <3>4. lists \in [1..n -> Seq(UsageReset)]
      BY <3>2, <3>3, GrantResetIsTyped
    <3> QED
      BY <3>4
  <2>4. FlattenSeq(lists) \in Seq(UsageReset)
    <3> HIDE DEF lists
    <3> QED
      BY <2>3, FlattenIsASequence
  <2>5. CedarEmberResets(cedar) = IF ~cedar.eligible THEN <<>> ELSE FlattenSeq(lists)
    BY <1>2 DEF CedarEmberResets
  <2> QED
    BY <2>4, <2>5, EmptySeq
<1> QED
  BY <1>1, <1>2

LEMMA TideResetIsTyped ==
  ASSUME NEW tide \in Optional(ClaudeJuniperTideRaw)
  PROVE  JuniperTideReset(tide) \in Seq(UsageReset)
<1>1. CASE tide = NULL
  BY <1>1 DEF JuniperTideReset
<1>2. CASE tide # NULL
  <2>1. /\ tide.available \in BOOLEAN /\ tide.next \in RawDate /\ tide.weekly \in RawDate
        /\ tide.perWeek \in Optional(Nat)
    BY <1>2 DEF Optional, ClaudeJuniperTideRaw
  <2>2. PICK id \in Seq(STRING), clears \in Seq(STRING) : id = <<"juniper-tide">> /\ clears = <<"session">>
    <3>1. "juniper-tide" \in STRING /\ "session" \in STRING
      BY WordAssumption
    <3> QED
      BY <3>1, WordsAreLists
  <2>3. PICK dates \in Dates : dates = [expires |-> NULL, refills |-> Date(Or(tide.next, tide.weekly)), cooldown |-> NULL]
    <3>1. Or(tide.next, tide.weekly) \in RawDate
      BY <2>1 DEF Or
    <3>2. Date(Or(tide.next, tide.weekly)) \in Optional(Nat)
      BY <3>1, DateIsOptional
    <3> QED
      BY <3>2, MinutesAreOptional DEF Dates
  <2>4. PICK available \in Nat : available = IF tide.available THEN 1 ELSE 0
    OBVIOUS
  <2>5. JuniperTideReset(tide) = IF ~tide.eligible \/ (~tide.available /\ tide.next = NULL) THEN <<>>
          ELSE TryReset(id, "Weekly reset", available, tide.perWeek, clears, dates, tide.available)
    BY <1>2, <2>2, <2>3, <2>4 DEF JuniperTideReset
  <2>6. TryReset(id, "Weekly reset", available, tide.perWeek, clears, dates, tide.available) \in Seq(UsageReset)
    BY <2>1, ResetIsTyped
  <2> QED
    BY <2>5, <2>6, EmptySeq
<1> QED
  BY <1>1, <1>2

\* claude_from_usage_json(): a usage document without an error is a reading.
LEMMA ClaudeReads ==
  ASSUME NEW doc \in ClaudeUsageDoc, doc # NULL, doc.error = NULL, doc.error # "token_expired",
         NEW at \in Nat, NEW plan \in Optional(STRING), NEW l
  PROVE  /\ ClaudeResult(doc, at, plan, l) \in Reading("claude")
         /\ ClaudeResult(doc, at, plan, l).windows \in Distinct
<1>1. doc.cedar \in Optional(ClaudeCedarEmberRaw) /\ doc.tide \in Optional(ClaudeJuniperTideRaw)
  BY DEF ClaudeUsageDoc
<1>2. PICK a \in Seq(UsageReset), b \in Seq(UsageReset) :
        a = CedarEmberResets(doc.cedar) /\ b = JuniperTideReset(doc.tide)
  BY <1>1, CedarResetsAreTyped, TideResetIsTyped
<1>3. PICK resets \in Seq(UsageReset) : resets = a \o b
  <2>1. a \o b \in Seq(UsageReset)
    OBVIOUS
  <2> QED
    BY <2>1
<1>4. ClaudeWindows(doc) \in Distinct
  BY ClaudeWindowsAreDistinct
<1>5. PICK windows \in Seq(ShownWindow) : windows = ClaudeWindows(doc)
  BY <1>4 DEF Distinct
<1>6. ClaudeResult(doc, at, plan, l) = ReadyResult("claude", plan, windows, at, resets)
  BY <1>2, <1>3, <1>5 DEF ClaudeResult
<1>7. PICK named \in Optional(STRING) : named = plan
  OBVIOUS
<1>8. ClaudeResult(doc, at, plan, l) = ReadyResult("claude", named, windows, at, resets)
  BY <1>6, <1>7
<1>9. ReadyResult("claude", named, windows, at, resets) \in Reading("claude")
      /\ ReadyResult("claude", named, windows, at, resets).windows = windows
  BY ReadyIsAReading
<1> QED
  BY <1>4, <1>5, <1>8, <1>9

---------------------------------------------------------------------------
(* Antigravity.                                                            *)

LEMMA SlotIsShown ==
  ASSUME NEW slot \in {AntigravitySlots[i] : i \in 1..4}, NEW buckets \in Seq(AntigravityBucket)
  PROVE  Shows(AntigravityWindow(slot, buckets), <<slot.id>>)
<1> DEFINE stated == {i \in DOMAIN buckets : buckets[i].id = slot.id /\ buckets[i].left # NULL}
           bucket == buckets[Min(stated)]
<1>1. PICK n \in Nat : DOMAIN buckets = 1..n /\ \A i \in 1..n : buckets[i] \in AntigravityBucket
  OBVIOUS
<1>2. CASE stated = {}
  BY <1>2 DEF AntigravityWindow, Shows
<1>3. CASE stated # {}
  <2>1. stated \in SUBSET Int /\ IsFiniteSet(stated)
    <3>1. IsFiniteSet(1..n) /\ stated \subseteq 1..n
      BY <1>1, FS_Interval
    <3> QED
      BY <3>1, FS_Subset
  <2>2. Min(stated) \in stated
    <3> HIDE DEF stated
    <3>1. \E m \in stated : \A x \in stated : m <= x
      BY <1>3, <2>1, FiniteLeast
    <3> QED
      BY <3>1 DEF Min
  <2>3. bucket \in AntigravityBucket /\ bucket.left # NULL
    BY <1>1, <2>2
  <2>4. PICK left \in Int, reset \in RawDate : left = bucket.left /\ reset = bucket.reset
    BY <2>3 DEF AntigravityBucket, Optional
  <2>5. PICK used \in Int : used = 100 - Clamp(left)
    BY Clamped DEF Percent
  <2>6. PICK at \in Optional(Nat) : at = IF left < 100 THEN Date(reset) ELSE NULL
    BY DateIsOptional, MinutesAreOptional
  <2>7. <<slot.id>> \in Seq(Part) /\ slot.minutes \in Optional(Nat)
    <3>1. slot.id \in Part /\ slot.minutes \in Optional(Nat)
      <4>1. PICK i \in 1..4 : slot = AntigravitySlots[i]
        OBVIOUS
      <4>2. \/ slot = [id |-> "gemini-weekly", minutes |-> WEEK_MINUTES]
            \/ slot = [id |-> "gemini-5h", minutes |-> SESSION_MINUTES]
            \/ slot = [id |-> "3p-weekly", minutes |-> WEEK_MINUTES]
            \/ slot = [id |-> "3p-5h", minutes |-> SESSION_MINUTES]
        BY <4>1 DEF AntigravitySlots
      <4>3. {"gemini-weekly", "gemini-5h", "3p-weekly", "3p-5h"} \subseteq Part
        BY WordAssumption DEF Part
      <4> QED
        BY <4>2, <4>3, MinutesAreOptional
    <3> QED
      BY <3>1, WordsAreIds
  <2>8. AntigravityWindow(slot, buckets) = WindowOf(<<slot.id>>, used, at, slot.minutes)
    BY <1>3, <2>4, <2>5, <2>6 DEF AntigravityWindow
  <2> QED
    BY <2>7, <2>8, WindowIsShown
<1> QED
  BY <1>2, <1>3

LEMMA SlotsDiffer ==
  \A i, j \in 1..4 : <<AntigravitySlots[i].id>> = <<AntigravitySlots[j].id>> => i = j
BY DEF AntigravitySlots

\* antigravity_from_usage_json(): four slots, with an id each.
LEMMA AntigravityReads ==
  ASSUME NEW doc \in AntigravityDoc, doc # NULL, doc.status = "SUCCESS", NEW at \in Nat
  PROVE  AntigravityResult(doc, at) \in Reading("antigravity") /\ AntigravityResult(doc, at).windows \in Distinct
<1>1. PICK lists : lists = [i \in 1..4 |-> AntigravityWindow(AntigravitySlots[i], doc.buckets)]
  OBVIOUS
<1>2. PICK ids : ids = [i \in 1..4 |-> <<AntigravitySlots[i].id>>]
  OBVIOUS
<1>3. \A i \in 1..4 : Shows(lists[i], ids[i])
  BY <1>1, <1>2, SlotIsShown DEF AntigravityDoc
<1>4. \A i, j \in 1..4 : ids[i] = ids[j] => i = j
  BY <1>2, SlotsDiffer
<1>5. \A i \in 1..4 : lists[i] \in Seq(ShownWindow) /\ Len(lists[i]) <= 1
  BY <1>3, ShowsIsAList
<1>6. lists \in Seq(Seq(ShownWindow)) /\ Len(lists) = 4
  <2>1. lists \in [1..4 -> Seq(ShownWindow)]
    BY <1>1, <1>5
  <2>2. PICK n \in Nat : n = 4
    OBVIOUS
  <2>3. lists \in [1..n -> Seq(ShownWindow)]
    BY <2>1, <2>2
  <2>4. lists \in Seq(Seq(ShownWindow)) /\ Len(lists) = n
    BY <2>3
  <2> QED
    BY <2>2, <2>4
<1>7. PICK flat \in Seq(ShownWindow) : flat = FlattenSeq(lists)
  BY <1>6, FlattenIsASequence
<1>8. PICK picks : Picked(flat, lists, 4, picks)
  BY <1>5, <1>6, <1>7, FlattenPicks
<1>9. /\ \A p \in 1..Len(flat) : picks[p] \in 1..4 /\ lists[picks[p]] = <<flat[p]>>
      /\ \A p, q \in 1..Len(flat) : p < q => picks[p] < picks[q]
  BY <1>8 DEF Picked
<1>10. \A p \in 1..Len(flat) : flat[p].id = ids[picks[p]]
  <2>1. ASSUME NEW p \in 1..Len(flat) PROVE flat[p].id = ids[picks[p]]
    <3>1. PICK w \in ShownWindow : w.id = ids[picks[p]] /\ lists[picks[p]] = <<w>>
      <4>1. lists[picks[p]] # <<>>
        <5>1. PICK x : x = flat[p]
          OBVIOUS
        <5>2. Len(<<x>>) # Len(<<>>)
          OBVIOUS
        <5> QED
          BY <1>9, <5>1, <5>2
      <4> QED
        BY <1>3, <1>9, <4>1 DEF Shows
    <3>2. <<w>> = <<flat[p]>>
      BY <1>9, <3>1
    <3>3. w = flat[p]
      BY <3>2
    <3> QED
      BY <3>1, <3>3
  <2> QED
    BY <2>1
<1>11. ASSUME NEW p \in 1..Len(flat), NEW q \in 1..Len(flat), flat[p].id = flat[q].id PROVE p = q
  <2>1. picks[p] = picks[q]
    BY <1>4, <1>9, <1>10, <1>11
  <2>2. ~(p < q) /\ ~(q < p)
    BY <1>9, <2>1
  <2> QED
    BY <2>2
<1>12. flat \in Distinct
  BY <1>11 DEF Distinct, UniqueWindowIds
<1>13. PICK plan \in Optional(STRING), resets \in Seq(UsageReset) : plan = NULL /\ resets = <<>>
  BY EmptySeq DEF Optional
<1>14. AntigravityResult(doc, at) = ReadyResult("antigravity", plan, flat, at, resets)
  BY <1>1, <1>7, <1>13 DEF AntigravityResult
<1>15. PICK reading : reading = ReadyResult("antigravity", plan, flat, at, resets)
  OBVIOUS
<1>16. reading \in Reading("antigravity") /\ reading.windows = flat
  BY <1>15, ReadyIsAReading
<1> QED
  BY <1>12, <1>14, <1>15, <1>16

---------------------------------------------------------------------------
(* The document the app-server's answer is normalized to.                  *)

KeyedBucket == [key : Name, bucket : CodexAppServerBucket]

LEMMA WindowJsonIsTyped ==
  ASSUME NEW window \in Optional(CodexWindowRaw), NEW fallback \in Int
  PROVE  WindowJson(window, fallback) \in Optional(CodexWindowRaw)
<1>1. CASE window = NULL
  BY <1>1 DEF WindowJson
<1>2. CASE window # NULL
  <2>1. window.used \in Int /\ window.minutes \in Optional(Int) /\ window.resetsAt \in Optional(Int)
    BY <1>2 DEF Optional, CodexWindowRaw
  <2>2. Or(window.minutes, fallback) \in Optional(Int) /\ Or(window.resetsAt, 0) \in Optional(Int)
    BY <2>1 DEF Or, Optional
  <2> QED
    BY <1>2, <2>1, <2>2 DEF WindowJson, CodexWindowRaw, Optional
<1> QED
  BY <1>1, <1>2

LEMMA BucketIsTyped ==
  ASSUME NEW bucket \in CodexAppServerBucket
  PROVE  /\ bucket.primary \in Optional(CodexWindowRaw) /\ bucket.secondary \in Optional(CodexWindowRaw)
         /\ bucket.plan \in Optional(STRING)
         /\ bucket.individual \in Optional([left : Optional(Int), resetsAt : Optional(Int)])
BY DEF CodexAppServerBucket

LEMMA IndividualIsTyped ==
  ASSUME NEW limit \in Optional([left : Optional(Int), resetsAt : Optional(Int)])
  PROVE  IndividualJson(limit) \in Optional(CodexIndividualLimitRaw)
<1>1. CASE limit = NULL
  BY <1>1 DEF IndividualJson, Optional
<1>2. CASE limit # NULL
  <2>1. limit.left \in Optional(Int) /\ limit.resetsAt \in Optional(Int)
    BY <1>2 DEF Optional
  <2>2. CASE limit.left = NULL
    BY <1>2, <2>2 DEF IndividualJson, Optional
  <2>3. CASE limit.left # NULL
    <3>1. limit.left \in Int /\ Or(limit.resetsAt, 0) \in Optional(Int)
      BY <2>1, <2>3 DEF Or, Optional
    <3>2. [left |-> limit.left, resetsAt |-> Or(limit.resetsAt, 0)] \in CodexIndividualLimitRaw
      BY <3>1 DEF CodexIndividualLimitRaw
    <3> QED
      BY <1>2, <2>3, <3>2 DEF IndividualJson, Optional
  <2> QED
    BY <2>2, <2>3
<1> QED
  BY <1>1, <1>2

LEMMA MinutesAreNumbers == SESSION_MINUTES \in Int /\ WEEK_MINUTES \in Int
BY DEF SESSION_MINUTES, WEEK_MINUTES

LEMMA EntryJsonIsTyped ==
  ASSUME NEW entry \in KeyedBucket
  PROVE  BucketJson(entry) \in CodexExtraBucketRaw
<1>1. entry.key \in Name /\ entry.bucket \in CodexAppServerBucket
  BY DEF KeyedBucket
<1>2. /\ WindowJson(entry.bucket.primary, SESSION_MINUTES) \in Optional(CodexWindowRaw)
      /\ WindowJson(entry.bucket.secondary, WEEK_MINUTES) \in Optional(CodexWindowRaw)
  BY <1>1, BucketIsTyped, WindowJsonIsTyped, MinutesAreNumbers
<1> QED
  BY <1>1, <1>2 DEF BucketJson, CodexExtraBucketRaw

\* A list of things that are not there again is not empty at its first place,
\* nor at the least place of those that are named.
LEMMA LeastIsIn ==
  ASSUME NEW n \in Nat, NEW S \in SUBSET (1..n), S # {}
  PROVE  Min(S) \in S
<1>1. S \in SUBSET Int /\ IsFiniteSet(S)
  <2>1. IsFiniteSet(1..n)
    BY FS_Interval
  <2>2. IsFiniteSet(S)
    BY <2>1, FS_Subset
  <2> QED
    BY <2>2
<1>2. \E m \in S : \A x \in S : m <= x
  BY <1>1, FiniteLeast
<1> QED
  BY <1>2 DEF Min

\* normalize_to_rate_limits_json()
LEMMA NormalizedIsTyped ==
  ASSUME NEW raw \in CodexAppServerRateLimits, NEW account \in Optional(STRING), Normalized(raw, account) # NULL
  PROVE  Normalized(raw, account) \in CodexRateLimitsDoc
<1> DEFINE root    == Or(raw.rateLimits, NoBucket)
           entries == Or(raw.byLimitId, <<>>)
           listed  == Among(entries, {entries[i] : i \in {j \in DOMAIN entries : HasWindows(entries[j].bucket)}})
           named   == {i \in DOMAIN listed : listed[i].key = CodexKey}
           chosen  == listed[IF named # {} THEN Min(named) ELSE 1]
           fromId  == ~HasWindows(root) /\ listed # <<>>
           bucket  == IF fromId THEN chosen.bucket ELSE root
           mainKey == IF fromId THEN chosen.key ELSE Or(root.limitId, CodexKey)
           others  == Among(listed, {listed[i] : i \in {j \in DOMAIN listed : listed[j].key # mainKey}})
           doc     == [primary    |-> WindowJson(bucket.primary, SESSION_MINUTES),
                       secondary  |-> WindowJson(bucket.secondary, WEEK_MINUTES),
                       plan       |-> Or(account, Or(raw.plan, root.plan)),
                       individual |-> IndividualJson(bucket.individual),
                       credits    |-> raw.credits,
                       extras     |-> [i \in DOMAIN others |-> BucketJson(others[i])]]
<1>1. /\ raw.rateLimits \in Optional(CodexAppServerBucket) /\ raw.byLimitId \in Optional(Seq(KeyedBucket))
      /\ raw.plan \in Optional(STRING) /\ raw.credits \in Optional(Nat)
  BY DEF CodexAppServerRateLimits, KeyedBucket
<1>2. root \in CodexAppServerBucket
  <2>1. NoBucket \in CodexAppServerBucket
    BY DEF NoBucket, CodexAppServerBucket, Optional
  <2> QED
    BY <1>1, <2>1 DEF Or, Optional
<1>3. entries \in Seq(KeyedBucket)
  BY <1>1, EmptySeq DEF Or, Optional
<1>4. listed \in Seq(KeyedBucket)
  <2> HIDE DEF entries
  <2> QED
    BY <1>3, AmongIsAList
<1>5. others \in Seq(KeyedBucket)
  <2> HIDE DEF listed, mainKey
  <2> QED
    BY <1>4, AmongIsAList
<1>6. bucket \in CodexAppServerBucket
  <2>1. CASE ~fromId
    BY <1>2, <2>1
  <2>2. CASE fromId
    <3> HIDE DEF listed
    <3>1. PICK n \in Nat : DOMAIN listed = 1..n /\ (\A i \in 1..n : listed[i] \in KeyedBucket) /\ n # 0
      <4>1. Len(listed) \in Nat \ {0}
        BY <1>4, <2>2, EmptySeq
      <4>2. DOMAIN listed = 1..Len(listed) /\ \A i \in 1..Len(listed) : listed[i] \in KeyedBucket
        BY <1>4
      <4> QED
        BY <4>1, <4>2
    <3>2. named # {} => Min(named) \in 1..n
      <4>1. named \in SUBSET (1..n)
        BY <3>1
      <4> HIDE DEF named
      <4> QED
        BY <4>1, LeastIsIn
    <3>3. (IF named # {} THEN Min(named) ELSE 1) \in 1..n
      BY <3>1, <3>2
    <3>4. chosen \in KeyedBucket
      <4> HIDE DEF named
      <4> QED
        BY <3>1, <3>3
    <3> QED
      BY <2>2, <3>4 DEF KeyedBucket
  <2> QED
    BY <2>1, <2>2
<1>7. doc.primary \in Optional(CodexWindowRaw) /\ doc.secondary \in Optional(CodexWindowRaw)
  <2> HIDE DEF bucket
  <2> QED
    BY <1>6, BucketIsTyped, WindowJsonIsTyped, MinutesAreNumbers
<1>8. doc.plan \in Optional(STRING)
  <2> HIDE DEF root
  <2>1. root.plan \in Optional(STRING)
    BY <1>2, BucketIsTyped
  <2> QED
    BY <1>1, <2>1 DEF Or
<1>9. doc.individual \in Optional(CodexIndividualLimitRaw)
  <2> HIDE DEF bucket
  <2> QED
    BY <1>6, BucketIsTyped, IndividualIsTyped
<1>10. doc.extras \in Seq(CodexExtraBucketRaw)
  <2>1. PICK list \in Seq(KeyedBucket) : list = others
    BY <1>5
  <2>2. PICK n \in Nat : DOMAIN list = 1..n /\ \A i \in 1..n : list[i] \in KeyedBucket
    OBVIOUS
  <2>3. PICK extras : extras = [i \in 1..n |-> BucketJson(list[i])]
    OBVIOUS
  <2>4. extras \in [1..n -> CodexExtraBucketRaw]
    BY <2>2, <2>3, EntryJsonIsTyped
  <2>5. extras \in Seq(CodexExtraBucketRaw)
    BY <2>4
  <2>6. doc.extras = extras
    <3> HIDE DEF others
    <3> QED
      BY <2>1, <2>2, <2>3
  <2> QED
    BY <2>5, <2>6
<1>11. Normalized(raw, account) = doc
  <2>1. Normalized(raw, account) = IF ~HasWindows(bucket) THEN NULL ELSE doc
    BY DEF Normalized
  <2> HIDE DEF doc, bucket
  <2> QED
    BY <2>1
<1>12. doc.credits \in Optional(Nat)
  BY <1>1
<1>13. PICK made : made = doc
  OBVIOUS
<1>14. made \in CodexRateLimitsDoc
  <2>1. made = [primary |-> made.primary, secondary |-> made.secondary, plan |-> made.plan,
                individual |-> made.individual, credits |-> made.credits, extras |-> made.extras]
    BY <1>13
  <2>2. /\ made.primary \in Optional(CodexWindowRaw) /\ made.secondary \in Optional(CodexWindowRaw)
        /\ made.plan \in Optional(STRING) /\ made.individual \in Optional(CodexIndividualLimitRaw)
        /\ made.credits \in Optional(Nat) /\ made.extras \in Seq(CodexExtraBucketRaw)
    <3> HIDE DEF doc
    <3> QED
      BY <1>7, <1>8, <1>9, <1>10, <1>12, <1>13
  <2> QED
    BY <2>1, <2>2 DEF CodexRateLimitsDoc
<1> QED
  BY <1>11, <1>13, <1>14

---------------------------------------------------------------------------
(* The document of an exchange.                                            *)

\* What an exchange came to, if it came to a document, has its fields.
Exchanged == exchange = "over" /\ outcome.tag = "ok" => outcome.doc \in CodexRateLimitsDoc

LEMMA InitExchanged == Init => Exchanged
BY DEF Init, ServerInit, Exchanged

\* What any limits at hand come to.
LEMMA ConcludedIsTyped ==
  ASSUME NEW limits \in CodexAppServerRateLimits, NEW plan \in Optional(STRING), NEW otherwise \in Losses
  PROVE  Concluded(limits, plan, otherwise).tag = "ok" =>
           Concluded(limits, plan, otherwise).doc \in CodexRateLimitsDoc
<1>1. PICK doc : doc = Normalized(limits, plan)
  OBVIOUS
<1>2. CASE limits = NULL \/ doc = NULL
  <2>1. Concluded(limits, plan, otherwise) = Outcome(otherwise)
    BY <1>1, <1>2 DEF Concluded
  <2> QED
    BY <2>1 DEF Outcome, Losses
<1>3. CASE limits # NULL /\ doc # NULL
  <2>1. Concluded(limits, plan, otherwise) = [tag |-> "ok", doc |-> doc]
    BY <1>1, <1>3 DEF Concluded
  <2>2. doc \in CodexRateLimitsDoc
    BY <1>1, <1>3, NormalizedIsTyped
  <2> QED
    BY <2>1, <2>2
<1> QED
  BY <1>2, <1>3

\* The same of the limits a server answered with, if it did.
LEMMA HandedIsTyped ==
  ASSUME Server, NEW plan, plan \in Accounts \/ plan = NULL, NEW otherwise \in Losses
  PROVE  Concluded(rateLimits, plan, otherwise).tag = "ok" =>
           Concluded(rateLimits, plan, otherwise).doc \in CodexRateLimitsDoc
<1>1. CASE rateLimits = NULL
  <2>1. Concluded(rateLimits, plan, otherwise) = Outcome(otherwise)
    BY <1>1 DEF Concluded
  <2> QED
    BY <2>1 DEF Outcome, Losses
<1>2. CASE rateLimits # NULL
  <2>1. PICK answer \in LimitAnswers : rateLimits = answer.result
    BY <1>2 DEF Server
  <2>2. rateLimits \in CodexAppServerRateLimits
    BY <1>2, <2>1, ServerAssumption DEF AppServerResponse, Optional
  <2>3. plan \in Optional(STRING)
    BY ServerAssumption DEF Optional
  <2> QED
    BY <2>2, <2>3, ConcludedIsTyped
<1> QED
  BY <1>1, <1>2

LEMMA LostIsLost ==
  ASSUME NEW tag \in Losses
  PROVE  Outcome(tag).tag # "ok"
BY DEF Outcome, Losses

LEMMA NextExchanged ==
  ASSUME Server, Exchanged, [Next]_vars
  PROVE  Exchanged'
<1>1. CASE UNCHANGED serverVars \/ Taken
  BY <1>1 DEF serverVars, Taken, Exchanged
<1>2. ASSUME NEW started \in BOOLEAN, Open(started) PROVE Exchanged'
  BY <1>2, LostIsLost DEF Open, EndExchange, Exchanged, Losses
<1>3. ASSUME NEW ok \in BOOLEAN, Initialized(ok) PROVE Exchanged'
  BY <1>3, LostIsLost DEF Initialized, EndExchange, Exchanged, Losses
<1>4. ASSUME NEW plan \in Accounts, AccountRead(plan) PROVE Exchanged'
  <2>1. CASE rateLimits = NULL
    BY <1>4, <2>1 DEF AccountRead, Exchanged
  <2>2. CASE rateLimits # NULL
    <3>1. outcome' = Concluded(rateLimits, plan, "failed")
      BY <1>4, <2>2 DEF AccountRead, EndExchange
    <3> QED
      BY <3>1, HandedIsTyped DEF Exchanged, Losses
  <2> QED
    BY <2>1, <2>2
<1>5. ASSUME NEW answer \in LimitAnswers, RateLimitsRead(answer) PROVE Exchanged'
  <2>1. CASE answer.error # NULL
    BY <1>5, <2>1, LostIsLost DEF RateLimitsRead, EndExchange, Exchanged, Losses
  <2>2. CASE answer.error = NULL /\ HasData(answer.result) /\ accountKnown
    <3>1. outcome' = Concluded(answer.result, accountPlan, "failed")
      BY <1>5, <2>2 DEF RateLimitsRead, EndExchange
    <3>2. answer.result \in CodexAppServerRateLimits
      BY <2>2, ServerAssumption DEF HasData, AppServerResponse, Optional
    <3>3. accountPlan \in Optional(STRING)
      BY <2>2, ServerAssumption DEF Server
    <3> QED
      BY <3>1, <3>2, <3>3, ConcludedIsTyped DEF Exchanged, Losses
  <2>3. CASE answer.error = NULL /\ ~(HasData(answer.result) /\ accountKnown)
    BY <1>5, <2>3 DEF RateLimitsRead, Exchanged
  <2> QED
    BY <2>1, <2>2, <2>3
<1>6. CASE Closed
  BY <1>6, LostIsLost DEF Closed, EndExchange, Exchanged, Losses
<1>7. CASE GraceExpires \/ HardTimeout
  <2>1. PICK otherwise \in Losses :
          outcome' = Concluded(rateLimits, IF accountKnown THEN accountPlan ELSE NULL, otherwise)
    BY <1>7 DEF GraceExpires, HardTimeout, EndExchange, Losses
  <2>2. (IF accountKnown THEN accountPlan ELSE NULL) \in Accounts \cup {NULL}
    BY DEF Server
  <2> QED
    BY <2>1, <2>2, HandedIsTyped DEF Exchanged
<1> QED
  BY <1>1, <1>2, <1>3, <1>4, <1>5, <1>6, <1>7, StepServer DEF ServerNext

---------------------------------------------------------------------------
(* What an adapter returns.                                                *)

Failed(r, id) ==
  \E l \in BOOLEAN, again \in BOOLEAN : \E at :
    \/ r = MissingResult(id) \/ r = UnauthenticatedResult(id, l, again) \/ r = LimitedResult(id, at)
    \/ r = NetworkResult(id) \/ r = ErrorResult(id, again)

\* A failure, or a reading whose windows differ in their ids; Codex's do if
\* the two main ones of its document do.
Returned(r, id, doc) ==
  \/ Failed(r, id)
  \/ r \in Reading(id) /\ (r.windows \in Distinct \/ (id = "codex" /\ ~UniqueWindowIds(CodexMainWindows(doc))))

\* The plan of Claude's file is a plan or none, and what is collected is the
\* row of what was returned.
Kept ==
  /\ provider = "claude" /\ pc \in {"version", "usage"} => file.plan \in Optional(STRING)
  /\ pc = "done" => row = RowOf(result) /\ Returned(result, provider, outcome.doc)

LEMMA InitKept == Init => Kept
BY DEF Init, Kept

LEMMA FinishedIsKept ==
  ASSUME NEW r, Finish(r), UNCHANGED provider, Returned(r, provider, outcome'.doc)
  PROVE  Kept'
BY DEF Finish, Kept, RowOf

LEMMA FailureIsKept ==
  ASSUME NEW r, Finish(r), UNCHANGED provider, Failed(r, provider)
  PROVE  Kept'
BY FinishedIsKept DEF Returned

LEMMA EachFails ==
  ASSUME NEW id, NEW again \in BOOLEAN
  PROVE  /\ Failed(MissingResult(id), id) /\ Failed(UnauthenticatedResult(id, login, again), id)
         /\ Failed(NetworkResult(id), id) /\ Failed(ErrorResult(id, again), id)
         /\ \A at : Failed(LimitedResult(id, at), id)
<1>1. login \in BOOLEAN
  BY DEF login, LoginAvailable
<1> QED
  BY <1>1 DEF Failed

LEMMA RequestFails ==
  ASSUME NEW id, NEW answer, NEW retryable5xx \in BOOLEAN
  PROVE  Failed(HttpFailure(id, login, answer, retryable5xx), id)
<1>1. PICK again \in BOOLEAN : again = (answer.tag = "ok" /\ retryable5xx /\ answer.status >= 500)
  OBVIOUS
<1>2. HttpFailure(id, login, answer, retryable5xx) \in
        {UnauthenticatedResult(id, login, FALSE), NetworkResult(id), ErrorResult(id, again)}
  BY <1>1 DEF HttpFailure
<1> QED
  BY <1>2, EachFails

LEMMA FileFails ==
  ASSUME NEW f \in GrokFiles, f.is # "token"
  PROVE  Failed(GrokAuthFailure(f, login), "grok")
<1>1. f.is \in {"missing", "unreadable", "torn", "empty"}
  BY InputAssumption
<1>2. CASE f.is \in {"missing", "empty"}
  BY <1>2, EachFails DEF GrokAuthFailure
<1>3. CASE f.is = "torn"
  BY <1>3, EachFails DEF GrokAuthFailure
<1>4. CASE f.is = "unreadable"
  BY <1>4, EachFails DEF GrokAuthFailure
<1> QED
  BY <1>1, <1>2, <1>3, <1>4

LEMMA AwaitedIsKept ==
  ASSUME NEW next, Await(next), UNCHANGED provider, Kept, pc # "done",
         next # "done", provider = "claude" => next \notin {"version", "usage"}
  PROVE  Kept'
BY DEF Await, Kept

\* What Grok's usage document says.
LEMMA GrokReturns ==
  ASSUME NEW x \in GrokAnswers \cup Exchanges, Success(HttpSend(x)), NEW at \in Nat
  PROVE  \/ HttpSend(x).body = NULL /\ GrokResult(HttpSend(x).body, at) = ErrorResult("grok", FALSE)
         \/ /\ HttpSend(x).body # NULL
            /\ GrokResult(HttpSend(x).body, at) \in Reading("grok")
            /\ GrokResult(HttpSend(x).body, at).windows \in Distinct
<1>1. PICK doc : doc = HttpSend(x).body
  OBVIOUS
<1>2. CASE doc = NULL
  BY <1>1, <1>2 DEF GrokResult
<1>3. CASE doc # NULL
  <2>1. doc = x.body
    BY <1>1 DEF HttpSend
  <2>2. doc \in GrokBillingDoc
    BY <1>1, <1>3, <2>1, InputAssumption, CollectionConstants
  <2> QED
    BY <1>1, <1>3, <2>2, GrokReads
<1> QED
  BY <1>2, <1>3

LEMMA SentAgainKept ==
  ASSUME Kept, pc # "done", NEW answer, Sent(answer), SentAgain(answer)
  PROVE  Kept'
BY DEF Kept, Sent, SentAgain

LEMMA GrokFirstKept ==
  ASSUME Place, Tokens, Judged, Kept, GrokBilling
  PROVE  Kept'
<1>1. PICK x \in GrokAnswers \cup Exchanges :
        LET answer  == HttpSend(x)
            reading == GrokResult(answer.body, askedAt)
            empty   == reading.kind = "ready" /\ reading.windows = <<>>
        IN  /\ Sent(answer)
            /\ \/ SentAgain(answer)
               \/ ~Success(answer) /\ Finish(HttpFailure("grok", login, answer, TRUE))
               \/ Success(answer) /\ ~empty /\ Finish(reading)
               \/ Success(answer) /\ empty /\ credits' = reading /\ Await("monthly")
  BY DEF GrokBilling
<1>2. PICK answer : answer = HttpSend(x)
  OBVIOUS
<1>3. pc = "billing" /\ provider = "grok" /\ UNCHANGED provider /\ Sent(answer) /\ askedAt \in Nat
  BY <1>1, <1>2 DEF GrokBilling, Place, Sent, Tokens
<1>4. CASE SentAgain(answer)
  BY <1>3, <1>4, SentAgainKept
<1>5. CASE Finish(HttpFailure("grok", login, answer, TRUE))
  BY <1>3, <1>5, RequestFails, FailureIsKept
<1>6. CASE Success(answer) /\ Finish(GrokResult(answer.body, askedAt))
  <2>1. PICK r : r = GrokResult(answer.body, askedAt)
    OBVIOUS
  <2>2. Failed(r, "grok") \/ (r \in Reading("grok") /\ r.windows \in Distinct)
    BY <1>2, <1>3, <1>6, <2>1, GrokReturns, EachFails
  <2> QED
    BY <1>3, <1>6, <2>1, <2>2, FinishedIsKept DEF Returned
<1>7. CASE Await("monthly")
  BY <1>3, <1>7, AwaitedIsKept
<1> QED
  BY <1>1, <1>2, <1>4, <1>5, <1>6, <1>7

LEMMA MergedIsAReading ==
  ASSUME NEW c \in Credits, NEW windows \in Distinct, NEW plan \in Optional(STRING)
  PROVE  LET merged == [c EXCEPT !.windows = windows, !.plan = Or(@, plan)]
         IN  merged \in Reading("grok") /\ merged.windows \in Distinct
<1>1. PICK merged : merged = [c EXCEPT !.windows = windows, !.plan = Or(@, plan)]
  OBVIOUS
<1>2. c.plan \in Optional(STRING) /\ c.at \in Nat /\ c.kind = "ready" /\ c.id = "grok" /\ c.resets = <<>>
  BY DEF Credits
<1>3. Or(c.plan, plan) \in Optional(STRING)
  BY <1>2 DEF Or
<1>4. merged = [kind |-> c.kind, id |-> c.id, plan |-> Or(c.plan, plan), windows |-> windows,
                at |-> c.at, resets |-> c.resets]
  BY <1>1 DEF Credits
<1>5. windows \in Seq(ShownWindow) /\ <<>> \in Seq(UsageReset)
  BY EmptySeq DEF Distinct
<1>6. merged \in Reading("grok") /\ merged.windows = windows
  BY <1>2, <1>3, <1>4, <1>5 DEF Reading
<1> QED
  BY <1>1, <1>6

LEMMA CreditsAreAReading ==
  ASSUME NEW c \in Credits
  PROVE  c \in Reading("grok") /\ c.windows \in Distinct
<1>1. <<>> \in Seq(ShownWindow) /\ <<>> \in Seq(UsageReset)
  BY EmptySeq
<1> QED
  BY <1>1, EmptyIsDistinct DEF Credits, Reading

LEMMA GrokMonthlyKept ==
  ASSUME Place, Tokens, Judged, Kept, GrokMonthly
  PROVE  Kept'
<1>1. PICK x \in GrokAnswers \cup Exchanges :
        LET answer  == HttpSend(x)
            monthly == GrokResult(answer.body, askedAt)
            merged  == IF monthly.kind = "ready"
                       THEN [credits EXCEPT !.windows = monthly.windows, !.plan = Or(@, monthly.plan)]
                       ELSE credits
        IN  /\ Sent(answer)
            /\ \/ SentAgain(answer)
               \/ Finish(credits)
               \/ Finish(HttpFailure("grok", login, answer, TRUE))
               \/ Success(answer) /\ Finish(merged)
  BY DEF GrokMonthly
<1>2. PICK answer : answer = HttpSend(x)
  OBVIOUS
<1>3. /\ pc = "monthly" /\ provider = "grok" /\ UNCHANGED provider /\ Sent(answer) /\ askedAt \in Nat
      /\ credits \in Credits
  BY <1>1, <1>2 DEF GrokMonthly, Place, Sent, Tokens, Judged
<1>4. CASE SentAgain(answer)
  BY <1>3, <1>4, SentAgainKept
<1>5. CASE Finish(credits)
  BY <1>3, <1>5, CreditsAreAReading, FinishedIsKept DEF Returned
<1>6. CASE Finish(HttpFailure("grok", login, answer, TRUE))
  BY <1>3, <1>6, RequestFails, FailureIsKept
<1>7. PICK monthly : monthly = GrokResult(answer.body, askedAt)
  OBVIOUS
<1>8. CASE /\ Success(answer) /\ monthly.kind = "ready"
           /\ Finish([credits EXCEPT !.windows = monthly.windows, !.plan = Or(@, monthly.plan)])
  <2>1. monthly \in Reading("grok") /\ monthly.windows \in Distinct
    BY <1>2, <1>3, <1>7, <1>8, GrokReturns DEF ErrorResult
  <2>2. monthly.plan \in Optional(STRING)
    BY <2>1 DEF Reading
  <2>3. PICK merged : merged = [credits EXCEPT !.windows = monthly.windows, !.plan = Or(@, monthly.plan)]
    OBVIOUS
  <2>4. merged \in Reading("grok") /\ merged.windows \in Distinct
    BY <1>3, <2>1, <2>2, <2>3, MergedIsAReading
  <2> QED
    BY <1>3, <1>8, <2>3, <2>4, FinishedIsKept DEF Returned
<1> QED
  BY <1>1, <1>2, <1>4, <1>5, <1>6, <1>7, <1>8

LEMMA GrokKept ==
  ASSUME Place, Kept, GrokStart \/ GrokRenewed
  PROVE  Kept'
<1>1. pc \in {"start", "renewing"} /\ provider = "grok" /\ UNCHANGED provider
  BY DEF GrokStart, GrokRenewed, Place
<1>2. CASE Finish(ErrorResult("grok", FALSE))
  BY <1>1, <1>2, EachFails, FailureIsKept
<1>3. ASSUME NEW f \in GrokFiles, f.is # "token", Finish(GrokAuthFailure(f, login)) PROVE Kept'
  BY <1>1, <1>3, FileFails, FailureIsKept
<1>4. CASE Finish(ExpiredGrok)
  BY <1>1, <1>4, EachFails, FailureIsKept DEF ExpiredGrok
<1>5. CASE Await("billing") \/ Await("renewing")
  BY <1>1, <1>5, AwaitedIsKept
<1> QED
  BY <1>2, <1>3, <1>4, <1>5 DEF GrokStart, GrokRenewed

LEMMA CodexKept ==
  ASSUME Server, Place, Clock, Exchanged, Kept, CodexStart \/ CodexExchange \/ CodexAgain \/ CodexOutcome
  PROVE  Kept'
<1>1. provider = "codex" /\ UNCHANGED provider /\ pc # "done"
  BY DEF CodexStart, CodexExchange, CodexAgain, CodexOutcome, CodexUnchanged, collectionVars, Place
<1>2. CASE Finish(ErrorResult("codex", FALSE)) \/ Finish(MissingResult("codex"))
  BY <1>1, <1>2, EachFails, FailureIsKept
<1>3. CASE Await("exchange") \/ Await("retrying")
  BY <1>1, <1>3, AwaitedIsKept
<1>4. CASE CodexStart
  BY <1>2, <1>3, <1>4 DEF CodexStart
<1>5. CASE CodexExchange
  BY <1>1, <1>5 DEF CodexExchange, collectionVars, Kept
<1>6. CASE CodexAgain
  BY <1>3, <1>6 DEF CodexAgain
<1>7. CASE CodexOutcome
  <2>1. outcome' = outcome /\ exchange = "over" /\ Made(outcome)
    BY <1>7 DEF CodexOutcome, Taken, Server
  <2>2. CASE Again("codex", attempt, outcome.tag = "timed_out")
    BY <1>3, <1>7, <2>2 DEF CodexOutcome
  <2>3. CASE ~Again("codex", attempt, outcome.tag = "timed_out")
    <3>1. /\ now' = now + elapsed
          /\ Finish(CASE outcome.tag = "ok" -> CodexResult(outcome.doc, now')
                      [] outcome.tag = "unauthenticated" -> UnauthenticatedResult("codex", login, FALSE)
                      [] OTHER -> ErrorResult("codex", TRUE))
      BY <1>7, <2>3 DEF CodexOutcome
    <3>2. PICK at \in Nat : at = now'
      BY <3>1, ServerAssumption DEF Clock, Server
    <3>3. CASE outcome.tag = "ok"
      <4>1. PICK doc \in CodexRateLimitsDoc : doc = outcome.doc /\ doc # NULL
        BY <2>1, <3>3 DEF Exchanged, Made, Losses
      <4>2. PICK r : r = CodexResult(doc, at)
        OBVIOUS
      <4>3. r \in Reading("codex") /\ (UniqueWindowIds(CodexMainWindows(doc)) => r.windows \in Distinct)
        BY <4>1, <4>2, CodexReads
      <4>4. Finish(r)
        BY <3>1, <3>2, <3>3, <4>1, <4>2
      <4>5. Returned(r, provider, outcome'.doc)
        BY <1>1, <2>1, <4>1, <4>3 DEF Returned
      <4> QED
        BY <1>1, <4>4, <4>5, FinishedIsKept
    <3>4. CASE outcome.tag = "unauthenticated"
      <4>1. Finish(UnauthenticatedResult("codex", login, FALSE))
        BY <3>1, <3>4
      <4> QED
        BY <1>1, <4>1, EachFails, FailureIsKept
    <3>5. CASE outcome.tag \notin {"ok", "unauthenticated"}
      <4>1. Finish(ErrorResult("codex", TRUE))
        BY <3>1, <3>5
      <4> QED
        BY <1>1, <4>1, EachFails, FailureIsKept
    <3> QED
      BY <3>3, <3>4, <3>5
  <2> QED
    BY <2>2, <2>3
<1> QED
  BY <1>4, <1>5, <1>6, <1>7

LEMMA ClaudeStartKept ==
  ASSUME Place, Kept, ClaudeStart
  PROVE  Kept'
<1>1. pc = "start" /\ provider = "claude" /\ UNCHANGED provider
  BY DEF ClaudeStart
<1>2. PICK f \in ClaudeFiles :
        CASE ClaudeCredentials(f, now) = "missing" ->
               Finish(UnauthenticatedResult("claude", login, FALSE)) /\ Because({f.is}) /\ UNCHANGED file
          [] ClaudeCredentials(f, now) = "expired" ->
               Finish(UnauthenticatedResult("claude", login, TRUE)) /\ Because({"expired"}) /\ UNCHANGED file
          [] OTHER ->
               Await(IF Executable("claude", env) THEN "version" ELSE "usage") /\ file' = f /\ UNCHANGED causes
  BY DEF ClaudeStart
<1>3. CASE ClaudeCredentials(f, now) \in {"missing", "expired"}
  <2>1. PICK again \in BOOLEAN : Finish(UnauthenticatedResult("claude", login, again))
    BY <1>2, <1>3
  <2> QED
    BY <1>1, <2>1, EachFails, FailureIsKept
<1>4. CASE ClaudeCredentials(f, now) \notin {"missing", "expired"}
  <2>1. Await(IF Executable("claude", env) THEN "version" ELSE "usage") /\ file' = f
    BY <1>2, <1>4
  <2>2. f.is = "token"
    BY <1>4 DEF ClaudeCredentials
  <2>3. f.plan \in Optional(STRING)
    BY <2>2, InputAssumption
  <2>4. pc' # "done"
    BY <2>1 DEF Await
  <2> QED
    BY <2>1, <2>3, <2>4 DEF Kept
<1> QED
  BY <1>3, <1>4

LEMMA ClaudeUsageKept ==
  ASSUME Place, Clock, Kept, ClaudeUsage
  PROVE  Kept'
<1>1. PICK x \in ClaudeAnswers \cup Exchanges :
        LET answer  == HttpSend(x)
            reading == IF Success(answer) THEN ClaudeResult(answer.body, now', file.plan, login)
                       ELSE IF answer.tag = "ok" /\ answer.status = 429
                       THEN LimitedResult("claude", RetryInstant(answer.retryAfter, now'))
                       ELSE HttpFailure("claude", login, answer, FALSE)
        IN  /\ Sent(answer)
            /\ SentAgain(answer) \/ (Finish(reading) /\ now' = now + answer.took)
  BY DEF ClaudeUsage, Answered
<1>2. PICK answer : answer = HttpSend(x)
  OBVIOUS
<1>3. /\ pc = "usage" /\ provider = "claude" /\ UNCHANGED provider /\ Sent(answer)
      /\ file.plan \in Optional(STRING)
  BY <1>1, <1>2 DEF ClaudeUsage, Sent, Kept
<1>4. CASE SentAgain(answer)
  BY <1>3, <1>4, SentAgainKept
<1>5. CASE Success(answer) /\ Finish(ClaudeResult(answer.body, now', file.plan, login)) /\ now' = now + answer.took
  <2>1. PICK at \in Nat : at = now'
    <3>1. answer.took \in 0..TIMEOUT
      BY <1>2, InputAssumption, RequestTakes
    <3> QED
      BY <1>5, <3>1, AccessAssumption DEF Clock
  <2>2. PICK doc : doc = answer.body
    OBVIOUS
  <2>3. PICK plan \in Optional(STRING) : plan = file.plan
    BY <1>3
  <2>4. PICK r : r = ClaudeResult(doc, at, plan, login)
    OBVIOUS
  <2>5. Finish(r)
    BY <1>5, <2>1, <2>2, <2>3, <2>4
  <2>6. CASE doc = NULL \/ doc.error # NULL \/ doc.error = "token_expired"
    <3>1. r \in {ErrorResult("claude", FALSE), UnauthenticatedResult("claude", login, TRUE)}
      BY <2>4, <2>6 DEF ClaudeResult
    <3> QED
      BY <1>3, <2>5, <3>1, EachFails, FailureIsKept
  <2>7. CASE doc # NULL /\ doc.error = NULL /\ doc.error # "token_expired"
    <3>1. doc = x.body
      BY <1>2, <2>2 DEF HttpSend
    <3>2. doc \in ClaudeUsageDoc
      BY <1>2, <1>5, <2>7, <3>1, InputAssumption, CollectionConstants
    <3>3. r \in Reading("claude") /\ r.windows \in Distinct
      BY <2>4, <2>7, <3>2, ClaudeReads
    <3> QED
      BY <1>3, <2>5, <3>3, FinishedIsKept DEF Returned
  <2> QED
    BY <2>6, <2>7
<1>6. CASE Finish(LimitedResult("claude", RetryInstant(answer.retryAfter, now')))
  BY <1>3, <1>6, EachFails, FailureIsKept
<1>7. CASE Finish(HttpFailure("claude", login, answer, FALSE))
  BY <1>3, <1>7, RequestFails, FailureIsKept
<1> QED
  BY <1>1, <1>2, <1>4, <1>5, <1>6, <1>7

LEMMA AgyKept ==
  ASSUME Place, Clock, Kept, AgyStart \/ AgyReached \/ AgyVersion \/ AgyUsage
  PROVE  Kept'
<1>1. UNCHANGED provider /\ provider = "antigravity" /\ pc # "done"
  BY DEF AgyStart, AgyReached, AgyVersion, AgyUsage, AgyUnchanged, Place
<1>2. ASSUME NEW r, Finish(r), r \in {MissingResult("antigravity"), NetworkResult("antigravity"),
                                      ErrorResult("antigravity", FALSE),
                                      UnauthenticatedResult("antigravity", login, FALSE)}
      PROVE  Kept'
  BY <1>1, <1>2, EachFails, FailureIsKept
<1>3. ASSUME NEW next \in {"reaching", "version", "agy"}, Await(next)
      PROVE  Kept'
  BY <1>1, <1>3, AwaitedIsKept
<1>4. CASE AgyStart
  BY <1>4, <1>2, <1>3 DEF AgyStart
<1>5. CASE AgyReached
  BY <1>5, <1>2, <1>3 DEF AgyReached
<1>6. CASE AgyVersion
  BY <1>6, <1>2, <1>3 DEF AgyVersion
<1>7. CASE AgyUsage
  <2>1. PICK child \in UsageRuns : now' = now + RunProcess(child).took /\ Finish(AntigravityUsage(RunProcess(child), login, now'))
    BY <1>7 DEF AgyUsage
  <2>2. PICK at \in Nat : at = now'
    <3>1. RunProcess(child).took \in 0..TIMEOUT
      BY InputAssumption, ChildTakes
    <3> QED
      BY <2>1, <3>1, AccessAssumption DEF Clock
  <2>3. PICK run : run = RunProcess(child)
    OBVIOUS
  <2>4. PICK r : r = AntigravityUsage(run, login, at)
    OBVIOUS
  <2>5. Finish(r)
    BY <2>1, <2>2, <2>3, <2>4
  <2>6. CASE run.tag = "exit" /\ ~run.out.banner /\ run.code = 0 /\ run.out.doc # NULL /\ run.out.doc.status = "SUCCESS"
    <3>1. child.starts /\ run.out = child.out
      BY <2>3, <2>6 DEF RunProcess
    <3>2. run.out.doc \in AntigravityDoc
      BY <2>6, <3>1, CollectionConstants DEF Optional
    <3>3. r = AntigravityResult(run.out.doc, at)
      BY <2>4, <2>6 DEF AntigravityUsage
    <3>4. r \in Reading("antigravity") /\ r.windows \in Distinct
      BY <2>6, <3>2, <3>3, AntigravityReads
    <3> QED
      BY <1>1, <2>5, <3>4, FinishedIsKept DEF Returned
  <2>7. CASE ~(run.tag = "exit" /\ ~run.out.banner /\ run.code = 0 /\ run.out.doc # NULL /\ run.out.doc.status = "SUCCESS")
    <3>1. r \in {NetworkResult("antigravity"), ErrorResult("antigravity", FALSE),
                 UnauthenticatedResult("antigravity", login, FALSE)}
      BY <2>4, <2>7 DEF AntigravityUsage, AntigravityResult
    <3> QED
      BY <1>2, <2>5, <3>1
  <2> QED
    BY <2>6, <2>7
<1> QED
  BY <1>4, <1>5, <1>6, <1>7

LEMMA NextKept ==
  Server /\ Place /\ Clock /\ Tokens /\ Judged /\ Exchanged /\ Kept /\ [Next]_vars => Kept'
<1> SUFFICES ASSUME Server, Place, Clock, Tokens, Judged, Exchanged, Kept, [Next]_vars PROVE Kept'
  OBVIOUS
<1>1. CASE GrokStart \/ GrokRenewed \/ GrokBilling \/ GrokMonthly
  BY <1>1, GrokKept, GrokFirstKept, GrokMonthlyKept
<1>2. CASE CodexStart \/ CodexExchange \/ CodexAgain \/ CodexOutcome
  BY <1>2, CodexKept
<1>3. CASE ClaudeStart \/ ClaudeUsage
  BY <1>3, ClaudeStartKept, ClaudeUsageKept
<1>4. CASE ClaudeProbed
  BY <1>4 DEF ClaudeProbed, Await, Kept
<1>5. CASE AgyStart \/ AgyReached \/ AgyVersion \/ AgyUsage
  BY <1>5, AgyKept
<1>6. CASE Done \/ UNCHANGED vars
  BY <1>6 DEF Done, vars, collectionVars, serverVars, Kept
<1> QED
  BY <1>1, <1>2, <1>3, <1>4, <1>5, <1>6 DEF Next

---------------------------------------------------------------------------
(* The rows.                                                               *)

\* A row that the document of this provider may hold.
Fit(form, id) == form \in ProviderStatus /\ ValidateSemantics([provider |-> id], <<form>>)

LEMMA ShapedRowFits ==
  ASSUME NEW id, NEW form \in ProviderStatus, form.id = id, ValidateStateShape(form),
         \A k \in DOMAIN form.windows : ValidWindow(form.windows[k])
  PROVE  Fit(form, id)
<1>1. PICK providers : providers = <<form>>
  OBVIOUS
<1>2. Len(providers) = 1 /\ DOMAIN providers = {1} /\ providers[1] = form
  BY <1>1
<1>3. PICK request : request = [provider |-> id]
  OBVIOUS
<1>4. request.provider = id
  BY <1>3
<1>5. ValidateSemantics(request, providers)
  BY <1>2, <1>4 DEF ValidateSemantics
<1> QED
  BY <1>1, <1>3, <1>5 DEF Fit

LEMMA FailureFits ==
  ASSUME NEW id \in ProviderId, NEW state \in Failures, NEW retryable \in BOOLEAN, NEW action \in ActionKind
  PROVE  /\ Fit(Failure(id, state, retryable, action), id)
         /\ Failure(id, state, retryable, action).state = state
         /\ Failure(id, state, retryable, action) # NULL
<1>1. PICK form : form = Failure(id, state, retryable, action)
  OBVIOUS
<1>2. PICK error \in ProviderError : error = [retryable |-> retryable]
  BY DEF ProviderError
<1>3. form = [id |-> id, state |-> state, source |-> NULL, plan |-> NULL, windows |-> <<>>,
              lastSuccessAt |-> NULL, error |-> error, action |-> action, resets |-> <<>>]
  BY <1>1, <1>2 DEF Failure
<1>4. <<>> \in Seq(UsageWindow) /\ <<>> \in Seq(UsageReset) /\ DOMAIN <<>> = {}
  BY EmptySeq
<1>5. form \in ProviderStatus
  BY <1>3, <1>4 DEF ProviderStatus, ProviderState, Optional
<1>6. form.state \notin {"ready", "stale"}
  BY <1>3 DEF Failures
<1>7. error # NULL /\ action # NULL
  BY NullAssumption
<1>8. UniqueWindowIds(form.windows) /\ \A k \in DOMAIN form.windows : ValidWindow(form.windows[k])
  BY <1>3, <1>4 DEF UniqueWindowIds
<1>9. ValidateStateShape(form)
  BY <1>3, <1>6, <1>7, <1>8 DEF ValidateStateShape
<1>10. form.id = id
  BY <1>3
<1> QED
  BY <1>1, <1>3, <1>5, <1>8, <1>9, <1>10, ShapedRowFits, NullAssumption

\* provider_status_from_result(), of a failure.
LEMMA RowOfFailed ==
  ASSUME NEW id \in ProviderId, NEW r, Failed(r, id)
  PROVE  \E state \in Failures, retryable \in BOOLEAN, action \in ActionKind :
           RowOf(r) = Failure(id, state, retryable, action)
<1>1. ASSUME NEW state \in Failures, NEW retryable \in BOOLEAN, NEW action \in ActionKind,
             StatusFromResult(r) = Failure(id, state, retryable, action)
      PROVE  RowOf(r) = Failure(id, state, retryable, action)
  BY <1>1, FailureFits DEF RowOf
<1>2. CASE r = MissingResult(id)
  <2>1. r.kind = "cli_missing" /\ r.id = id
    BY <1>2 DEF MissingResult
  <2>2. PICK retryable \in BOOLEAN : retryable = FALSE
    OBVIOUS
  <2>3. StatusFromResult(r) = Failure(id, "cli_missing", retryable, "view_installation")
    BY <2>1, <2>2, ResultKinds DEF CliMissing
  <2> QED
    BY <2>3, <1>1 DEF Failures, ActionKind
<1>3. ASSUME NEW l \in BOOLEAN, NEW again \in BOOLEAN, r = UnauthenticatedResult(id, l, again)
      PROVE  \E action \in ActionKind : RowOf(r) = Failure(id, "unauthenticated", again, action)
  <2>1. PICK action \in {"login", "view_installation"} : action = IF l THEN "login" ELSE "view_installation"
    OBVIOUS
  <2>2. r.kind = "unauthenticated" /\ r.id = id /\ r.retryable = again /\ r.login = l
    BY <1>3 DEF UnauthenticatedResult
  <2>3. StatusFromResult(r) = Failure(id, "unauthenticated", again, action)
    BY <2>1, <2>2, ResultKinds DEF Unauthenticated
  <2> QED
    BY <2>1, <2>3, <1>1 DEF Failures, ActionKind
<1>4. ASSUME NEW at, r = LimitedResult(id, at) PROVE RowOf(r) = Failure(id, "rate_limited", TRUE, "retry")
  <2>1. r.kind = "rate_limited" /\ r.id = id
    BY <1>4 DEF LimitedResult
  <2>2. StatusFromResult(r) = PassingFailure(id, "rate_limited", TRUE, "retry")
    BY <2>1, Zenon DEF StatusFromResult
  <2>3. StatusFromResult(r) = Failure(id, "rate_limited", TRUE, "retry")
    BY <2>2 DEF PassingFailure
  <2> QED
    BY <2>3, <1>1 DEF Failures, ActionKind
<1>5. CASE r = NetworkResult(id)
  <2>1. r.kind = "network_error" /\ r.id = id
    BY <1>5 DEF NetworkResult
  <2>2. PICK retryable \in BOOLEAN : retryable = TRUE
    OBVIOUS
  <2>3. StatusFromResult(r) = Failure(id, "network_error", retryable, "retry")
    BY <2>1, <2>2, ResultKinds DEF PassingFailure
  <2> QED
    BY <2>3, <1>1 DEF Failures, ActionKind
<1>6. ASSUME NEW again \in BOOLEAN, r = ErrorResult(id, again)
      PROVE  RowOf(r) = Failure(id, "provider_error", again, "retry")
  <2>1. r.kind = "provider_error" /\ r.id = id /\ r.retryable = again
    BY <1>6 DEF ErrorResult
  <2>2. StatusFromResult(r) = Failure(id, "provider_error", again, "retry")
    BY <2>1, ResultKinds DEF ProviderErrorRow
  <2> QED
    BY <2>2, <1>1 DEF Failures, ActionKind
<1> QED
  BY <1>2, <1>3, <1>4, <1>5, <1>6 DEF Failed, Failures, ActionKind

\* The windows that are shown are the document's, and valid.
LEMMA ShownIsUsage ==
  ASSUME \A n \in Int : ToString(n) \in STRING, NEW windows \in Seq(ShownWindow)
  PROVE  windows \in Seq(UsageWindow) /\ \A k \in DOMAIN windows : ValidWindow(windows[k])
<1>1. Part = STRING
  BY DEF Part
<1>2. \A w \in ShownWindow : w \in UsageWindow /\ ValidWindow(w)
  BY <1>1 DEF ShownWindow, UsageWindow, Id
<1>3. windows \in [1..Len(windows) -> ShownWindow] /\ Len(windows) \in Nat
  OBVIOUS
<1>4. windows \in [1..Len(windows) -> UsageWindow]
  BY <1>2, <1>3
<1> QED
  BY <1>2, <1>3, <1>4, IsASeq

\* A row with a reading, from where it comes and in the state it is in.
Told(r, state, source, error, action) ==
  [id |-> r.id, state |-> state, source |-> source, plan |-> r.plan, windows |-> r.windows,
   lastSuccessAt |-> r.at, error |-> error, action |-> action, resets |-> r.resets]

\* The same before the resets are put into it.
Bare(r, state, source, error, action) ==
  [Told(r, state, source, error, action) EXCEPT !.resets = <<>>]

LEMMA ToldFits ==
  ASSUME \A n \in Int : ToString(n) \in STRING, NEW id \in ProviderId,
         NEW r \in Reading(id), r.windows \in Distinct,
         NEW state, NEW source, NEW error, NEW action,
         \/ state = "ready" /\ source \in DataSource /\ error = NULL /\ action = NULL
         \/ state = "stale" /\ source = "cache" /\ error \in ProviderError /\ action = "retry"
  PROVE  /\ Fit(Told(r, state, source, error, action), id)
         /\ WithResets(Bare(r, state, source, error, action), r.resets) = Told(r, state, source, error, action)
         /\ Told(r, state, source, error, action) # NULL
<1>1. PICK form : form = Told(r, state, source, error, action)
  OBVIOUS
<1>2. PICK bare : bare = Bare(r, state, source, error, action)
  OBVIOUS
<1>3. /\ r.id = id /\ r.plan \in Optional(STRING) /\ r.at \in Nat /\ r.resets \in Seq(UsageReset)
      /\ r.windows \in Seq(ShownWindow) /\ UniqueWindowIds(r.windows)
  BY DEF Reading, Distinct
<1>4. r.windows \in Seq(UsageWindow) /\ \A k \in DOMAIN r.windows : ValidWindow(r.windows[k])
  BY <1>3, ShownIsUsage
<1>5. /\ form.id = id /\ form.state = state /\ form.source = source /\ form.windows = r.windows
      /\ form.lastSuccessAt = r.at /\ form.error = error /\ form.action = action
  BY <1>1, <1>3 DEF Told
<1>6. /\ state \in ProviderState /\ source \in Optional(DataSource) /\ error \in Optional(ProviderError)
      /\ action \in Optional(ActionKind) /\ state \notin Failures /\ source # NULL
  BY NullAssumption DEF ProviderState, Optional, DataSource, ActionKind, Failures
<1>7. form \in ProviderStatus
  BY <1>1, <1>3, <1>4, <1>6 DEF Told, ProviderStatus, Optional, Instant
<1>8. <<>> \in Seq(UsageReset)
  BY EmptySeq
<1>9. bare = [id |-> r.id, state |-> state, source |-> source, plan |-> r.plan, windows |-> r.windows,
              lastSuccessAt |-> r.at, error |-> error, action |-> action, resets |-> <<>>]
  BY <1>2 DEF Bare, Told
<1>14. bare \in ProviderStatus
  BY <1>3, <1>4, <1>6, <1>8, <1>9 DEF ProviderStatus, Optional, Instant
<1>15. [bare EXCEPT !.resets = r.resets] = form
  BY <1>1, <1>9 DEF Told
<1>10. r.at # NULL /\ (state = "stale" => error # NULL)
  BY <1>3, NullAssumption
<1>11. ValidateStateShape(form)
  BY <1>3, <1>5, <1>6, <1>10 DEF ValidateStateShape
<1>12. Fit(form, id)
  BY <1>4, <1>5, <1>7, <1>11, ShapedRowFits
<1>13. WithResets(bare, r.resets) = form
  BY <1>14, <1>15, NullAssumption DEF WithResets
<1> QED
  BY <1>1, <1>2, <1>7, <1>12, <1>13, NullAssumption

LEMMA ToldForms ==
  ASSUME \A n \in Int : ToString(n) \in STRING, NEW id \in ProviderId,
         NEW r \in Reading(id), r.windows \in Distinct
  PROVE  /\ RowOf(r) = Told(r, "ready", "live", NULL, NULL)
         /\ ForCacheHit(RowOf(r)) = Told(r, "ready", "cache", NULL, NULL)
         /\ \A error \in ProviderError : RetainAsStale(RowOf(r), error) = Told(r, "stale", "cache", error, "retry")
<1>1. /\ r.kind = "ready" /\ r.id = id /\ r.at \in Nat /\ r.at # NULL /\ UniqueWindowIds(r.windows)
  BY NullAssumption DEF Reading, Distinct
<1>2. ASSUME NEW source \in DataSource
      PROVE  WithResets(Ready(r.id, source, r.plan, r.windows, r.at), r.resets) = Told(r, "ready", source, NULL, NULL)
  <2>1. Ready(r.id, source, r.plan, r.windows, r.at) = Bare(r, "ready", source, NULL, NULL)
    BY <1>1 DEF Ready, Bare, Told
  <2> QED
    BY <2>1, ToldFits
<1>3. RowOf(r) = Told(r, "ready", "live", NULL, NULL)
  <2>1. StatusFromResult(r) = Told(r, "ready", "live", NULL, NULL)
    BY <1>1, <1>2 DEF StatusFromResult, DataSource
  <2>2. Told(r, "ready", "live", NULL, NULL) # NULL
    BY ToldFits DEF DataSource
  <2> QED
    BY <2>1, <2>2 DEF RowOf
<1>4. PICK row0 : row0 = RowOf(r)
  OBVIOUS
<1>5. /\ row0.state = "ready" /\ row0.lastSuccessAt = r.at /\ row0.id = r.id /\ row0.plan = r.plan
      /\ row0.windows = r.windows /\ row0.resets = r.resets
  BY <1>3, <1>4 DEF Told
<1>6. ForCacheHit(row0) = Told(r, "ready", "cache", NULL, NULL)
  BY <1>1, <1>2, <1>5 DEF ForCacheHit, DataSource
<1>7. ASSUME NEW error \in ProviderError
      PROVE  RetainAsStale(row0, error) = Told(r, "stale", "cache", error, "retry")
  <2>1. Stale(r.id, r.plan, r.windows, r.at, error, "retry") = Bare(r, "stale", "cache", error, "retry")
    BY <1>1 DEF Stale, Bare, Told
  <2>2. RetainAsStale(row0, error) = WithResets(Bare(r, "stale", "cache", error, "retry"), r.resets)
    BY <1>1, <1>5, <2>1 DEF RetainAsStale
  <2> QED
    BY <2>2, ToldFits
<1> QED
  BY <1>3, <1>4, <1>6, <1>7

\* Two windows of one id make the reading an error.
LEMMA TwiceIsAnError ==
  ASSUME NEW id \in ProviderId, NEW r \in Reading(id), r.windows \notin Distinct
  PROVE  RowOf(r) = Failure(id, "provider_error", FALSE, "retry")
<1>1. r.kind = "ready" /\ r.id = id /\ ~UniqueWindowIds(r.windows)
  BY DEF Reading, Distinct
<1>2. StatusFromResult(r) = NULL
  BY <1>1 DEF StatusFromResult, Ready, WithResets
<1> QED
  BY <1>1, <1>2 DEF RowOf, ProviderErrorRow

LEMMA FailureForms ==
  ASSUME NEW id \in ProviderId, NEW state \in Failures, NEW retryable \in BOOLEAN, NEW action \in ActionKind,
         NEW form, form = Failure(id, state, retryable, action)
  PROVE  Fit(form, id) /\ ForCacheHit(form) = form /\ form.state # "ready"
<1>1. Fit(form, id) /\ form.state = state
  BY FailureFits
<1>2. state # "ready"
  BY DEF Failures
<1> QED
  BY <1>1, <1>2 DEF ForCacheHit

LEMMA KeptIsSound ==
  ASSUME \A n \in Int : ToString(n) \in STRING, Place, Judged, Kept
  PROVE  RowsAreSound
<1>1. SUFFICES ASSUME row # NULL
               PROVE  LET forms == {row, ForCacheHit(row)} \cup
                            (IF row.state = "ready" THEN {RetainAsStale(row, [retryable |-> TRUE])} ELSE {})
                      IN \A form \in forms : Fit(form, provider)
  BY DEF RowsAreSound, Fit
<1>2. row = RowOf(result) /\ Returned(result, provider, outcome.doc) /\ provider \in ProviderId
  BY <1>1 DEF Judged, Kept, Place
<1>3. ASSUME NEW state \in Failures, NEW retryable \in BOOLEAN, NEW action \in ActionKind,
             row = Failure(provider, state, retryable, action)
      PROVE  Fit(row, provider) /\ ForCacheHit(row) = row /\ row.state # "ready"
  BY <1>2, <1>3, FailureForms
<1>4. CASE Failed(result, provider)
  BY <1>2, <1>3, <1>4, RowOfFailed
<1>5. CASE result \in Reading(provider) /\ result.windows \notin Distinct
  <2>1. row = Failure(provider, "provider_error", FALSE, "retry")
    BY <1>2, <1>5, TwiceIsAnError
  <2>2. Fit(row, provider) /\ ForCacheHit(row) = row /\ row.state # "ready"
    BY <2>1, <1>3 DEF Failures, ActionKind
  <2> QED
    BY <2>2
<1>6. CASE result \in Reading(provider) /\ result.windows \in Distinct
  <2>1. PICK error \in ProviderError : error = [retryable |-> TRUE]
    BY DEF ProviderError
  <2>2. /\ row = Told(result, "ready", "live", NULL, NULL)
        /\ ForCacheHit(row) = Told(result, "ready", "cache", NULL, NULL)
        /\ RetainAsStale(row, error) = Told(result, "stale", "cache", error, "retry")
    BY <1>2, <1>6, ToldForms
  <2>3. Fit(row, provider) /\ Fit(ForCacheHit(row), provider) /\ Fit(RetainAsStale(row, error), provider)
    BY <1>2, <1>6, <2>2, ToldFits DEF DataSource
  <2> QED
    BY <2>1, <2>3
<1> QED
  BY <1>2, <1>4, <1>5, <1>6 DEF Returned

\* What is collected may be shown, from the cache too, and may be kept as
\* stale later, for any documents of a provider's form, any files, exchanges
\* and child processes (provider_status_from_result(), for_cache_hit(),
\* retain_as_stale(), validate_semantics()).  That a number is written as a
\* string is said here: the definition of ToString does not.
THEOREM RowsAreSoundHolds ==
  ASSUME \A n \in Int : ToString(n) \in STRING
  PROVE  Spec => []RowsAreSound
<1>1. Place /\ Judged /\ Kept => RowsAreSound
  BY KeptIsSound
<1> QED
  BY <1>1, InitServer, StepKeepsServer, InitPlace, NextPlace, InitClock, NextClock, InitTokens, NextTokens,
     InitJudged, NextJudged, InitExchanged, NextExchanged, InitKept, NextKept, PTL DEF Spec

LEMMA KeptIsShown ==
  ASSUME \A n \in Int : ToString(n) \in STRING, Place, Judged, Kept
  PROVE  ReadingsAreShown
<1>1. SUFFICES ASSUME row # NULL, result.kind = "ready"
               PROVE  \/ row.state = "ready"
                      \/ provider = "codex" /\ ~UniqueWindowIds(CodexMainWindows(outcome.doc))
  BY DEF ReadingsAreShown
<1>2. row = RowOf(result) /\ Returned(result, provider, outcome.doc) /\ provider \in ProviderId
  BY <1>1 DEF Judged, Kept, Place
<1>3. ~Failed(result, provider)
  BY <1>1 DEF Failed, MissingResult, UnauthenticatedResult, LimitedResult, NetworkResult, ErrorResult
<1>4. CASE result \in Reading(provider) /\ result.windows \in Distinct
  <2>1. row = Told(result, "ready", "live", NULL, NULL)
    BY <1>2, <1>4, ToldForms
  <2> QED
    BY <2>1 DEF Told
<1> QED
  BY <1>2, <1>3, <1>4 DEF Returned

\* A reading is shown unless Codex's main windows are said twice, for any
\* documents, however they repeat a model, a bucket or a product
\* (push_window_unique(), codex_main_windows(), provider_status_from_result()).
THEOREM ReadingsAreShownHolds ==
  ASSUME \A n \in Int : ToString(n) \in STRING
  PROVE  Spec => []ReadingsAreShown
<1>1. Place /\ Judged /\ Kept => ReadingsAreShown
  BY KeptIsShown
<1> QED
  BY <1>1, InitServer, StepKeepsServer, InitPlace, NextPlace, InitClock, NextClock, InitTokens, NextTokens,
     InitJudged, NextJudged, InitExchanged, NextExchanged, InitKept, NextKept, PTL DEF Spec
=============================================================================
