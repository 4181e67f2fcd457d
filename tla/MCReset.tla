------------------------------ MODULE MCReset ------------------------------
(***************************************************************************)
(* What TLC takes ResetClaim's inputs from: two grants whose names         *)
(* sanitize to one id, one of its own, and ids that name nothing.          *)
(***************************************************************************)
EXTENDS ResetClaim

MCGrants == <<<<"spring", "">>, <<"old", "!">>, <<"old", "?">>>>
MCTargets ==
  {<<"cedar-ember", "spring">>, <<"cedar-ember", "old">>, <<"cedar-ember", "none">>, <<"cedar-ember", "long">>,
   <<"juniper-tide">>, <<"codex-credits">>}

MCClaudeFiles == [is : {"missing"}] \cup [is : {"token"}, expires : {NULL, 0}, plan : {NULL}]

Exchange(status) ==
  [ends |-> 0, reached |-> TRUE, broken |-> FALSE, large |-> FALSE, status |-> status, retryAfter |-> NULL, body |-> NULL]

MCExchanges ==
  {Exchange(status) : status \in {200, 302, 403, 429, 500}} \cup
  {[Exchange(200) EXCEPT !.ends = NULL, !.reached = FALSE], [Exchange(200) EXCEPT !.large = TRUE],
   [Exchange(500) EXCEPT !.ends = TIMEOUT]} \cup
  {[Exchange(200) EXCEPT !.body = [error |-> error]] : error \in {"token_expired", "other"}}

MCVersionRuns ==
  [starts : {FALSE}] \cup [starts : {TRUE}, broken : {TRUE}, ends : {1}] \cup
  [starts : {TRUE}, broken : {FALSE}, ends : {0, NULL}, code : {0}, out : {[version |-> NULL]}]
=============================================================================
