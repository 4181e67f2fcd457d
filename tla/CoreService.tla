--------------------------- MODULE CoreService ---------------------------
(***************************************************************************)
(* CoreService.js: the pure helpers the Service keeps its refresh queue    *)
(* and its reset dialog with.  A provider offers at most one claimable     *)
(* reset here, so a reset is named by its provider, and a snapshot is      *)
(* reduced to the set of providers that offer one.                         *)
(***************************************************************************)
EXTENDS FiniteSets, Naturals

CONSTANTS
  Providers,  \* the closed provider set
  NoProvider  \* the empty provider id

ASSUME ProviderAssumption == NoProvider \notin Providers

---------------------------------------------------------------------------
(* The forced targets queued while the status lane is closed.              *)

Pendings == [all: BOOLEAN, ids: SUBSET Providers]

EmptyPending == [all |-> FALSE, ids |-> {}]

PendingIsEmpty(pending) == ~pending.all /\ pending.ids = {}

AllProviders == "all"

UnionForced_LastWins(pending, target) ==
  IF target = AllProviders THEN [all |-> TRUE, ids |-> {}]
  ELSE IF pending.all THEN pending ELSE [all |-> FALSE, ids |-> {target}]
UnionForced_FirstWins(pending, target) ==
  IF ~PendingIsEmpty(pending) THEN pending ELSE [all |-> FALSE, ids |-> {target}]
UnionForced_AllIsAnId(pending, target) == [pending EXCEPT !.ids = @ \cup {target}]

UnionForced(pending, target) ==
  IF target = AllProviders THEN [all |-> TRUE, ids |-> {}]
  ELSE IF pending.all THEN pending
  ELSE [pending EXCEPT !.ids = @ \cup {target}]

\* The one provider a status command names, when there is exactly one.
Requests == [bypass: BOOLEAN, only: Providers \cup {NoProvider}]

StatusArgv(targets) ==
  [bypass |-> ~PendingIsEmpty(targets),
   only   |-> IF ~targets.all /\ Cardinality(targets.ids) = 1
              THEN CHOOSE p \in Providers : targets.ids = {p}
              ELSE NoProvider]

---------------------------------------------------------------------------
(* The reset dialog and the caption of a settled claim.                    *)

ResetOutcomes == {"none", "read", "unconfirmed", "provider_error"}

ResetUis == [confirmOpen: BOOLEAN, provider: Providers \cup {NoProvider}, outcome: ResetOutcomes]

ResetUiIdle == [confirmOpen |-> FALSE, provider |-> NoProvider, outcome |-> "none"]

ResetUiOpenConfirm(p) == [confirmOpen |-> TRUE, provider |-> p, outcome |-> "none"]

ResetUiAwaiting(ui) == [ui EXCEPT !.confirmOpen = FALSE, !.outcome = "none"]

ResetUiSettled(p, outcome) == [confirmOpen |-> FALSE, provider |-> p, outcome |-> outcome]

ResetUiOnClose(ui, laneOccupied) == IF laneOccupied THEN ResetUiAwaiting(ui) ELSE ResetUiIdle

ResetUiAfterSnapshot_KeepsTheDialog(ui, offering) == ui
\* A confirmation whose reset the new snapshot no longer offers is withdrawn.
ResetUiAfterSnapshot(ui, offering) ==
  IF ui.confirmOpen /\ ui.provider \notin offering THEN ResetUiIdle ELSE ui

ResetUiClearOutcome(ui) == IF ui.outcome = "none" THEN ui ELSE ResetUiIdle

\* What a settled claim is shown as: silence may hide an applied claim.
ResetOutcomeFromLane(answer) ==
  CASE answer = "read"       -> "read"
    [] answer = "unreadable" -> "provider_error"
    [] OTHER                 -> "unconfirmed"
==========================================================================
