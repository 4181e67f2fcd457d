--------------------------- MODULE Notifications ---------------------------
(***************************************************************************)
(* notifications/: the evaluation that follows a status collection.  It    *)
(* loads the levels already announced, rearms, and announces what crossed  *)
(* a threshold, saving after each announcement.  Each evaluation is a      *)
(* process of its own, which the Service's deadline may kill at any step.  *)
(*                                                                         *)
(* What a window really is (`ends': when it resets) is kept beside what    *)
(* the provider reports of it, so that the alerts can be judged by it.     *)
(***************************************************************************)
EXTENDS Naturals, Sequences, FiniteSets

CONSTANTS
  Providers,   \* each the set of its windows; windows are numbers, in the order of the envelope
  Evaluators,  \* `status notifications evaluate' processes
  Dateless,    \* the windows reported without a reset
  NoReset,     \* null
  NoReading,   \* nothing is reported of a window
  NoEntry,     \* nothing is saved for a window
  Tolerance,   \* RESET_JITTER_TOLERANCE
  Jitter,      \* bound: how far apart the resets reported of one window lie
  Period,      \* bound: the length of a window
  MayLag,      \* bound: whether a window may be reported live past its reset
  MaxTime      \* bound on the clock

Windows == UNION Providers

ASSUME NotificationsAssumption ==
  /\ Windows \subseteq Nat /\ IsFiniteSet(Windows) /\ Dateless \subseteq Windows
  /\ \A P, Q \in Providers : P # Q => P \cap Q = {}
  /\ Tolerance \in Nat /\ Jitter \in 0..Tolerance
  /\ Period \in Nat /\ Period > Tolerance + Jitter
  /\ MayLag \in BOOLEAN /\ MaxTime \in Nat /\ NoReset \notin Nat

\* NotificationLevel, and 0 for a percentage below the thresholds.
Levels == {1, 2}

Resets == Nat \cup {NoReset}

Reading == [level: {0} \cup Levels, reset: Resets, ends: Nat]
Entry == [level: Levels, reset: Resets]
State == [Windows -> Entry \cup {NoEntry}]

ASSUME NothingAssumption == NoReading \notin Reading /\ NoEntry \notin Entry

VARIABLES
  now,
  ends,      \* when each window really resets
  cache,     \* the last live reading of each window
  file,      \* notification-state-v2.json
  pc,
  at,        \* requested_at of each evaluation
  envelope,  \* what it evaluates: of ready providers, and of whom live
  state,     \* the NotificationState in its memory
  pending,   \* what it has to announce
  heard      \* history: <<window, its end, level>> announced and not rearmed

worldVars == <<now, ends>>
evaluationVars == <<pc, at, envelope, state, pending>>
vars == <<worldVars, cache, file, evaluationVars, heard>>

NoEnvelope == [ready |-> {}, live |-> {}, windows |-> [w \in Windows |-> NoReading]]
NoState == [w \in Windows |-> NoEntry]

Init ==
  /\ now = 0
  /\ ends = [w \in Windows |-> Period]
  /\ cache = [w \in Windows |-> NoReading]
  /\ file = NoState
  /\ pc = [e \in Evaluators |-> "idle"]
  /\ at = [e \in Evaluators |-> 0]
  /\ envelope = [e \in Evaluators |-> NoEnvelope]
  /\ state = [e \in Evaluators |-> NoState]
  /\ pending = [e \in Evaluators |-> <<>>]
  /\ heard = {}

---------------------------------------------------------------------------
(* The rules.                                                              *)

Distance(a, b) == IF a > b THEN a - b ELSE b - a

SameWindow_Always(saved, observed) == TRUE
SameWindow(saved, observed) ==
  \/ saved = NoReset /\ observed = NoReset
  \/ saved # NoReset /\ observed # NoReset /\ Distance(saved, observed) <= Tolerance

\* prune_ready_provider(): a window no longer reported, or over, as far as a
\* live reading can tell.
Pruned_AlsoFromCache(entry, reading, live, time) ==
  entry = NoEntry \/ reading = NoReading \/ (entry.reset # NoReset /\ entry.reset <= time)
Pruned(entry, reading, live, time) ==
  \/ entry = NoEntry
  \/ reading = NoReading
  \/ live /\ entry.reset # NoReset /\ entry.reset <= time

\* What the first save leaves of an entry: one of a provider that is not ready
\* is kept, and one of a window below the thresholds goes.
Rearmed(entry, w, env, time) ==
  IF w \in env.ready /\ (\/ Pruned(entry, env.windows[w], w \in env.live, time)
                         \/ env.windows[w].level = 0)
  THEN NoEntry ELSE entry

\* A new window or a higher level speaks again.
Due_BelowThreshold(entry, reading) ==
  reading # NoReading /\ (entry = NoEntry \/ ~SameWindow(entry.reset, reading.reset) \/ reading.level > entry.level)
Due(entry, reading) ==
  /\ reading # NoReading /\ reading.level # 0
  /\ \/ entry = NoEntry
     \/ ~SameWindow(entry.reset, reading.reset)
     \/ reading.level > entry.level

\* The windows of S in the order of the envelope.
InOrder(S) ==
  CHOOSE s \in [1..Cardinality(S) -> S] : \A i, j \in DOMAIN s : i < j => s[i] < s[j]

---------------------------------------------------------------------------
(* The world.                                                              *)

Tick ==
  /\ now < MaxTime
  /\ now' = now + 1
  /\ UNCHANGED <<ends, cache, file, evaluationVars, heard>>

\* A window starts anew, at its end or before it (a reset was claimed).
Renew(w) ==
  /\ w \notin Dateless /\ ends[w] <= MaxTime
  /\ ends' = [ends EXCEPT ![w] = @ + Period]
  /\ UNCHANGED <<now, cache, file, evaluationVars, heard>>

\* What a provider may answer of a window now.
Readings(w) ==
  {NoReading} \cup
    IF MayLag \/ w \in Dateless \/ ends[w] > now
    THEN {[level |-> l, reset |-> r, ends |-> ends[w]] :
            l \in {0} \cup Levels,
            r \in IF w \in Dateless THEN {NoReset} ELSE ends[w]..(ends[w] + Jitter)}
    ELSE {}

---------------------------------------------------------------------------
(* An evaluation.                                                          *)

\* collect(): the providers asked, those served from the cache, and those that
\* are not ready, which count for nothing.
Collect(e) ==
  /\ pc[e] = "idle"
  /\ \E live \in SUBSET Providers, hits \in SUBSET Providers :
       /\ live \cap hits = {}
       /\ \E fresh \in [UNION live -> UNION {Readings(w) : w \in UNION live}] :
            /\ \A w \in UNION live : fresh[w] \in Readings(w)
            /\ cache' = [w \in Windows |-> IF w \in UNION live THEN fresh[w] ELSE cache[w]]
            /\ envelope' = [envelope EXCEPT ![e] =
                 [ready |-> UNION (live \cup hits), live |-> UNION live, windows |-> cache']]
  /\ at' = [at EXCEPT ![e] = now]
  /\ pc' = [pc EXCEPT ![e] = "loading"]
  /\ UNCHANGED <<worldVars, file, state, pending, heard>>

\* load() and the decisions, from the state as loaded.
Load(e) ==
  LET env == envelope[e]
      left == [w \in Windows |-> Rearmed(file[w], w, env, at[e])]
  IN  /\ pc[e] = "loading"
      /\ state' = [state EXCEPT ![e] = left]
      /\ pending' = [pending EXCEPT ![e] = InOrder({w \in env.ready : Due(left[w], env.windows[w])})]
      /\ pc' = [pc EXCEPT ![e] = "saving"]
      /\ UNCHANGED <<worldVars, cache, file, at, envelope, heard>>

\* Nothing is left of an evaluation that ended.
Done(e) ==
  /\ pc' = [pc EXCEPT ![e] = "idle"]
  /\ at' = [at EXCEPT ![e] = 0]
  /\ envelope' = [envelope EXCEPT ![e] = NoEnvelope]
  /\ state' = [state EXCEPT ![e] = NoState]
  /\ pending' = [pending EXCEPT ![e] = <<>>]

Continue(e, rest) ==
  IF rest = <<>> THEN Done(e)
  ELSE /\ pending' = [pending EXCEPT ![e] = rest]
       /\ pc' = [pc EXCEPT ![e] = "dispatching"]
       /\ UNCHANGED <<at, envelope>>

\* The windows an evaluation sees below the thresholds, or no longer sees.
Recovered(env) == {w \in env.ready : env.windows[w] = NoReading \/ env.windows[w].level = 0}

SaveRearmed_AheadOfDispatch(e) ==
  LET ahead(w) == w \in {pending[e][i] : i \in DOMAIN pending[e]}
      reading(w) == envelope[e].windows[w]
  IN  /\ pc[e] = "saving"
      /\ file' = [w \in Windows |->
                    IF ahead(w) THEN [level |-> reading(w).level, reset |-> reading(w).reset]
                    ELSE state[e][w]]
      /\ heard' = {h \in heard : h[1] \notin Recovered(envelope[e])}
      /\ Continue(e, pending[e])
      /\ pending[e] # <<>> => UNCHANGED state
      /\ UNCHANGED <<worldVars, cache>>
SaveRearmed(e) ==
  /\ pc[e] = "saving"
  /\ file' = state[e]
  /\ heard' = {h \in heard : h[1] \notin Recovered(envelope[e])}
  /\ Continue(e, pending[e])
  /\ pending[e] # <<>> => UNCHANGED state
  /\ UNCHANGED <<worldVars, cache>>

Announced(e) ==
  LET w == Head(pending[e]) IN <<w, envelope[e].windows[w].ends, envelope[e].windows[w].level>>

Dispatch(e) ==
  /\ pc[e] = "dispatching"
  /\ heard' = heard \cup {Announced(e)}
  /\ pc' = [pc EXCEPT ![e] = "recording"]
  /\ UNCHANGED <<worldVars, cache, file, at, envelope, state, pending>>

\* notify-send failed: no later notification in this evaluation.
DispatchFails(e) ==
  /\ pc[e] = "dispatching"
  /\ Done(e)
  /\ UNCHANGED <<worldVars, cache, file, heard>>

\* upsert() and save()
Record(e) ==
  LET w == Head(pending[e])
      reading == envelope[e].windows[w]
      next == [state[e] EXCEPT ![w] = [level |-> reading.level, reset |-> reading.reset]]
  IN  /\ pc[e] = "recording"
      /\ file' = next
      /\ Continue(e, Tail(pending[e]))
      /\ Tail(pending[e]) # <<>> => state' = [state EXCEPT ![e] = next]
      /\ UNCHANGED <<worldVars, cache, heard>>

\* The process is killed, or cannot write: an announcement that was not
\* recorded does not count (NOTIFY-012: it may be repeated).
Kill(e) ==
  /\ pc[e] # "idle"
  /\ heard' = IF pc[e] = "recording" THEN heard \ {Announced(e)} ELSE heard
  /\ Done(e)
  /\ UNCHANGED <<worldVars, cache, file>>

Next ==
  \/ Tick
  \/ \E w \in Windows : Renew(w)
  \/ \E e \in Evaluators :
       \/ Collect(e) \/ Load(e) \/ SaveRearmed(e)
       \/ Dispatch(e) \/ DispatchFails(e) \/ Record(e) \/ Kill(e)

Spec == Init /\ [][Next]_vars

---------------------------------------------------------------------------
TypeOK ==
  /\ now \in Nat /\ ends \in [Windows -> Nat]
  /\ cache \in [Windows -> Reading \cup {NoReading}]
  /\ file \in State
  /\ pc \in [Evaluators -> {"idle", "loading", "saving", "dispatching", "recording"}]
  /\ at \in [Evaluators -> Nat]
  /\ envelope \in [Evaluators -> [ready: SUBSET Windows, live: SUBSET Windows,
                                  windows: [Windows -> Reading \cup {NoReading}]]]
  /\ state \in [Evaluators -> State]
  /\ pending \in [Evaluators -> Seq(Windows)]
  /\ heard \in SUBSET (Windows \X Nat \X Levels)

\* Inside one window an alert is always higher than every alert before it,
\* whatever jitter, cached readings and killed evaluations lie between them,
\* until the window was seen below the thresholds or gone (NOTIFY-002, -003).
AlertsOnlyRise ==
  [][\A e \in Evaluators :
       Dispatch(e) =>
         \A h \in heard :
           h[1] = Announced(e)[1] /\ h[2] = Announced(e)[2] => h[3] < Announced(e)[3]]_vars

\* An evaluation that ends well leaves no reported level unannounced in the
\* window it was reported for: neither an older window's entry nor an
\* evaluation that was killed or failed before it keeps it silent.
EveryCrossingIsAnnounced ==
  [][\A e \in Evaluators :
       (pc[e] = "saving" /\ pending[e] = <<>> /\ SaveRearmed(e)) \/ (Record(e) /\ Tail(pending[e]) = <<>>)
         => \A w \in envelope[e].ready :
              LET r == envelope[e].windows[w] IN
              r # NoReading /\ r.level # 0 =>
                \E h \in heard' : h[1] = w /\ h[2] = r.ends /\ h[3] >= r.level]_vars

\* What is saved was announced (NOTIFY-010), for the window whose reset is
\* saved with it.
EntriesWereAnnounced ==
  \A w \in Windows :
    file[w] # NoEntry =>
      \E h \in heard :
        /\ h[1] = w /\ h[3] = file[w].level
        /\ w \in Dateless \/ file[w].reset \in h[2]..(h[2] + Jitter)
============================================================================
