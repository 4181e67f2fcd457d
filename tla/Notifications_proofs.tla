------------------------ MODULE Notifications_proofs ------------------------
(***************************************************************************)
(* Proofs about Notifications, for any providers, windows and bounds, and  *)
(* evaluations that do not overlap.                                        *)
(***************************************************************************)
EXTENDS Notifications, FiniteSetTheorems, TLAPS

---------------------------------------------------------------------------
(* The order of the announcements.                                         *)

\* Induction on finite sets, for the members of a set of sets.
LEMMA FiniteInduction ==
  ASSUME NEW S, IsFiniteSet(S), NEW G,
         \A X \in SUBSET S : (\A x \in X : X \ {x} \in G) => X \in G
  PROVE  S \in G
<1> DEFINE Bad == {X \in SUBSET S : X \notin G}
<1>1. IsWellFoundedOn(StrictSubsetOrdering(S), SUBSET S)
  BY FS_StrictSubsetOrderingWellFounded, FS_FiniteSubsetsOfFinite
<1>2. SUFFICES ASSUME S \notin G PROVE FALSE
  OBVIOUS
<1>3. Bad \subseteq SUBSET S /\ Bad # {}
  BY <1>2
<1>4. PICK X \in Bad : \A Y \in Bad : <<Y, X>> \notin StrictSubsetOrdering(S)
  <2> HIDE DEF Bad
  <2> QED
    BY <1>1, <1>3, WFMin
<1>5. X \in SUBSET S /\ X \notin G
  OBVIOUS
<1>6. PICK x \in X : X \ {x} \notin G
  BY <1>5
<1>7. X \ {x} \in Bad
  BY <1>5, <1>6
<1>8. <<X \ {x}, X>> \in StrictSubsetOrdering(S)
  BY <1>5, <1>6 DEF StrictSubsetOrdering
<1> QED
  BY <1>4, <1>7, <1>8

\* A finite set of numbers has a greatest one.
LEMMA FiniteGreatest ==
  ASSUME NEW S \in SUBSET Nat, IsFiniteSet(S), S # {}
  PROVE  \E m \in S : \A x \in S : x <= m
<1> DEFINE G == {X \in SUBSET S : X # {} => \E m \in X : \A x \in X : x <= m}
<1>1. ASSUME NEW X \in SUBSET S, \A x \in X : X \ {x} \in G
      PROVE  X \in G
  <2>1. SUFFICES ASSUME X # {} PROVE \E m \in X : \A x \in X : x <= m
    OBVIOUS
  <2>2. PICK y \in X : TRUE
    BY <2>1
  <2>3. CASE X \ {y} = {}
    <3>1. \A x \in X : x = y /\ x \in Nat
      BY <2>3
    <3> QED
      BY <2>2, <3>1
  <2>4. CASE X \ {y} # {}
    <3>1. PICK m \in X \ {y} : \A x \in X \ {y} : x <= m
      BY <1>1, <2>2, <2>4
    <3>2. m \in Nat /\ y \in Nat /\ X \subseteq Nat
      BY <2>2, <3>1
    <3>3. CASE y <= m
      BY <2>2, <3>1, <3>3
    <3>4. CASE m <= y
      BY <2>2, <3>1, <3>2, <3>4
    <3> QED
      BY <3>2, <3>3, <3>4
  <2> QED
    BY <2>3, <2>4
<1>2. S \in G
  <2> HIDE DEF G
  <2> QED
    BY <1>1, FiniteInduction
<1> QED
  BY <1>2

\* A list of the members of X, from the least to the greatest.
IsInOrder(s, X) ==
  /\ s \in [1..Cardinality(X) -> X]
  /\ \A i, j \in 1..Cardinality(X) : i < j => s[i] < s[j]

LEMMA OrderExists ==
  ASSUME NEW S \in SUBSET Nat, IsFiniteSet(S)
  PROVE  \E s : IsInOrder(s, S)
<1> DEFINE G == {X \in SUBSET S : \E s : IsInOrder(s, X)}
<1>1. ASSUME NEW X \in SUBSET S, \A x \in X : X \ {x} \in G
      PROVE  X \in G
  <2>1. IsFiniteSet(X)
    BY FS_Subset
  <2>2. CASE X = {}
    <3>1. Cardinality(X) = 0
      BY <2>2, FS_EmptySet
    <3>2. PICK s : s = [i \in 1..0 |-> i]
      OBVIOUS
    <3>3. s \in [1..0 -> X] /\ \A i, j \in 1..0 : i < j => s[i] < s[j]
      BY <3>2
    <3>4. IsInOrder(s, X)
      BY <3>1, <3>3 DEF IsInOrder
    <3> QED
      BY <3>4
  <2>3. CASE X # {}
    <3>1. X \in SUBSET Nat
      OBVIOUS
    <3>2. PICK m \in X : \A x \in X : x <= m
      BY <2>1, <2>3, <3>1, FiniteGreatest
    <3>3. PICK n \in Nat : n = Cardinality(X \ {m})
      BY <2>1, FS_RemoveElement, FS_CardinalityType
    <3>4. Cardinality(X) = n + 1
      <4>1. Cardinality(X) \in Nat
        BY <2>1, FS_CardinalityType
      <4>2. Cardinality(X \ {m}) = Cardinality(X) - 1
        BY <2>1, <3>2, FS_RemoveElement
      <4> QED
        BY <3>3, <4>1, <4>2
    <3>5. PICK s : IsInOrder(s, X \ {m})
      BY <1>1, <3>2
    <3>6. s \in [1..n -> X \ {m}] /\ \A i, j \in 1..n : i < j => s[i] < s[j]
      BY <3>3, <3>5 DEF IsInOrder
    <3>7. PICK t : t = [i \in 1..(n + 1) |-> IF i = n + 1 THEN m ELSE s[i]]
      OBVIOUS
    <3>8. \A i \in 1..(n + 1) : i = n + 1 \/ i \in 1..n
      BY <3>3
    <3>9. \A i \in 1..n : i \in 1..(n + 1) /\ i # n + 1
      BY <3>3
    <3>10. \A i \in 1..n : t[i] = s[i] /\ s[i] \in X /\ s[i] # m
      BY <3>6, <3>7, <3>9
    <3>11. n + 1 \in 1..(n + 1) /\ t[n + 1] = m
      BY <3>3, <3>7
    <3>12. t \in [1..(n + 1) -> X]
      BY <3>6, <3>7, <3>8
    <3>13. ASSUME NEW i \in 1..(n + 1), NEW j \in 1..(n + 1), i < j PROVE t[i] < t[j]
      <4>1. i \in 1..n
        BY <3>3, <3>13
      <4>2. CASE j = n + 1
        <5>1. t[i] \in Nat /\ t[i] <= m /\ t[i] # m /\ m \in Nat
          BY <3>1, <3>2, <3>10, <4>1
        <5> QED
          BY <3>11, <4>2, <5>1
      <4>3. CASE j \in 1..n
        BY <3>6, <3>10, <3>13, <4>1, <4>3
      <4> QED
        BY <3>8, <4>2, <4>3
    <3>14. IsInOrder(t, X)
      BY <3>4, <3>12, <3>13 DEF IsInOrder
    <3> QED
      BY <3>14
  <2> QED
    BY <2>2, <2>3
<1>2. S \in G
  <2> HIDE DEF G
  <2> QED
    BY <1>1, FiniteInduction
<1> QED
  BY <1>2

\* Every member of S is announced once.
LEMMA InOrderLists ==
  ASSUME NEW S \in SUBSET Nat, IsFiniteSet(S), NEW s, s = InOrder(S)
  PROVE  /\ s \in Seq(S)
         /\ \A w \in S : \E i \in 1..Len(s) : s[i] = w
         /\ \A i, j \in 1..Len(s) : s[i] = s[j] => i = j
<1>1. PICK n \in Nat : n = Cardinality(S)
  BY FS_CardinalityType
<1>2. \E t \in [1..n -> S] : \A i, j \in DOMAIN t : i < j => t[i] < t[j]
  BY <1>1, OrderExists DEF IsInOrder
<1>3. s = CHOOSE t \in [1..n -> S] : \A i, j \in DOMAIN t : i < j => t[i] < t[j]
  BY <1>1 DEF InOrder
<1>4. s \in [1..n -> S] /\ \A i, j \in DOMAIN s : i < j => s[i] < s[j]
  BY <1>2, <1>3
<1>5. \A i, j \in 1..n : i < j => s[i] < s[j]
  BY <1>4
<1>6. s \in Seq(S) /\ Len(s) = n
  BY <1>4
<1>7. ASSUME NEW i \in 1..n, NEW j \in 1..n, s[i] = s[j] PROVE i = j
  <2>1. s[i] \in S /\ s[j] \in S /\ S \subseteq Nat
    BY <1>4
  <2>2. /\ s[i] \in Nat /\ s[j] \in Nat
        /\ i \in Nat /\ j \in Nat
    <3>1. \A x \in S : x \in Nat
      OBVIOUS
    <3>2. \A k \in 1..n : k \in Nat
      BY <1>1
    <3> QED
      BY <2>1, <3>1, <3>2
  <2>3. ~(i < j) /\ ~(j < i)
    BY <1>5, <1>7, <2>2
  <2> QED
    BY <2>2, <2>3
<1>8. s \in Injection(1..n, S)
  BY <1>4, <1>7 DEF Injection, IsInjective
<1>9. IsFiniteSet(1..n) /\ Cardinality(1..n) = n
  BY <1>1, FS_Interval
<1>10. s \in Surjection(1..n, S)
  BY <1>1, <1>8, <1>9, FS_Injection
<1>11. \A w \in S : \E i \in 1..n : s[i] = w
  BY <1>10 DEF Surjection
<1> QED
  BY <1>6, <1>7, <1>11

---------------------------------------------------------------------------
(* The inductive invariant, for evaluations one at a time and readings of  *)
(* windows that are not over.                                              *)

OneEvaluation == \A e, f \in Evaluators : e = f

\* The resets reported of the window of w that ends at `end'.
Matches(reset, w, end) ==
  IF w \in Dateless THEN reset = NoReset /\ end = Period
  ELSE reset \in Nat /\ end <= reset /\ reset <= end + Jitter

\* Two windows of one kind, the earlier one first.
Spaced(a, b) == a = b \/ a + Period <= b

\* The latest window of w an evaluation may know of.
Latest(w) == IF cache[w] = NoReading THEN ends[w] ELSE cache[w].ends

WorldOK ==
  \A w \in Windows :
    /\ w \in Dateless => ends[w] = Period
    /\ cache[w] # NoReading =>
         Spaced(cache[w].ends, ends[w]) /\ Matches(cache[w].reset, w, cache[w].ends)

HeardOK ==
  \A h \in heard : Spaced(h[2], Latest(h[1])) /\ (h[1] \in Dateless => h[2] = Period)

\* What an evaluation knows is what is cached: no other one is collecting.
KnownOK(e) ==
  pc[e] # "idle" =>
    /\ envelope[e].windows = cache
    /\ \A w \in envelope[e].live :
         cache[w] = NoReading \/ w \in Dateless \/ cache[w].ends > at[e]

\* What an evaluation has in memory of the entries.
MemoryOK(e) ==
  /\ pc[e] = "saving" =>
       state[e] = [w \in Windows |-> Rearmed(file[w], w, envelope[e], at[e])]
  /\ pc[e] \in {"dispatching", "recording"} => state[e] = file /\ pending[e] # <<>>

\* What a list has, each once.
Lists(s, w) == \E i \in 1..Len(s) : s[i] = w
Once(s) == \A i, j \in 1..Len(s) : s[i] = s[j] => i = j

\* It has to announce what is due, once.
PendingOK(e) ==
  pc[e] \in {"saving", "dispatching", "recording"} =>
    /\ pending[e] \in Seq(envelope[e].ready)
    /\ Once(pending[e])
    /\ \A w \in envelope[e].ready :
         Due(state[e][w], envelope[e].windows[w]) <=> Lists(pending[e], w)

AnnouncedOK(e) == pc[e] = "recording" => Announced(e) \in heard

\* Whatever was announced of the latest window keeps lower alerts silent.
Covered(h) ==
  \/ \E e \in Evaluators : pc[e] = "recording" /\ h = Announced(e)
  \/ h[2] < Latest(h[1])
  \/ /\ file[h[1]] # NoEntry
     /\ file[h[1]].level >= h[3]
     /\ Matches(file[h[1]].reset, h[1], h[2])

\* Whatever is saved was announced.
Backed(w) ==
  file[w] # NoEntry =>
    \E h \in heard : h[1] = w /\ h[3] = file[w].level /\ Matches(file[w].reset, w, h[2])

EvaluationOK(e) == KnownOK(e) /\ MemoryOK(e) /\ PendingOK(e) /\ AnnouncedOK(e)

IInv ==
  /\ TypeOK /\ WorldOK /\ HeardOK
  /\ \A e \in Evaluators : EvaluationOK(e)
  /\ \A h \in heard : Covered(h)
  /\ \A w \in Windows : Backed(w)

---------------------------------------------------------------------------
(* Types.                                                                  *)

LEMMA ReadingsAreReadings ==
  ASSUME TypeOK, NEW w \in Windows, NEW r \in Readings(w), r # NoReading
  PROVE  /\ r \in Reading /\ r.ends = ends[w]
         /\ (w \in Dateless => ends[w] = Period) => Matches(r.reset, w, r.ends)
         /\ MayLag \/ w \in Dateless \/ r.ends > now
<1>1. ends[w] \in Nat /\ Jitter \in Nat /\ now \in Nat
  BY NotificationsAssumption DEF TypeOK
<1>2. MayLag \/ w \in Dateless \/ ends[w] > now
  BY DEF Readings
<1>3. PICK l \in {0} \cup Levels,
           reset \in IF w \in Dateless THEN {NoReset} ELSE ends[w]..(ends[w] + Jitter) :
        r = [level |-> l, reset |-> reset, ends |-> ends[w]]
  BY DEF Readings
<1>4. r.level = l /\ r.reset = reset /\ r.ends = ends[w]
  BY <1>3
<1>5. reset \in Resets
  BY <1>1 DEF Resets
<1>6. r \in Reading
  BY <1>1, <1>3, <1>5 DEF Reading
<1>7. (w \in Dateless => ends[w] = Period) => Matches(reset, w, ends[w])
  BY <1>1 DEF Matches
<1> QED
  BY <1>2, <1>4, <1>6, <1>7

LEMMA WindowsAreFinite ==
  /\ Windows \subseteq Nat
  /\ IsFiniteSet(Windows)
  /\ \A S \in SUBSET Windows : S \in SUBSET Nat /\ IsFiniteSet(S)
BY NotificationsAssumption, FS_Subset

\* The part an evaluation that ends leaves.
LEMMA DoneTypes ==
  ASSUME TypeOK, NEW e \in Evaluators, Done(e)
  PROVE  /\ pc' \in [Evaluators -> {"idle", "loading", "saving", "dispatching", "recording"}]
         /\ at' \in [Evaluators -> Nat]
         /\ envelope' \in [Evaluators -> [ready: SUBSET Windows, live: SUBSET Windows,
                                          windows: [Windows -> Reading \cup {NoReading}]]]
         /\ state' \in [Evaluators -> State]
         /\ pending' \in [Evaluators -> Seq(Windows)]
<1>1. NoState \in State
  BY DEF NoState, State
<1>2. NoEnvelope \in [ready: SUBSET Windows, live: SUBSET Windows,
                      windows: [Windows -> Reading \cup {NoReading}]]
  BY DEF NoEnvelope
<1>3. <<>> \in Seq(Windows)
  OBVIOUS
<1> QED
  BY <1>1, <1>2, <1>3 DEF Done, TypeOK

LEMMA ContinueTypes ==
  ASSUME TypeOK, NEW e \in Evaluators, NEW rest \in Seq(Windows), Continue(e, rest),
         rest # <<>> => state' \in [Evaluators -> State]
  PROVE  /\ pc' \in [Evaluators -> {"idle", "loading", "saving", "dispatching", "recording"}]
         /\ at' \in [Evaluators -> Nat]
         /\ envelope' \in [Evaluators -> [ready: SUBSET Windows, live: SUBSET Windows,
                                          windows: [Windows -> Reading \cup {NoReading}]]]
         /\ state' \in [Evaluators -> State]
         /\ pending' \in [Evaluators -> Seq(Windows)]
<1>1. CASE rest = <<>>
  <2>1. Done(e)
    BY <1>1 DEF Continue
  <2> QED
    BY <2>1, DoneTypes
<1>2. CASE rest # <<>>
  <2>1. /\ pending' = [pending EXCEPT ![e] = rest] /\ pc' = [pc EXCEPT ![e] = "dispatching"]
        /\ UNCHANGED <<at, envelope>>
    BY <1>2 DEF Continue
  <2>2. pc' \in [Evaluators -> {"idle", "loading", "saving", "dispatching", "recording"}]
    BY <2>1 DEF TypeOK
  <2>3. pending' \in [Evaluators -> Seq(Windows)]
    BY <2>1 DEF TypeOK
  <2> QED
    BY <1>2, <2>1, <2>2, <2>3 DEF TypeOK
<1> QED
  BY <1>1, <1>2

\* What an evaluation has to announce, it has a reading of.
LEMMA HeadIsAReading ==
  ASSUME TypeOK, NEW e \in Evaluators, PendingOK(e), pending[e] # <<>>,
         pc[e] \in {"dispatching", "recording"}
  PROVE  /\ Head(pending[e]) \in envelope[e].ready
         /\ Head(pending[e]) \in Windows
         /\ Due(state[e][Head(pending[e])], envelope[e].windows[Head(pending[e])])
         /\ envelope[e].windows[Head(pending[e])] \in Reading
         /\ envelope[e].windows[Head(pending[e])].level \in Levels
<1>1. pending[e] \in Seq(envelope[e].ready) /\ envelope[e].ready \subseteq Windows
  BY DEF PendingOK, TypeOK
<1>2. Len(pending[e]) > 0 /\ 1 \in 1..Len(pending[e]) /\ Head(pending[e]) = pending[e][1]
  BY <1>1
<1>3. Head(pending[e]) \in envelope[e].ready
  BY <1>1, <1>2
<1>4. PICK w \in Windows : w = Head(pending[e])
  BY <1>1, <1>3
<1>5. Due(state[e][w], envelope[e].windows[w])
  BY <1>2, <1>3, <1>4 DEF PendingOK, Lists
<1>6. envelope[e].windows[w] # NoReading /\ envelope[e].windows[w].level # 0
  BY <1>5 DEF Due
<1>7. envelope[e].windows[w] \in Reading
  <2>1. envelope[e].windows \in [Windows -> Reading \cup {NoReading}]
    BY DEF TypeOK
  <2> QED
    BY <1>6, <2>1
<1>8. envelope[e].windows[w].level \in Levels
  BY <1>6, <1>7 DEF Reading
<1> QED
  BY <1>3, <1>4, <1>5, <1>7, <1>8

\* The entry of an announcement.
EntryOf(reading) == [level |-> reading.level, reset |-> reading.reset]

LEMMA RecordedState ==
  ASSUME TypeOK, NEW e \in Evaluators, EvaluationOK(e), pc[e] = "recording",
         NEW next, next = [state[e] EXCEPT ![Head(pending[e])] =
                             EntryOf(envelope[e].windows[Head(pending[e])])]
  PROVE  next \in State
<1>1. pending[e] # <<>> /\ PendingOK(e)
  BY DEF EvaluationOK, MemoryOK
<1>2. PICK r \in Reading : r = envelope[e].windows[Head(pending[e])] /\ r.level \in Levels
  BY <1>1, HeadIsAReading
<1>3. EntryOf(r) \in Entry
  BY <1>2 DEF Entry, EntryOf, Reading
<1>4. state[e] \in State
  BY DEF TypeOK
<1> QED
  BY <1>2, <1>3, <1>4 DEF State

LEMMA CollectTypes ==
  ASSUME TypeOK, NEW e \in Evaluators, Collect(e)
  PROVE  TypeOK'
<1>0. PICK live \in SUBSET Providers, hits \in SUBSET Providers :
        \E fresh \in [UNION live -> UNION {Readings(w) : w \in UNION live}] :
          /\ \A w \in UNION live : fresh[w] \in Readings(w)
          /\ cache' = [w \in Windows |-> IF w \in UNION live THEN fresh[w] ELSE cache[w]]
          /\ envelope' = [envelope EXCEPT ![e] =
               [ready |-> UNION (live \cup hits), live |-> UNION live, windows |-> cache']]
  BY DEF Collect
<1>1. PICK fresh \in [UNION live -> UNION {Readings(w) : w \in UNION live}] :
        /\ \A w \in UNION live : fresh[w] \in Readings(w)
        /\ cache' = [w \in Windows |-> IF w \in UNION live THEN fresh[w] ELSE cache[w]]
        /\ envelope' = [envelope EXCEPT ![e] =
             [ready |-> UNION (live \cup hits), live |-> UNION live, windows |-> cache']]
  BY <1>0
<1>2. UNION live \subseteq Windows /\ UNION (live \cup hits) \subseteq Windows
  BY DEF Windows
<1>3. \A w \in UNION live : fresh[w] \in Reading \cup {NoReading}
  BY <1>1, <1>2, ReadingsAreReadings
<1>4. cache' \in [Windows -> Reading \cup {NoReading}]
  BY <1>1, <1>3 DEF TypeOK
<1>5. [ready |-> UNION (live \cup hits), live |-> UNION live, windows |-> cache']
        \in [ready: SUBSET Windows, live: SUBSET Windows,
             windows: [Windows -> Reading \cup {NoReading}]]
  BY <1>2, <1>4
<1>6. envelope' \in [Evaluators -> [ready: SUBSET Windows, live: SUBSET Windows,
                                    windows: [Windows -> Reading \cup {NoReading}]]]
  BY <1>1, <1>5 DEF TypeOK
<1>7. /\ at' \in [Evaluators -> Nat]
      /\ pc' \in [Evaluators -> {"idle", "loading", "saving", "dispatching", "recording"}]
  BY DEF Collect, TypeOK
<1>8. /\ now' \in Nat /\ ends' \in [Windows -> Nat] /\ file' \in State
      /\ state' \in [Evaluators -> State] /\ pending' \in [Evaluators -> Seq(Windows)]
      /\ heard' \in SUBSET (Windows \X Nat \X Levels)
  BY DEF Collect, TypeOK, worldVars
<1> QED
  BY <1>4, <1>6, <1>7, <1>8 DEF TypeOK

LEMMA LoadTypes ==
  ASSUME TypeOK, NEW e \in Evaluators, Load(e)
  PROVE  TypeOK'
<1> DEFINE left == [w \in Windows |-> Rearmed(file[w], w, envelope[e], at[e])]
           due == {w \in envelope[e].ready : Due(left[w], envelope[e].windows[w])}
<1>1. left \in State
  BY DEF TypeOK, State, Rearmed
<1>2. envelope[e].ready \subseteq Windows
  BY DEF TypeOK
<1>3. due \in SUBSET Windows
  BY <1>2
<1>4. /\ state' = [state EXCEPT ![e] = left]
      /\ pending' = [pending EXCEPT ![e] = InOrder(due)]
      /\ pc' = [pc EXCEPT ![e] = "saving"]
      /\ UNCHANGED <<worldVars, cache, file, at, envelope, heard>>
  BY DEF Load
<1> HIDE DEF left, due
<1>5. InOrder(due) \in Seq(due)
  BY <1>3, WindowsAreFinite, InOrderLists
<1>6. InOrder(due) \in Seq(Windows)
  BY <1>3, <1>5
<1>7. /\ state' \in [Evaluators -> State] /\ pending' \in [Evaluators -> Seq(Windows)]
      /\ pc' \in [Evaluators -> {"idle", "loading", "saving", "dispatching", "recording"}]
  BY <1>1, <1>4, <1>6 DEF TypeOK
<1> QED
  BY <1>4, <1>7 DEF TypeOK, worldVars

LEMMA SaveRearmedTypes ==
  ASSUME TypeOK, NEW e \in Evaluators, SaveRearmed(e)
  PROVE  TypeOK'
<1>1. pending[e] \in Seq(Windows) /\ Continue(e, pending[e])
  BY DEF SaveRearmed, TypeOK
<1>2. pending[e] # <<>> => state' \in [Evaluators -> State]
  BY DEF SaveRearmed, TypeOK
<1>3. /\ now' \in Nat /\ ends' \in [Windows -> Nat]
      /\ cache' \in [Windows -> Reading \cup {NoReading}]
      /\ file' \in State
  BY DEF SaveRearmed, TypeOK, worldVars
<1>4. heard' \in SUBSET (Windows \X Nat \X Levels)
  BY DEF SaveRearmed, TypeOK
<1> QED
  BY <1>1, <1>2, <1>3, <1>4, ContinueTypes DEF TypeOK

LEMMA RecordTypes ==
  ASSUME TypeOK, NEW e \in Evaluators, EvaluationOK(e), Record(e)
  PROVE  TypeOK'
<1>1. PICK next : next = [state[e] EXCEPT ![Head(pending[e])] =
                            EntryOf(envelope[e].windows[Head(pending[e])])]
  OBVIOUS
<1>2. /\ pc[e] = "recording" /\ file' = next /\ Continue(e, Tail(pending[e]))
      /\ Tail(pending[e]) # <<>> => state' = [state EXCEPT ![e] = next]
      /\ UNCHANGED <<worldVars, cache, heard>>
  BY <1>1 DEF Record, EntryOf
<1>3. next \in State
  BY <1>1, <1>2, RecordedState
<1>4. pending[e] \in Seq(Windows) /\ pending[e] # <<>>
  BY <1>2 DEF TypeOK, EvaluationOK, MemoryOK
<1>5. Tail(pending[e]) \in Seq(Windows)
  BY <1>4
<1>6. Tail(pending[e]) # <<>> => state' \in [Evaluators -> State]
  BY <1>2, <1>3 DEF TypeOK
<1>7. /\ now' \in Nat /\ ends' \in [Windows -> Nat]
      /\ cache' \in [Windows -> Reading \cup {NoReading}]
      /\ file' \in State /\ heard' \in SUBSET (Windows \X Nat \X Levels)
  BY <1>2, <1>3 DEF TypeOK, worldVars
<1> QED
  BY <1>2, <1>5, <1>6, <1>7, ContinueTypes DEF TypeOK

LEMMA DispatchTypes ==
  ASSUME TypeOK, NEW e \in Evaluators, EvaluationOK(e), Dispatch(e)
  PROVE  TypeOK'
<1>1. pc[e] = "dispatching" /\ heard' = heard \cup {Announced(e)}
  BY DEF Dispatch
<1>2. pending[e] # <<>> /\ PendingOK(e)
  BY <1>1 DEF EvaluationOK, MemoryOK
<1>3. PICK w \in Windows, r \in Reading :
        w = Head(pending[e]) /\ r = envelope[e].windows[w] /\ r.level \in Levels
  BY <1>1, <1>2, HeadIsAReading
<1>4. Announced(e) = <<w, r.ends, r.level>> /\ r.ends \in Nat
  BY <1>3 DEF Announced, Reading
<1>5. heard' \in SUBSET (Windows \X Nat \X Levels)
  BY <1>1, <1>3, <1>4 DEF TypeOK
<1>6. /\ pc' = [pc EXCEPT ![e] = "recording"]
      /\ UNCHANGED <<now, ends, cache, file, at, envelope, state, pending>>
  BY DEF Dispatch, worldVars
<1>7. pc' \in [Evaluators -> {"idle", "loading", "saving", "dispatching", "recording"}]
  BY <1>6 DEF TypeOK
<1> QED
  BY <1>5, <1>6, <1>7 DEF TypeOK

LEMMA TypesKept ==
  ASSUME TypeOK, \A e \in Evaluators : EvaluationOK(e), [Next]_vars
  PROVE  TypeOK'
<1>1. CASE Tick
  BY <1>1 DEF Tick, TypeOK, evaluationVars
<1>2. ASSUME NEW w \in Windows, Renew(w) PROVE TypeOK'
  <2>1. ends[w] + Period \in Nat
    BY NotificationsAssumption DEF TypeOK
  <2>2. ends' \in [Windows -> Nat]
    BY <1>2, <2>1 DEF Renew, TypeOK
  <2> QED
    BY <1>2, <2>2 DEF Renew, TypeOK, evaluationVars
<1>3. ASSUME NEW e \in Evaluators, DispatchFails(e) PROVE TypeOK'
  <2>1. Done(e) /\ UNCHANGED <<worldVars, cache, file, heard>>
    BY <1>3 DEF DispatchFails
  <2> QED
    BY <2>1, DoneTypes DEF TypeOK, worldVars
<1>4. ASSUME NEW e \in Evaluators, Kill(e) PROVE TypeOK'
  <2>1. Done(e) /\ UNCHANGED <<worldVars, cache, file>> /\ heard' \subseteq heard
    BY <1>4 DEF Kill
  <2> QED
    BY <2>1, DoneTypes DEF TypeOK, worldVars
<1>5. CASE UNCHANGED vars
  BY <1>5 DEF vars, worldVars, evaluationVars, TypeOK
<1> QED
  BY <1>1, <1>2, <1>3, <1>4, <1>5, CollectTypes, LoadTypes, SaveRearmedTypes, RecordTypes,
     DispatchTypes DEF Next

---------------------------------------------------------------------------
(* The windows move forward.                                               *)

LEMMA LatestIsKnown ==
  ASSUME TypeOK, WorldOK, NEW w \in Windows
  PROVE  Latest(w) \in Nat /\ ends[w] \in Nat /\ Spaced(Latest(w), ends[w])
<1>1. ends[w] \in Nat
  BY DEF TypeOK
<1>2. CASE cache[w] = NoReading
  BY <1>1, <1>2 DEF Latest, Spaced
<1>3. CASE cache[w] # NoReading
  <2>1. cache[w] \in Reading
    BY <1>3 DEF TypeOK
  <2>2. cache[w].ends \in Nat
    BY <2>1 DEF Reading
  <2>3. Spaced(cache[w].ends, ends[w])
    BY <1>3 DEF WorldOK
  <2> QED
    BY <1>1, <1>3, <2>2, <2>3 DEF Latest
<1> QED
  BY <1>2, <1>3

LEMMA SpacedTransitive ==
  ASSUME NEW a \in Nat, NEW b \in Nat, NEW c \in Nat, Spaced(a, b), Spaced(b, c)
  PROVE  Spaced(a, c) /\ a <= c
BY NotificationsAssumption DEF Spaced

LEMMA HeardTypes ==
  ASSUME TypeOK, NEW h \in heard
  PROVE  h[1] \in Windows /\ h[2] \in Nat /\ h[3] \in Levels /\ h[3] \in Nat
         /\ h = <<h[1], h[2], h[3]>>
BY DEF TypeOK, Levels

LEMMA LatestIsANumberNext ==
  ASSUME TypeOK', NEW w \in Windows
  PROVE  Latest(w)' \in Nat
<1>1. ends'[w] \in Nat /\ cache'[w] \in Reading \cup {NoReading}
  BY DEF TypeOK
<1>2. cache'[w] # NoReading => cache'[w].ends \in Nat
  BY <1>1 DEF Reading
<1> QED
  BY <1>1, <1>2 DEF Latest

LEMMA HeardKept ==
  ASSUME TypeOK, TypeOK', WorldOK, HeardOK, heard' \subseteq heard,
         \A w \in Windows : Spaced(Latest(w), Latest(w)')
  PROVE  HeardOK'
<1>1. ASSUME NEW h \in heard'
      PROVE  Spaced(h[2], Latest(h[1])') /\ (h[1] \in Dateless => h[2] = Period)
  <2>1. h \in heard
    BY <1>1
  <2>2. PICK w \in Windows : w = h[1] /\ h[2] \in Nat
    BY <2>1, HeardTypes
  <2>3. Latest(w) \in Nat /\ Latest(w)' \in Nat
    BY LatestIsKnown, LatestIsANumberNext
  <2>4. Spaced(h[2], Latest(w)) /\ (w \in Dateless => h[2] = Period)
    BY <2>1, <2>2 DEF HeardOK
  <2>5. Spaced(h[2], Latest(w)')
    BY <2>2, <2>3, <2>4, SpacedTransitive
  <2> QED
    BY <2>2, <2>4, <2>5
<1> QED
  BY <1>1 DEF HeardOK

\* An alert no evaluation is recording stays covered while its entry stays.
LEMMA CoveredKept ==
  ASSUME TypeOK, TypeOK', WorldOK, NEW h \in heard, Covered(h),
         Spaced(Latest(h[1]), Latest(h[1])'), file'[h[1]] = file[h[1]],
         \A e \in Evaluators : ~(pc[e] = "recording" /\ h = Announced(e))
  PROVE  Covered(h)'
<1>1. PICK w \in Windows : w = h[1] /\ h[2] \in Nat
  BY HeardTypes
<1>2. Latest(w) \in Nat /\ Latest(w)' \in Nat
  BY LatestIsKnown, LatestIsANumberNext
<1>3. \/ h[2] < Latest(w)
      \/ file[w] # NoEntry /\ file[w].level >= h[3] /\ Matches(file[w].reset, w, h[2])
  BY <1>1 DEF Covered
<1>4. CASE h[2] < Latest(w)
  <2>1. Latest(w) <= Latest(w)'
    BY <1>1, <1>2, NotificationsAssumption DEF Spaced
  <2>2. h[2] < Latest(w)'
    BY <1>1, <1>2, <1>4, <2>1
  <2> QED
    BY <1>1, <2>2 DEF Covered
<1>5. CASE file[w] # NoEntry /\ file[w].level >= h[3] /\ Matches(file[w].reset, w, h[2])
  BY <1>1, <1>5 DEF Covered, Matches
<1> QED
  BY <1>3, <1>4, <1>5

---------------------------------------------------------------------------
(* Each step keeps the invariant.                                          *)

LEMMA InitIInv ==
  Init => IInv
<1> SUFFICES ASSUME Init PROVE IInv
  OBVIOUS
<1>1. TypeOK
  <2>1. NoState \in State
    BY DEF NoState, State
  <2>2. NoEnvelope \in [ready: SUBSET Windows, live: SUBSET Windows,
                        windows: [Windows -> Reading \cup {NoReading}]]
    BY DEF NoEnvelope
  <2>3. <<>> \in Seq(Windows)
    OBVIOUS
  <2> QED
    BY <2>1, <2>2, <2>3, NotificationsAssumption DEF Init, TypeOK
<1>2. \A w \in Windows : cache[w] = NoReading /\ file[w] = NoEntry /\ ends[w] = Period
  BY DEF Init, NoState
<1>3. heard = {} /\ \A e \in Evaluators : pc[e] = "idle"
  BY DEF Init
<1>4. WorldOK
  BY <1>2 DEF WorldOK
<1>5. HeardOK
  BY <1>3 DEF HeardOK
<1>6. \A w \in Windows : Backed(w)
  BY <1>2 DEF Backed
<1>7. \A e \in Evaluators : EvaluationOK(e)
  BY <1>3 DEF EvaluationOK, KnownOK, MemoryOK, PendingOK, AnnouncedOK
<1> QED
  BY <1>1, <1>3, <1>4, <1>5, <1>6, <1>7 DEF IInv

LEMMA TickKeeps ==
  ASSUME IInv, TypeOK', Tick \/ UNCHANGED vars
  PROVE  IInv'
<1>1. UNCHANGED <<ends, cache, file, pc, at, envelope, state, pending, heard>>
  BY DEF Tick, vars, worldVars, evaluationVars
<1>2. WorldOK'
  BY <1>1 DEF IInv, WorldOK, Spaced, Matches
<1>3. \A w \in Windows : Latest(w)' = Latest(w)
  BY <1>1 DEF Latest
<1>4. HeardOK'
  BY <1>1, <1>3, HeardKept DEF IInv, Spaced
<1>5. \A e \in Evaluators : Announced(e)' = Announced(e)
  BY <1>1 DEF Announced
<1>6. ASSUME NEW e \in Evaluators PROVE EvaluationOK(e)'
  <2>1. KnownOK(e)'
    BY <1>1 DEF IInv, EvaluationOK, KnownOK
  <2>2. MemoryOK(e)'
    BY <1>1 DEF IInv, EvaluationOK, MemoryOK
  <2>3. PendingOK(e)'
    BY <1>1 DEF IInv, EvaluationOK, PendingOK, Once, Lists
  <2>4. AnnouncedOK(e)'
    BY <1>1, <1>5 DEF IInv, EvaluationOK, AnnouncedOK
  <2> QED
    BY <2>1, <2>2, <2>3, <2>4 DEF EvaluationOK
<1>7. ASSUME NEW h \in heard' PROVE Covered(h)'
  <2>1. h \in heard /\ Covered(h)
    BY <1>1 DEF IInv
  <2>2. Latest(h[1])' = Latest(h[1])
    BY <1>3, <2>1, HeardTypes DEF IInv
  <2> QED
    BY <1>1, <1>5, <2>1, <2>2 DEF Covered, Matches
<1>8. \A w \in Windows : Backed(w)'
  BY <1>1 DEF IInv, Backed, Matches
<1> QED
  BY <1>2, <1>4, <1>6, <1>7, <1>8 DEF IInv

LEMMA RenewKeeps ==
  ASSUME IInv, TypeOK', NEW v \in Windows, Renew(v)
  PROVE  IInv'
<1>1. UNCHANGED <<cache, file, pc, at, envelope, state, pending, heard>>
  BY DEF Renew, evaluationVars
<1>2. v \notin Dateless /\ ends' = [ends EXCEPT ![v] = @ + Period]
  BY DEF Renew
<1>3. \A w \in Windows : ends[w] \in Nat /\ Spaced(ends[w], ends'[w])
  BY <1>2, NotificationsAssumption DEF IInv, TypeOK, Spaced
<1>4. WorldOK'
  <2>1. ASSUME NEW w \in Windows
        PROVE  /\ w \in Dateless => ends'[w] = Period
               /\ cache[w] # NoReading =>
                    Spaced(cache[w].ends, ends'[w]) /\ Matches(cache[w].reset, w, cache[w].ends)
    <3>1. w \in Dateless => ends'[w] = Period
      BY <1>2 DEF IInv, WorldOK, TypeOK
    <3>2. ASSUME cache[w] # NoReading
          PROVE  Spaced(cache[w].ends, ends'[w]) /\ Matches(cache[w].reset, w, cache[w].ends)
      <4>1. cache[w].ends \in Nat
        BY <3>2 DEF IInv, TypeOK, Reading
      <4>2. ends[w] \in Nat /\ ends'[w] \in Nat
        BY DEF IInv, TypeOK
      <4>3. Spaced(cache[w].ends, ends[w]) /\ Matches(cache[w].reset, w, cache[w].ends)
        BY <3>2 DEF IInv, WorldOK
      <4> QED
        BY <1>3, <4>1, <4>2, <4>3, SpacedTransitive
    <3> QED
      BY <3>1, <3>2
  <2> QED
    BY <1>1, <2>1 DEF WorldOK, Spaced, Matches
<1>5. \A w \in Windows : Spaced(Latest(w), Latest(w)')
  BY <1>1, <1>3 DEF Latest, Spaced
<1>6. HeardOK'
  BY <1>1, <1>5, HeardKept DEF IInv
<1>7. \A e \in Evaluators : Announced(e)' = Announced(e)
  BY <1>1 DEF Announced
<1>8. ASSUME NEW e \in Evaluators PROVE EvaluationOK(e)'
  <2>1. KnownOK(e)'
    BY <1>1 DEF IInv, EvaluationOK, KnownOK
  <2>2. MemoryOK(e)'
    BY <1>1 DEF IInv, EvaluationOK, MemoryOK
  <2>3. PendingOK(e)'
    BY <1>1 DEF IInv, EvaluationOK, PendingOK, Once, Lists
  <2>4. AnnouncedOK(e)'
    BY <1>1, <1>7 DEF IInv, EvaluationOK, AnnouncedOK
  <2> QED
    BY <2>1, <2>2, <2>3, <2>4 DEF EvaluationOK
<1>9. ASSUME NEW h \in heard' PROVE Covered(h)'
  <2>1. h \in heard /\ Covered(h) /\ h[1] \in Windows
    BY <1>1, HeardTypes DEF IInv
  <2>2. CASE \E e \in Evaluators : pc[e] = "recording" /\ h = Announced(e)
    BY <1>1, <1>7, <2>2 DEF Covered
  <2>3. CASE \A e \in Evaluators : ~(pc[e] = "recording" /\ h = Announced(e))
    BY <1>1, <1>5, <2>1, <2>3, CoveredKept DEF IInv
  <2> QED
    BY <2>2, <2>3
<1>10. \A w \in Windows : Backed(w)'
  BY <1>1 DEF IInv, Backed, Matches
<1> QED
  BY <1>4, <1>6, <1>8, <1>9, <1>10 DEF IInv

LEMMA CollectKeeps ==
  ASSUME IInv, OneEvaluation, MayLag = FALSE, TypeOK', NEW e \in Evaluators, Collect(e)
  PROVE  IInv'
<1>0. PICK live \in SUBSET Providers, hits \in SUBSET Providers :
        \E fresh \in [UNION live -> UNION {Readings(w) : w \in UNION live}] :
          /\ \A w \in UNION live : fresh[w] \in Readings(w)
          /\ cache' = [w \in Windows |-> IF w \in UNION live THEN fresh[w] ELSE cache[w]]
          /\ envelope' = [envelope EXCEPT ![e] =
               [ready |-> UNION (live \cup hits), live |-> UNION live, windows |-> cache']]
  BY DEF Collect
<1>1. PICK fresh \in [UNION live -> UNION {Readings(w) : w \in UNION live}] :
        /\ \A w \in UNION live : fresh[w] \in Readings(w)
        /\ cache' = [w \in Windows |-> IF w \in UNION live THEN fresh[w] ELSE cache[w]]
        /\ envelope' = [envelope EXCEPT ![e] =
             [ready |-> UNION (live \cup hits), live |-> UNION live, windows |-> cache']]
  BY <1>0
<1>2. /\ pc[e] = "idle" /\ pc' = [pc EXCEPT ![e] = "loading"] /\ at' = [at EXCEPT ![e] = now]
      /\ UNCHANGED <<now, ends, file, state, pending, heard>>
  BY DEF Collect, worldVars
<1>3. TypeOK /\ WorldOK /\ HeardOK
  BY DEF IInv
<1>4. \A f \in Evaluators : f = e
  BY DEF OneEvaluation
<1>5. \A w \in Windows : w \in Dateless => ends[w] = Period
  BY <1>3 DEF WorldOK
<1>6. UNION live \subseteq Windows
  BY DEF Windows
<1>7. ASSUME NEW w \in UNION live, fresh[w] # NoReading
      PROVE  /\ fresh[w] \in Reading /\ fresh[w].ends = ends[w]
             /\ Matches(fresh[w].reset, w, fresh[w].ends)
             /\ w \in Dateless \/ fresh[w].ends > now
  <2>1. PICK r : r = fresh[w]
    OBVIOUS
  <2>2. w \in Windows /\ r \in Readings(w) /\ r # NoReading
    BY <1>1, <1>6, <1>7, <2>1
  <2> QED
    BY <1>3, <1>5, <2>1, <2>2, ReadingsAreReadings
<1>8. \A w \in Windows : cache'[w] = IF w \in UNION live THEN fresh[w] ELSE cache[w]
  BY <1>1
<1>9. WorldOK'
  <2>1. ASSUME NEW w \in Windows, cache'[w] # NoReading
        PROVE  Spaced(cache'[w].ends, ends[w]) /\ Matches(cache'[w].reset, w, cache'[w].ends)
    <3>1. CASE w \in UNION live
      BY <1>7, <1>8, <2>1, <3>1 DEF Spaced
    <3>2. CASE w \notin UNION live
      BY <1>3, <1>8, <2>1, <3>2 DEF WorldOK
    <3> QED
      BY <3>1, <3>2
  <2> QED
    BY <1>2, <1>5, <2>1 DEF WorldOK, Spaced, Matches
<1>10. ASSUME NEW w \in Windows PROVE Spaced(Latest(w), Latest(w)')
  <2>1. Latest(w)' = Latest(w) \/ Latest(w)' = ends[w]
    BY <1>2, <1>7, <1>8 DEF Latest
  <2>2. Spaced(Latest(w), ends[w])
    BY <1>3, LatestIsKnown
  <2> QED
    BY <2>1, <2>2 DEF Spaced
<1>11. HeardOK'
  BY <1>2, <1>3, <1>10, HeardKept
<1>12. EvaluationOK(e)'
  <2>1. pc'[e] = "loading"
    BY <1>2, <1>3 DEF TypeOK
  <2>2. /\ envelope'[e].windows = cache' /\ envelope'[e].live = UNION live
        /\ at'[e] = now
    BY <1>1, <1>2, <1>3 DEF TypeOK
  <2>3. \A w \in UNION live : cache'[w] = NoReading \/ w \in Dateless \/ cache'[w].ends > now
    BY <1>6, <1>7, <1>8
  <2>4. KnownOK(e)'
    BY <2>2, <2>3 DEF KnownOK
  <2>5. MemoryOK(e)' /\ PendingOK(e)' /\ AnnouncedOK(e)'
    BY <2>1 DEF MemoryOK, PendingOK, AnnouncedOK
  <2> QED
    BY <2>4, <2>5 DEF EvaluationOK
<1>13. ASSUME NEW h \in heard' PROVE Covered(h)'
  <2>1. h \in heard /\ Covered(h) /\ h[1] \in Windows
    BY <1>2, <1>3, HeardTypes DEF IInv
  <2>2. \A f \in Evaluators : ~(pc[f] = "recording" /\ h = Announced(f))
    BY <1>2, <1>4
  <2> QED
    BY <1>2, <1>3, <1>10, <2>1, <2>2, CoveredKept
<1>14. \A w \in Windows : Backed(w)'
  BY <1>2 DEF IInv, Backed, Matches
<1> QED
  BY <1>4, <1>9, <1>11, <1>12, <1>13, <1>14 DEF IInv

LEMMA DoneKeeps ==
  ASSUME TypeOK, NEW e \in Evaluators, Done(e)
  PROVE  EvaluationOK(e)'
<1>1. pc'[e] = "idle"
  BY DEF Done, TypeOK
<1> QED
  BY <1>1 DEF EvaluationOK, KnownOK, MemoryOK, PendingOK, AnnouncedOK

LEMMA LoadKeeps ==
  ASSUME IInv, OneEvaluation, TypeOK', NEW e \in Evaluators, Load(e)
  PROVE  IInv'
<1> DEFINE left == [w \in Windows |-> Rearmed(file[w], w, envelope[e], at[e])]
           due == {w \in envelope[e].ready : Due(left[w], envelope[e].windows[w])}
<1>1. /\ pc[e] = "loading" /\ pc' = [pc EXCEPT ![e] = "saving"]
      /\ state' = [state EXCEPT ![e] = left]
      /\ pending' = [pending EXCEPT ![e] = InOrder(due)]
      /\ UNCHANGED <<now, ends, cache, file, at, envelope, heard>>
  BY DEF Load, worldVars
<1>2. TypeOK /\ WorldOK /\ HeardOK /\ EvaluationOK(e)
  BY DEF IInv
<1>3. \A f \in Evaluators : f = e
  BY DEF OneEvaluation
<1>4. due \subseteq envelope[e].ready /\ due \in SUBSET Windows
  BY <1>2 DEF TypeOK
<1>5. left = [w \in Windows |-> Rearmed(file'[w], w, envelope'[e], at'[e])]
  BY <1>1
<1>6. \A w \in envelope[e].ready : Due(left[w], envelope[e].windows[w]) <=> w \in due
  OBVIOUS
<1> HIDE DEF left, due
<1>7. PICK s : s = InOrder(due)
  OBVIOUS
<1>8. /\ s \in Seq(due)
      /\ \A w \in due : \E i \in 1..Len(s) : s[i] = w
      /\ \A i, j \in 1..Len(s) : s[i] = s[j] => i = j
  BY <1>4, <1>7, WindowsAreFinite, InOrderLists
<1>9. pc'[e] = "saving" /\ state'[e] = left /\ pending'[e] = s /\ envelope'[e] = envelope[e]
  BY <1>1, <1>2, <1>7 DEF TypeOK
<1>10. EvaluationOK(e)'
  <2>1. KnownOK(e)'
    BY <1>1, <1>2, <1>9 DEF EvaluationOK, KnownOK
  <2>2. MemoryOK(e)'
    BY <1>5, <1>9 DEF MemoryOK
  <2>3. s \in Seq(envelope[e].ready)
    BY <1>4, <1>8
  <2>4. \A i \in 1..Len(s) : s[i] \in due
    BY <1>8
  <2>5. \A w \in envelope[e].ready :
          Due(left[w], envelope[e].windows[w]) <=> Lists(s, w)
    BY <1>6, <1>8, <2>4 DEF Lists
  <2>6. PendingOK(e)'
    BY <1>8, <1>9, <2>3, <2>5 DEF PendingOK, Once
  <2>7. AnnouncedOK(e)'
    BY <1>9 DEF AnnouncedOK
  <2> QED
    BY <2>1, <2>2, <2>6, <2>7 DEF EvaluationOK
<1>11. WorldOK'
  BY <1>1, <1>2 DEF WorldOK, Spaced, Matches
<1>12. \A w \in Windows : Spaced(Latest(w), Latest(w)')
  BY <1>1 DEF Latest, Spaced
<1>13. HeardOK'
  BY <1>1, <1>2, <1>12, HeardKept
<1>14. ASSUME NEW h \in heard' PROVE Covered(h)'
  <2>1. h \in heard /\ Covered(h) /\ h[1] \in Windows
    BY <1>1, <1>2, HeardTypes DEF IInv
  <2>2. \A f \in Evaluators : ~(pc[f] = "recording" /\ h = Announced(f))
    BY <1>1, <1>3
  <2> QED
    BY <1>1, <1>2, <1>12, <2>1, <2>2, CoveredKept
<1>15. \A w \in Windows : Backed(w)'
  BY <1>1 DEF IInv, Backed, Matches
<1> QED
  BY <1>3, <1>10, <1>11, <1>13, <1>14, <1>15 DEF IInv

LEMMA SaveRearmedKeeps ==
  ASSUME IInv, OneEvaluation, TypeOK', NEW e \in Evaluators, SaveRearmed(e)
  PROVE  IInv'
<1>1. /\ pc[e] = "saving" /\ file' = state[e] /\ Continue(e, pending[e])
      /\ heard' = {h \in heard : h[1] \notin Recovered(envelope[e])}
      /\ pending[e] # <<>> => state' = state
      /\ UNCHANGED <<now, ends, cache>>
  BY DEF SaveRearmed, worldVars
<1>2. TypeOK /\ WorldOK /\ HeardOK /\ EvaluationOK(e)
  BY DEF IInv
<1>3. \A f \in Evaluators : f = e
  BY DEF OneEvaluation
<1>4. \A w \in Windows : file'[w] = Rearmed(file[w], w, envelope[e], at[e])
  BY <1>1, <1>2 DEF EvaluationOK, MemoryOK
<1>5. envelope[e].windows = cache
  BY <1>1, <1>2 DEF EvaluationOK, KnownOK
<1>6. EvaluationOK(e)'
  <2>1. CASE pending[e] = <<>>
    BY <1>1, <1>2, <2>1, DoneKeeps DEF Continue
  <2>2. CASE pending[e] # <<>>
    <3>1. /\ pending' = [pending EXCEPT ![e] = pending[e]]
          /\ pc' = [pc EXCEPT ![e] = "dispatching"]
          /\ UNCHANGED <<at, envelope>> /\ state' = state
      BY <1>1, <2>2 DEF Continue
    <3>2. pc'[e] = "dispatching" /\ pending'[e] = pending[e]
      BY <1>2, <3>1 DEF TypeOK
    <3>3. KnownOK(e)'
      BY <1>1, <1>2, <3>1, <3>2 DEF EvaluationOK, KnownOK
    <3>4. MemoryOK(e)'
      BY <1>1, <2>2, <3>1, <3>2 DEF MemoryOK
    <3>5. PendingOK(e)'
      BY <1>1, <1>2, <3>1, <3>2 DEF EvaluationOK, PendingOK, Once, Lists
    <3>6. AnnouncedOK(e)'
      BY <3>2 DEF AnnouncedOK
    <3> QED
      BY <3>3, <3>4, <3>5, <3>6 DEF EvaluationOK
  <2> QED
    BY <2>1, <2>2
<1>7. WorldOK'
  BY <1>1, <1>2 DEF WorldOK, Spaced, Matches
<1>8. \A w \in Windows : Spaced(Latest(w), Latest(w)')
  BY <1>1 DEF Latest, Spaced
<1>9. HeardOK'
  BY <1>1, <1>2, <1>8, HeardKept
<1>10. ASSUME NEW h \in heard' PROVE Covered(h)'
  <2>1. h \in heard /\ Covered(h) /\ h[1] \notin Recovered(envelope[e])
    BY <1>1 DEF IInv
  <2>2. PICK w \in Windows : w = h[1] /\ h[2] \in Nat
    BY <1>2, <2>1, HeardTypes
  <2>3. \A f \in Evaluators : ~(pc[f] = "recording" /\ h = Announced(f))
    BY <1>1, <1>3
  <2>4. CASE file'[w] = file[w]
    BY <1>2, <1>8, <2>1, <2>2, <2>3, <2>4, CoveredKept
  <2>5. CASE file'[w] # file[w]
    <3>1. /\ w \in envelope[e].ready
          /\ Pruned(file[w], cache[w], w \in envelope[e].live, at[e]) \/ cache[w].level = 0
      BY <1>4, <1>5, <2>5 DEF Rearmed
    <3>2. cache[w] # NoReading /\ cache[w].level # 0
      BY <1>5, <2>1, <2>2, <3>1 DEF Recovered
    <3>3. file[w] # NoEntry
      BY <1>4, <2>5 DEF Rearmed
    <3>4. w \in envelope[e].live /\ file[w].reset # NoReset /\ file[w].reset <= at[e]
      BY <3>1, <3>2, <3>3 DEF Pruned
    <3>5. w \in Dateless \/ cache[w].ends > at[e]
      BY <1>1, <1>2, <3>2, <3>4 DEF EvaluationOK, KnownOK
    <3>6. Latest(w) = cache[w].ends /\ Latest(w)' = cache[w].ends
      BY <1>1, <3>2 DEF Latest
    <3>7. h[2] < Latest(w) \/ Matches(file[w].reset, w, h[2])
      BY <2>1, <2>2, <2>3 DEF Covered
    <3>8. CASE h[2] < Latest(w)
      BY <2>2, <3>6, <3>8 DEF Covered
    <3>9. CASE Matches(file[w].reset, w, h[2])
      <4>1. w \notin Dateless /\ file[w].reset \in Nat /\ h[2] <= file[w].reset
        BY <3>4, <3>9 DEF Matches
      <4>2. at[e] \in Nat /\ Latest(w) \in Nat
        BY <1>2, LatestIsKnown DEF TypeOK
      <4>3. h[2] < Latest(w)'
        BY <2>2, <3>4, <3>5, <3>6, <4>1, <4>2
      <4> QED
        BY <2>2, <4>3 DEF Covered
    <3> QED
      BY <3>7, <3>8, <3>9
  <2> QED
    BY <2>4, <2>5
<1>11. ASSUME NEW w \in Windows PROVE Backed(w)'
  <2>1. SUFFICES ASSUME file'[w] # NoEntry
                 PROVE  \E h \in heard' : /\ h[1] = w /\ h[3] = file'[w].level
                                          /\ Matches(file'[w].reset, w, h[2])
    BY DEF Backed, Matches
  <2>2. file'[w] = file[w] /\ w \notin Recovered(envelope[e])
    BY <1>4, <2>1 DEF Rearmed, Recovered, Pruned
  <2>3. PICK h \in heard : h[1] = w /\ h[3] = file[w].level /\ Matches(file[w].reset, w, h[2])
    BY <2>1, <2>2 DEF IInv, Backed
  <2> QED
    BY <1>1, <2>2, <2>3
<1> QED
  BY <1>3, <1>6, <1>7, <1>9, <1>10, <1>11 DEF IInv

---------------------------------------------------------------------------
(* One window and two.                                                     *)

LEMMA OneWindow ==
  ASSUME NEW w \in Windows, NEW a \in Nat, NEW b \in Nat, NEW r, NEW s,
         Matches(r, w, a), Matches(s, w, b)
  PROVE  /\ a = b => SameWindow(r, s)
         /\ SameWindow(r, s) /\ Spaced(a, b) => a = b
<1>1. CASE w \in Dateless
  BY <1>1 DEF Matches, SameWindow
<1>2. CASE w \notin Dateless
  <2>1. /\ r \in Nat /\ a <= r /\ r <= a + Jitter /\ s \in Nat /\ b <= s /\ s <= b + Jitter
        /\ r # NoReset /\ s # NoReset
    BY <1>2, NotificationsAssumption DEF Matches
  <2>2. SameWindow(r, s) <=> Distance(r, s) <= Tolerance
    BY <2>1 DEF SameWindow
  <2>3. Jitter \in Nat /\ Tolerance \in Nat /\ Period \in Nat /\ Jitter <= Tolerance
        /\ Period > Tolerance + Jitter
    BY NotificationsAssumption
  <2>4. a = b => Distance(r, s) <= Tolerance
    BY <2>1, <2>3 DEF Distance
  <2>5. ASSUME Distance(r, s) <= Tolerance, a + Period <= b PROVE FALSE
    BY <2>1, <2>3, <2>5 DEF Distance
  <2> QED
    BY <2>2, <2>4, <2>5 DEF Spaced
<1> QED
  BY <1>1, <1>2

\* A reading is not due once its entry is saved.
LEMMA RecordedIsNotDue ==
  ASSUME NEW r \in Reading, r.level \in Levels
  PROVE  EntryOf(r) \in Entry /\ EntryOf(r) # NoEntry /\ ~Due(EntryOf(r), r)
<1>1. r.reset \in Resets /\ r.level \in Nat
  BY DEF Reading, Levels
<1>2. PICK entry : entry = EntryOf(r)
  OBVIOUS
<1>3. entry.level = r.level /\ entry.reset = r.reset /\ entry \in Entry
  BY <1>1, <1>2 DEF EntryOf, Entry
<1>4. entry # NoEntry
  BY <1>3, NothingAssumption
<1>5. r.reset # NoReset => r.reset \in Nat
  BY <1>1 DEF Resets
<1>6. Tolerance \in Nat
  BY NotificationsAssumption
<1>7. SameWindow(entry.reset, r.reset)
  BY <1>3, <1>5, <1>6 DEF SameWindow, Distance
<1>8. ~(r.level > entry.level)
  BY <1>1, <1>3
<1> QED
  BY <1>2, <1>3, <1>4, <1>7, <1>8 DEF Due

\* The announcement at hand: of the latest window, and due.
LEMMA TheAnnouncement ==
  ASSUME IInv, NEW e \in Evaluators, pc[e] \in {"dispatching", "recording"}
  PROVE  \E w \in Windows, r \in Reading :
           /\ w = Head(pending[e]) /\ w \in envelope[e].ready
           /\ r = envelope[e].windows[w] /\ r = cache[w] /\ r # NoReading /\ r.level \in Levels
           /\ r.ends \in Nat /\ Latest(w) = r.ends
           /\ Matches(r.reset, w, r.ends)
           /\ Due(file[w], r)
           /\ Announced(e) = <<w, r.ends, r.level>>
<1>1. TypeOK /\ WorldOK /\ EvaluationOK(e)
  BY DEF IInv
<1>2. pending[e] # <<>> /\ PendingOK(e) /\ state[e] = file /\ envelope[e].windows = cache
  BY <1>1 DEF EvaluationOK, MemoryOK, KnownOK
<1>3. PICK w \in Windows, r \in Reading :
        /\ w = Head(pending[e]) /\ w \in envelope[e].ready
        /\ r = envelope[e].windows[w] /\ r.level \in Levels /\ Due(file[w], r)
  BY <1>1, <1>2, HeadIsAReading
<1>4. r # NoReading /\ r = cache[w] /\ r.ends \in Nat
  BY <1>2, <1>3, NothingAssumption DEF Reading
<1>5. Matches(r.reset, w, r.ends) /\ Latest(w) = r.ends
  BY <1>1, <1>4 DEF WorldOK, Latest
<1>6. Announced(e) = <<w, r.ends, r.level>>
  BY <1>3 DEF Announced
<1> QED
  BY <1>3, <1>4, <1>5, <1>6

\* What is due is higher than every alert its window's entry answers for.
LEMMA DueIsHigher ==
  ASSUME TypeOK, NEW w \in Windows, NEW r \in Reading, r.level \in Levels, r.ends \in Nat,
         Matches(r.reset, w, r.ends), Due(file[w], r),
         file[w] # NoEntry, Matches(file[w].reset, w, r.ends)
  PROVE  file[w].level \in Nat /\ r.level > file[w].level
<1>1. file[w] \in Entry
  BY DEF TypeOK, State
<1>2. SameWindow(file[w].reset, r.reset)
  BY OneWindow
<1>3. r.level > file[w].level
  BY <1>2 DEF Due
<1> QED
  BY <1>1, <1>3 DEF Entry, Levels

LEMMA DispatchKeeps ==
  ASSUME IInv, OneEvaluation, TypeOK', NEW e \in Evaluators, Dispatch(e)
  PROVE  IInv'
<1>1. /\ pc[e] = "dispatching" /\ heard' = heard \cup {Announced(e)}
      /\ pc' = [pc EXCEPT ![e] = "recording"]
      /\ UNCHANGED <<now, ends, cache, file, at, envelope, state, pending>>
  BY DEF Dispatch, worldVars
<1>2. TypeOK /\ WorldOK /\ HeardOK /\ EvaluationOK(e)
  BY DEF IInv
<1>3. \A f \in Evaluators : f = e
  BY DEF OneEvaluation
<1>4. PICK w \in Windows, r \in Reading :
        /\ r.ends \in Nat /\ Latest(w) = r.ends /\ Matches(r.reset, w, r.ends)
        /\ Announced(e) = <<w, r.ends, r.level>>
  BY <1>1, TheAnnouncement
<1>5. pc'[e] = "recording" /\ Announced(e)' = Announced(e)
  BY <1>1, <1>2 DEF TypeOK, Announced
<1>6. EvaluationOK(e)'
  <2>1. KnownOK(e)'
    BY <1>1, <1>2 DEF EvaluationOK, KnownOK
  <2>2. MemoryOK(e)'
    BY <1>1, <1>2, <1>5 DEF EvaluationOK, MemoryOK
  <2>3. PendingOK(e)'
    BY <1>1, <1>2, <1>5 DEF EvaluationOK, PendingOK, Once, Lists
  <2>4. AnnouncedOK(e)'
    BY <1>1, <1>5 DEF AnnouncedOK
  <2> QED
    BY <2>1, <2>2, <2>3, <2>4 DEF EvaluationOK
<1>7. WorldOK'
  BY <1>1, <1>2 DEF WorldOK, Spaced, Matches
<1>8. \A x \in Windows : Latest(x)' = Latest(x)
  BY <1>1 DEF Latest
<1>9. HeardOK'
  <2>1. ASSUME NEW h \in heard
        PROVE  Spaced(h[2], Latest(h[1])') /\ (h[1] \in Dateless => h[2] = Period)
    BY <1>2, <1>8, HeardTypes DEF HeardOK
  <2>2. Spaced(r.ends, Latest(w)') /\ (w \in Dateless => r.ends = Period)
    BY <1>4, <1>8 DEF Spaced, Matches
  <2> QED
    BY <1>1, <1>4, <2>1, <2>2 DEF HeardOK, Spaced
<1>10. ASSUME NEW h \in heard' PROVE Covered(h)'
  <2>1. CASE h = Announced(e)
    BY <1>5, <2>1 DEF Covered
  <2>2. CASE h \in heard
    <3>1. Covered(h) /\ h[1] \in Windows
      BY <1>2, <2>2, HeardTypes DEF IInv
    <3>2. \A f \in Evaluators : ~(pc[f] = "recording" /\ h = Announced(f))
      BY <1>1, <1>3
    <3>3. Spaced(Latest(h[1]), Latest(h[1])')
      BY <1>8, <3>1 DEF Spaced
    <3> QED
      BY <1>1, <1>2, <2>2, <3>1, <3>2, <3>3, CoveredKept
  <2> QED
    BY <1>1, <2>1, <2>2
<1>11. \A x \in Windows : Backed(x)'
  BY <1>1 DEF IInv, Backed, Matches
<1> QED
  BY <1>3, <1>6, <1>7, <1>9, <1>10, <1>11 DEF IInv

\* An evaluation that ends before it recorded takes its announcement back.
LEMMA EndKeeps ==
  ASSUME IInv, OneEvaluation, TypeOK', NEW e \in Evaluators, DispatchFails(e) \/ Kill(e)
  PROVE  IInv'
<1>1. /\ Done(e) /\ UNCHANGED <<now, ends, cache, file>>
      /\ heard' = IF pc[e] = "recording" THEN heard \ {Announced(e)} ELSE heard
  BY DEF DispatchFails, Kill, worldVars
<1>2. TypeOK /\ WorldOK /\ HeardOK
  BY DEF IInv
<1>3. \A f \in Evaluators : f = e
  BY DEF OneEvaluation
<1>4. EvaluationOK(e)'
  BY <1>1, <1>2, DoneKeeps
<1>5. WorldOK'
  BY <1>1, <1>2 DEF WorldOK, Spaced, Matches
<1>6. \A w \in Windows : Spaced(Latest(w), Latest(w)')
  BY <1>1 DEF Latest, Spaced
<1>7. HeardOK'
  BY <1>1, <1>2, <1>6, HeardKept
<1>8. ASSUME NEW h \in heard' PROVE Covered(h)'
  <2>1. h \in heard /\ Covered(h) /\ h[1] \in Windows
    BY <1>1, <1>2, HeardTypes DEF IInv
  <2>2. \A f \in Evaluators : ~(pc[f] = "recording" /\ h = Announced(f))
    BY <1>1, <1>3
  <2> QED
    BY <1>1, <1>2, <1>6, <2>1, <2>2, CoveredKept
<1>9. ASSUME NEW w \in Windows PROVE Backed(w)'
  <2>1. SUFFICES ASSUME file[w] # NoEntry
                 PROVE  \E h \in heard' : /\ h[1] = w /\ h[3] = file[w].level
                                          /\ Matches(file[w].reset, w, h[2])
    BY <1>1 DEF Backed, Matches
  <2>2. PICK h \in heard : h[1] = w /\ h[3] = file[w].level /\ Matches(file[w].reset, w, h[2])
    BY <2>1 DEF IInv, Backed
  <2>3. ASSUME pc[e] = "recording", h = Announced(e) PROVE FALSE
    <3>1. PICK v \in Windows, r \in Reading :
            /\ r.level \in Levels /\ r.ends \in Nat
            /\ Matches(r.reset, v, r.ends) /\ Due(file[v], r)
            /\ Announced(e) = <<v, r.ends, r.level>>
      BY <2>3, TheAnnouncement
    <3>2. v = w /\ h[2] = r.ends /\ h[3] = r.level
      BY <2>2, <2>3, <3>1
    <3>3. file[w].level \in Nat /\ r.level > file[w].level
      BY <1>2, <2>1, <2>2, <3>1, <3>2, DueIsHigher
    <3> QED
      BY <2>2, <3>2, <3>3
  <2> QED
    BY <1>1, <2>2, <2>3
<1> QED
  BY <1>3, <1>4, <1>5, <1>7, <1>8, <1>9 DEF IInv

\* What is left to announce after the first.
LEMMA TailIsTheRest ==
  ASSUME NEW S, NEW s \in Seq(S), s # <<>>, Once(s), NEW v, v = Head(s), NEW t, t = Tail(s)
  PROVE  /\ t \in Seq(S) /\ Once(t) /\ ~Lists(t, v)
         /\ \A w : w # v => (Lists(s, w) <=> Lists(t, w))
<1>1. PICK n \in Nat : Len(s) = n + 1
  <2>1. Len(s) \in Nat /\ Len(s) > 0
    OBVIOUS
  <2> QED
    BY <2>1
<1>2. t \in Seq(S) /\ Len(t) = n /\ \A i \in 1..n : t[i] = s[i + 1]
  BY <1>1
<1>3. v = s[1]
  OBVIOUS
<1>4. \A i \in 1..n : i \in Nat /\ i + 1 \in 1..(n + 1) /\ i + 1 # 1
  BY <1>1
<1>5. \A i \in 1..(n + 1) : i = 1 \/ (i - 1 \in 1..n /\ (i - 1) + 1 = i)
  BY <1>1
<1>6. \A i, j \in 1..(n + 1) : s[i] = s[j] => i = j
  BY <1>1 DEF Once
<1>7. 1 \in 1..(n + 1)
  BY <1>1
<1>8. \A i, j \in 1..n : t[i] = t[j] => i = j
  BY <1>2, <1>4, <1>6
<1>9. \A i \in 1..n : t[i] # v
  BY <1>2, <1>3, <1>4, <1>6, <1>7
<1>10. ASSUME NEW w, w # v
       PROVE  (\E i \in 1..(n + 1) : s[i] = w) <=> \E i \in 1..n : t[i] = w
  <2>1. ASSUME NEW i \in 1..(n + 1), s[i] = w PROVE \E j \in 1..n : t[j] = w
    BY <1>2, <1>3, <1>5, <1>10, <2>1
  <2>2. ASSUME NEW j \in 1..n, t[j] = w PROVE \E i \in 1..(n + 1) : s[i] = w
    BY <1>2, <1>4, <2>2
  <2> QED
    BY <2>1, <2>2
<1>11. Once(t)
  BY <1>2, <1>8 DEF Once
<1>12. ~Lists(t, v)
  BY <1>2, <1>9 DEF Lists
<1>13. ASSUME NEW w, w # v PROVE Lists(s, w) <=> Lists(t, w)
  BY <1>1, <1>2, <1>10, <1>13 DEF Lists
<1> QED
  BY <1>2, <1>11, <1>12, <1>13

LEMMA RecordKeeps ==
  ASSUME IInv, OneEvaluation, TypeOK', NEW e \in Evaluators, Record(e)
  PROVE  IInv'
<1>1. pc[e] = "recording"
  BY DEF Record
<1>2. TypeOK /\ WorldOK /\ HeardOK /\ EvaluationOK(e)
  BY DEF IInv
<1>3. \A f \in Evaluators : f = e
  BY DEF OneEvaluation
<1>4. PICK w \in Windows, r \in Reading :
        /\ w = Head(pending[e]) /\ w \in envelope[e].ready
        /\ r = envelope[e].windows[w] /\ r = cache[w] /\ r # NoReading /\ r.level \in Levels
        /\ r.ends \in Nat /\ Latest(w) = r.ends
        /\ Matches(r.reset, w, r.ends)
        /\ Due(file[w], r)
        /\ Announced(e) = <<w, r.ends, r.level>>
  BY <1>1, TheAnnouncement
<1>5. PICK next : next = [state[e] EXCEPT ![w] = EntryOf(r)]
  OBVIOUS
<1>6. /\ file' = next /\ Continue(e, Tail(pending[e]))
      /\ Tail(pending[e]) # <<>> => state' = [state EXCEPT ![e] = next]
      /\ UNCHANGED <<now, ends, cache, heard>>
  BY <1>4, <1>5 DEF Record, EntryOf, worldVars
<1>7. state[e] = file /\ pending[e] # <<>> /\ PendingOK(e)
  BY <1>1, <1>2 DEF EvaluationOK, MemoryOK
<1>8. EntryOf(r) # NoEntry /\ ~Due(EntryOf(r), r)
  BY <1>4, RecordedIsNotDue
<1>9. next[w] = EntryOf(r) /\ \A x \in Windows : x # w => next[x] = file[x]
  BY <1>2, <1>5, <1>7 DEF TypeOK, State
<1>10. EvaluationOK(e)'
  <2>1. CASE Tail(pending[e]) = <<>>
    BY <1>2, <1>6, <2>1, DoneKeeps DEF Continue
  <2>2. CASE Tail(pending[e]) # <<>>
    <3>1. /\ pending' = [pending EXCEPT ![e] = Tail(pending[e])]
          /\ pc' = [pc EXCEPT ![e] = "dispatching"]
          /\ UNCHANGED <<at, envelope>> /\ state' = [state EXCEPT ![e] = next]
      BY <1>6, <2>2 DEF Continue
    <3>2. pc'[e] = "dispatching" /\ pending'[e] = Tail(pending[e]) /\ state'[e] = next
      BY <1>2, <3>1 DEF TypeOK
    <3>3. KnownOK(e)'
      BY <1>1, <1>2, <1>6, <3>1, <3>2 DEF EvaluationOK, KnownOK
    <3>4. MemoryOK(e)'
      BY <1>6, <2>2, <3>1, <3>2 DEF MemoryOK
    <3>5. /\ pending[e] \in Seq(envelope[e].ready) /\ Once(pending[e])
          /\ \A x \in envelope[e].ready :
               Due(file[x], envelope[e].windows[x]) <=> Lists(pending[e], x)
      BY <1>1, <1>7 DEF PendingOK
    <3>6. PICK rest : rest = Tail(pending[e])
      OBVIOUS
    <3>7. /\ rest \in Seq(envelope[e].ready) /\ Once(rest) /\ ~Lists(rest, w)
          /\ \A x : x # w => (Lists(pending[e], x) <=> Lists(rest, x))
      BY <1>4, <1>7, <3>5, <3>6, TailIsTheRest
    <3>8. ASSUME NEW x \in envelope[e].ready
          PROVE  Due(next[x], envelope[e].windows[x]) <=> Lists(rest, x)
      <4>1. x \in Windows
        BY <1>2 DEF TypeOK
      <4>2. CASE x = w
        BY <1>4, <1>8, <1>9, <3>7, <4>2
      <4>3. CASE x # w
        BY <1>9, <3>5, <3>7, <4>1, <4>3
      <4> QED
        BY <4>2, <4>3
    <3>9. PendingOK(e)'
      <4>1. envelope' = envelope /\ pending'[e] = rest /\ state'[e] = next
        BY <3>1, <3>2, <3>6
      <4> QED
        BY <3>7, <3>8, <4>1 DEF PendingOK, Once, Lists
    <3>10. AnnouncedOK(e)'
      BY <3>2 DEF AnnouncedOK
    <3> QED
      BY <3>3, <3>4, <3>9, <3>10 DEF EvaluationOK
  <2> QED
    BY <2>1, <2>2
<1>11. WorldOK'
  BY <1>2, <1>6 DEF WorldOK, Spaced, Matches
<1>12. \A x \in Windows : Latest(x)' = Latest(x) /\ Spaced(Latest(x), Latest(x)')
  BY <1>6 DEF Latest, Spaced
<1>13. HeardOK'
  BY <1>2, <1>6, <1>12, HeardKept
<1>14. PICK entry : entry = EntryOf(r)
  OBVIOUS
<1>15. entry.level = r.level /\ entry.reset = r.reset
  BY <1>14 DEF EntryOf
<1>16. ASSUME NEW h \in heard' PROVE Covered(h)'
  <2>1. h \in heard /\ Covered(h) /\ h[1] \in Windows /\ h[2] \in Nat /\ h[3] \in Nat
    BY <1>2, <1>6, HeardTypes DEF IInv
  <2>2. CASE h = Announced(e)
    <3>1. h[1] = w /\ h[2] = r.ends /\ h[3] = r.level
      BY <1>4, <2>2
    <3>2. r.level >= h[3] /\ Matches(r.reset, w, h[2])
      BY <1>4, <2>1, <3>1
    <3> QED
      BY <1>6, <1>8, <1>9, <1>14, <1>15, <3>1, <3>2 DEF Covered, Matches
  <2>3. CASE h # Announced(e) /\ h[1] # w
    <3>1. file'[h[1]] = file[h[1]]
      BY <1>6, <1>9, <2>1, <2>3
    <3>2. \A f \in Evaluators : ~(pc[f] = "recording" /\ h = Announced(f))
      BY <1>3, <2>3
    <3> QED
      BY <1>2, <1>12, <2>1, <3>1, <3>2, CoveredKept
  <2>4. CASE h # Announced(e) /\ h[1] = w
    <3>1. \/ h[2] < Latest(w)
          \/ file[w] # NoEntry /\ file[w].level >= h[3] /\ Matches(file[w].reset, w, h[2])
      BY <1>3, <2>1, <2>4 DEF Covered
    <3>2. CASE h[2] < Latest(w)
      BY <1>12, <2>4, <3>2 DEF Covered
    <3>3. CASE /\ ~(h[2] < Latest(w))
               /\ file[w] # NoEntry /\ file[w].level >= h[3] /\ Matches(file[w].reset, w, h[2])
      <4>1. h[2] = r.ends
        <5>1. Spaced(h[2], Latest(w))
          BY <1>2, <2>1, <2>4 DEF HeardOK
        <5>2. h[2] = Latest(w) \/ h[2] + Period <= Latest(w)
          BY <5>1 DEF Spaced
        <5> QED
          BY <1>4, <2>1, <3>3, <5>2, NotificationsAssumption
      <4>2. file[w].level \in Nat /\ r.level > file[w].level
        BY <1>2, <1>4, <3>3, <4>1, DueIsHigher
      <4>3. r.level \in Nat
        BY <1>4 DEF Levels
      <4>4. r.level >= h[3] /\ Matches(r.reset, w, h[2])
        <5>1. h[3] \in Nat /\ file[w].level >= h[3]
          BY <2>1, <3>3
        <5>2. r.level >= h[3]
          BY <4>2, <4>3, <5>1
        <5> QED
          BY <1>4, <4>1, <5>2
      <4>5. file'[w] = entry /\ entry # NoEntry
        BY <1>6, <1>8, <1>9, <1>14
      <4>6. file'[w].level >= h[3] /\ Matches(file'[w].reset, w, h[2])
        BY <1>15, <4>4, <4>5
      <4> QED
        BY <2>4, <4>5, <4>6 DEF Covered, Matches
    <3> QED
      BY <3>1, <3>2, <3>3
  <2> QED
    BY <2>2, <2>3, <2>4
<1>17. ASSUME NEW x \in Windows PROVE Backed(x)'
  <2>1. CASE x = w
    <3>1. Announced(e) \in heard
      BY <1>1, <1>2 DEF EvaluationOK, AnnouncedOK
    <3>2. PICK h \in heard : h[1] = w /\ h[2] = r.ends /\ h[3] = r.level
      BY <1>4, <3>1
    <3> QED
      BY <1>4, <1>6, <1>9, <1>14, <1>15, <2>1, <3>2 DEF Backed, Matches
  <2>2. CASE x # w
    BY <1>6, <1>9, <2>2 DEF IInv, Backed, Matches
  <2> QED
    BY <2>1, <2>2
<1> QED
  BY <1>3, <1>10, <1>11, <1>13, <1>16, <1>17 DEF IInv

LEMMA StepIInv ==
  ASSUME OneEvaluation, MayLag = FALSE, IInv, [Next]_vars
  PROVE  IInv'
<1>1. TypeOK'
  BY TypesKept DEF IInv
<1>2. CASE Tick \/ UNCHANGED vars
  BY <1>1, <1>2, TickKeeps
<1>3. CASE \E w \in Windows : Renew(w)
  BY <1>1, <1>3, RenewKeeps
<1>4. ASSUME NEW e \in Evaluators,
             \/ Collect(e) \/ Load(e) \/ SaveRearmed(e)
             \/ Dispatch(e) \/ DispatchFails(e) \/ Record(e) \/ Kill(e)
      PROVE  IInv'
  BY <1>1, <1>4, CollectKeeps, LoadKeeps, SaveRearmedKeeps, DispatchKeeps, RecordKeeps, EndKeeps
<1> QED
  BY <1>2, <1>3, <1>4 DEF Next

---------------------------------------------------------------------------
(* What the invariant gives.                                               *)

\* For evaluations one at a time and readings of windows that are not over,
\* an alert is higher than every alert heard before it in its window.
LEMMA AnAlertRises ==
  ASSUME OneEvaluation, IInv, NEW e \in Evaluators, Dispatch(e), NEW h \in heard,
         h[1] = Announced(e)[1], h[2] = Announced(e)[2]
  PROVE  h[3] < Announced(e)[3]
<1>1. pc[e] = "dispatching" /\ TypeOK /\ Covered(h)
  BY DEF Dispatch, IInv
<1>2. PICK w \in Windows, r \in Reading :
        /\ r.level \in Levels /\ r.ends \in Nat /\ Latest(w) = r.ends
        /\ Matches(r.reset, w, r.ends) /\ Due(file[w], r)
        /\ Announced(e) = <<w, r.ends, r.level>>
  BY <1>1, TheAnnouncement
<1>3. h[1] = w /\ h[2] = r.ends /\ h[3] \in Nat
  BY <1>1, <1>2, HeardTypes
<1>4. \A f \in Evaluators : pc[f] # "recording"
  BY <1>1 DEF OneEvaluation
<1>5. file[w] # NoEntry /\ file[w].level >= h[3] /\ Matches(file[w].reset, w, r.ends)
  BY <1>1, <1>2, <1>3, <1>4 DEF Covered
<1>6. file[w].level \in Nat /\ r.level > file[w].level
  BY <1>1, <1>2, <1>5, DueIsHigher
<1>7. r.level \in Nat
  BY <1>2 DEF Levels
<1> QED
  BY <1>2, <1>3, <1>5, <1>6, <1>7

THEOREM AlertsOnlyRiseHolds ==
  ASSUME OneEvaluation, MayLag = FALSE
  PROVE  Spec => AlertsOnlyRise
<1> DEFINE Rises ==
      \A e \in Evaluators :
        Dispatch(e) =>
          \A h \in heard :
            h[1] = Announced(e)[1] /\ h[2] = Announced(e)[2] => h[3] < Announced(e)[3]
<1>1. IInv /\ [Next]_vars => IInv'
  BY StepIInv
<1>2. IInv /\ [Next]_vars => [Rises]_vars
  BY AnAlertRises
<1> HIDE DEF Rises
<1>3. Spec => [][Rises]_vars
  BY InitIInv, <1>1, <1>2, PTL DEF Spec
<1> QED
  BY <1>3 DEF Rises, AlertsOnlyRise

\* An entry that keeps a reading silent was announced for the reading's window.
LEMMA SilenceWasAnnounced ==
  ASSUME TypeOK', NEW w \in Windows, NEW r \in Reading, r # NoReading, r.level \in Levels,
         Matches(r.reset, w, r.ends), r.ends = Latest(w)', ~Due(file'[w], r),
         HeardOK', Backed(w)'
  PROVE  \E h \in heard' : h[1] = w /\ h[2] = r.ends /\ h[3] >= r.level
<1>1. r.level \in Nat /\ r.level # 0 /\ r.ends \in Nat
  BY DEF Levels, Reading
<1>2. file'[w] # NoEntry /\ SameWindow(file'[w].reset, r.reset) /\ ~(r.level > file'[w].level)
  BY <1>1 DEF Due
<1>3. PICK h \in heard' : /\ h[1] = w /\ h[3] = file'[w].level
                          /\ Matches(file'[w].reset, w, h[2])
  BY <1>2 DEF Backed, Matches
<1>4. h[2] \in Nat /\ h[3] \in Nat
  <2>1. heard' \subseteq Windows \X Nat \X Levels
    BY DEF TypeOK
  <2>2. h \in Windows \X Nat \X Levels
    BY <1>3, <2>1
  <2> QED
    BY <2>2 DEF Levels
<1>5. Spaced(h[2], r.ends)
  BY <1>3 DEF HeardOK, Spaced
<1>6. h[2] = r.ends
  BY <1>1, <1>2, <1>3, <1>4, <1>5, OneWindow
<1>7. h[3] >= r.level
  BY <1>1, <1>2, <1>3, <1>4
<1> QED
  BY <1>3, <1>6, <1>7

LEMMA NothingIsLeftSilent ==
  ASSUME OneEvaluation, IInv, IInv', NEW e \in Evaluators,
         \/ pc[e] = "saving" /\ pending[e] = <<>> /\ SaveRearmed(e)
         \/ Record(e) /\ Tail(pending[e]) = <<>>,
         NEW w \in envelope[e].ready, NEW r, r = envelope[e].windows[w],
         r # NoReading, r.level # 0
  PROVE  \E h \in heard' : h[1] = w /\ h[2] = r.ends /\ h[3] >= r.level
<1>1. pc[e] \in {"saving", "recording"} /\ cache' = cache
  BY DEF SaveRearmed, Record
<1>2. TypeOK /\ WorldOK /\ EvaluationOK(e) /\ TypeOK' /\ HeardOK'
  BY DEF IInv
<1>3. w \in Windows /\ r = cache[w]
  BY <1>1, <1>2 DEF TypeOK, EvaluationOK, KnownOK
<1>4. r \in Reading /\ r.level \in Levels
  BY <1>2, <1>3 DEF TypeOK, Reading
<1>5. Matches(r.reset, w, r.ends) /\ Latest(w)' = r.ends /\ Backed(w)'
  BY <1>1, <1>2, <1>3 DEF WorldOK, Latest, IInv
<1>6. PendingOK(e)
  BY <1>2 DEF EvaluationOK
<1>7. CASE pc[e] = "saving" /\ pending[e] = <<>> /\ SaveRearmed(e)
  <2>1. ~Lists(pending[e], w)
    BY <1>7 DEF Lists
  <2>2. ~Due(state[e][w], r) /\ file' = state[e]
    BY <1>6, <1>7, <2>1 DEF PendingOK, SaveRearmed
  <2> QED
    BY <1>2, <1>3, <1>4, <1>5, <2>2, SilenceWasAnnounced
<1>8. CASE Record(e) /\ Tail(pending[e]) = <<>>
  <2>1. pc[e] = "recording"
    BY <1>8 DEF Record
  <2>2. PICK v \in Windows, q \in Reading :
          /\ v = Head(pending[e]) /\ q = envelope[e].windows[v]
          /\ q.level \in Levels
          /\ Announced(e) = <<v, q.ends, q.level>>
    BY <2>1, TheAnnouncement
  <2>3. Announced(e) \in heard'
    BY <1>2, <1>8, <2>1 DEF EvaluationOK, AnnouncedOK, Record
  <2>4. CASE w = v
    <3>1. q = r /\ Announced(e) = <<w, r.ends, r.level>>
      BY <2>2, <2>4
    <3>2. PICK h \in heard' : h = <<w, r.ends, r.level>>
      BY <2>3, <3>1
    <3>3. h[1] = w /\ h[2] = r.ends /\ h[3] = r.level
      BY <3>2
    <3>4. h[3] >= r.level
      BY <1>4, <3>3 DEF Levels
    <3> QED
      BY <3>3, <3>4
  <2>5. CASE w # v
    <3>1. /\ pending[e] \in Seq(envelope[e].ready) /\ pending[e] # <<>> /\ Once(pending[e])
          /\ Due(state[e][w], r) <=> Lists(pending[e], w)
      BY <1>2, <1>6, <2>1 DEF PendingOK, EvaluationOK, MemoryOK
    <3>2. PICK rest : rest = Tail(pending[e])
      OBVIOUS
    <3>3. Lists(pending[e], w) <=> Lists(rest, w)
      BY <2>2, <2>5, <3>1, <3>2, TailIsTheRest
    <3>4. ~Lists(rest, w)
      <4>1. rest = <<>>
        BY <1>8, <3>2
      <4> QED
        BY <4>1 DEF Lists
    <3>5. file' = [state[e] EXCEPT ![v] = [level |-> q.level, reset |-> q.reset]]
      BY <1>8, <2>2 DEF Record
    <3>6. file'[w] = state[e][w]
      BY <1>2, <1>3, <2>5, <3>5 DEF TypeOK, State
    <3> QED
      BY <1>2, <1>3, <1>4, <1>5, <3>1, <3>3, <3>4, <3>6, SilenceWasAnnounced
  <2> QED
    BY <2>4, <2>5
<1> QED
  BY <1>7, <1>8

\* For evaluations one at a time and readings of windows that are not over,
\* what an evaluation that ended well was told of every window was announced.
THEOREM EveryCrossingIsAnnouncedHolds ==
  ASSUME OneEvaluation, MayLag = FALSE
  PROVE  Spec => EveryCrossingIsAnnounced
<1> DEFINE Announces ==
      \A e \in Evaluators :
        (pc[e] = "saving" /\ pending[e] = <<>> /\ SaveRearmed(e)) \/ (Record(e) /\ Tail(pending[e]) = <<>>)
          => \A w \in envelope[e].ready :
               LET r == envelope[e].windows[w] IN
               r # NoReading /\ r.level # 0 =>
                 \E h \in heard' : h[1] = w /\ h[2] = r.ends /\ h[3] >= r.level
<1>1. IInv /\ [Next]_vars => IInv'
  BY StepIInv
<1>2. ASSUME IInv, IInv', NEW e \in Evaluators,
             \/ pc[e] = "saving" /\ pending[e] = <<>> /\ SaveRearmed(e)
             \/ Record(e) /\ Tail(pending[e]) = <<>>,
             NEW w \in envelope[e].ready,
             envelope[e].windows[w] # NoReading, envelope[e].windows[w].level # 0
      PROVE  \E h \in heard' : /\ h[1] = w /\ h[2] = envelope[e].windows[w].ends
                               /\ h[3] >= envelope[e].windows[w].level
  BY <1>2, NothingIsLeftSilent
<1>3. IInv /\ IInv' => Announces
  BY <1>2
<1> HIDE DEF Announces
<1>4. Spec => [][Announces]_vars
  BY InitIInv, <1>1, <1>3, PTL DEF Spec
<1> QED
  BY <1>4 DEF Announces, EveryCrossingIsAnnounced

\* For evaluations one at a time and readings of windows that are not over,
\* no level is saved that was not announced, in the window of its reset.
THEOREM EntriesWereAnnouncedHolds ==
  ASSUME OneEvaluation, MayLag = FALSE
  PROVE  Spec => []EntriesWereAnnounced
<1>1. IInv /\ [Next]_vars => IInv'
  BY StepIInv
<1>2. IInv => EntriesWereAnnounced
  <2>1. ASSUME IInv, NEW w \in Windows, file[w] # NoEntry
        PROVE  \E h \in heard : /\ h[1] = w /\ h[3] = file[w].level
                                /\ w \in Dateless \/ file[w].reset \in h[2]..(h[2] + Jitter)
    <3>1. PICK h \in heard : h[1] = w /\ h[3] = file[w].level /\ Matches(file[w].reset, w, h[2])
      BY <2>1 DEF IInv, Backed
    <3>2. h[2] \in Nat /\ Jitter \in Nat
      BY <2>1, HeardTypes, NotificationsAssumption DEF IInv
    <3>3. w \in Dateless \/ file[w].reset \in h[2]..(h[2] + Jitter)
      BY <3>1, <3>2 DEF Matches
    <3> QED
      BY <3>1, <3>3
  <2> QED
    BY <2>1 DEF EntriesWereAnnounced
<1> QED
  BY InitIInv, <1>1, <1>2, PTL DEF Spec
=============================================================================
