-------------------------- MODULE PairWorkerProofs --------------------------
(***************************************************************************)
(* The pair worker, for every setting of the pair, every backlog and every *)
(* number of candles, restarts and failing items: an entry is attempted    *)
(* once, candles are committed one after the other, and only the newest    *)
(* one enters.                                                             *)
(***************************************************************************)
EXTENDS PairWorker, FiniteSetTheorems, SequenceTheorems, WellFoundedInduction, TLAPS

Keys == Nat \X {"long", "short"}
Items == [kind : {"candles", "forming", "report"}, from : Nat, to : Nat]

TypeOK ==
    /\ setup \in Setups
    /\ now \in Nat /\ handed \in Nat /\ committed \in Nat
    /\ queue \in Seq(Items) /\ work \in Seq(Nat)
    /\ acted \subseteq Keys /\ journal.acted \subseteq Keys
    /\ attempts \in Seq(Keys)
    /\ tripped \in BOOLEAN /\ up \in BOOLEAN
    /\ budget \in [restarts : 0..setup.restarts, failures : 0..setup.failures]

IsCandles(item) == item.kind = "candles"

\* The candles of the tick in work are still to be committed, in order.
WorkInv ==
    /\ committed <= handed /\ handed < now
    /\ \A i \in 1..Len(work) : committed < work[i] /\ work[i] <= handed
    /\ \A i, j \in 1..Len(work) : i < j => work[i] < work[j]
    /\ ~up => work = <<>> /\ queue = <<>>

\* So are those of the ticks in the queue, after them.
QueueInv ==
    /\ \A k \in 1..Len(queue) : IsCandles(queue[k]) =>
           /\ committed < queue[k].from /\ queue[k].from <= queue[k].to
           /\ queue[k].to <= handed
           /\ \A i \in 1..Len(work) : work[i] < queue[k].from
    /\ \A j, k \in 1..Len(queue) :
           IsCandles(queue[j]) /\ IsCandles(queue[k]) /\ j < k => queue[j].to < queue[k].from

InWork(c) == \E i \in 1..Len(work) : work[i] = c
InQueue(c) ==
    \E k \in 1..Len(queue) : IsCandles(queue[k]) /\ queue[k].from <= c /\ c <= queue[k].to

\* While no item has failed, no candle that was handed over is missing.
CoverInv ==
    up /\ budget.failures = setup.failures =>
        \A c \in (committed + 1)..handed : InWork(c) \/ InQueue(c)

\* What was attempted for a candle that is still to come is remembered, in memory or, when
\* the session is down, on disk.
RememberInv ==
    /\ up /\ work = <<>> => journal.acted = acted
    /\ \A i \in 1..Len(attempts) :
           attempts[i][1] > committed => attempts[i] \in IF up THEN acted ELSE journal.acted

\* In a closed-candle session the guard's day is that of a committed candle, and the last
\* day that hit its limit still blocks.
GuardInv ==
    ~setup.realtime /\ budget.restarts = setup.restarts =>
        /\ up
        /\ \A k \in 1..Len(queue) : queue[k].kind /= "forming"
        /\ day \in Int /\ day <= Day(committed)
        /\ hit \subseteq Int /\ \A d \in hit : d <= day /\ (d = day => tripped)

IInv == TypeOK /\ WorkInv /\ QueueInv /\ CoverInv /\ RememberInv /\ GuardInv /\ ActsOnce
-----------------------------------------------------------------------------
(* Operators of the model *)

LEMMA SetupFacts ==
    ASSUME setup \in Setups
    PROVE  /\ setup.realtime \in BOOLEAN /\ setup.sides \subseteq {"long", "short"}
           /\ setup.perDay \in Nat /\ setup.perDay > 0
           /\ setup.keep \in Nat /\ setup.backlog \in Nat
           /\ setup.restarts \in Nat /\ setup.failures \in Nat
BY SetupsAssumption DEF Setup

LEMMA Emptiness ==
    ASSUME NEW S, NEW s \in Seq(S)
    PROVE  Len(s) \in Nat /\ (s = <<>> <=> Len(s) = 0)
BY EmptySeq, LenProperties

LEMMA DivMonotone ==
    ASSUME NEW p \in Nat, p > 0, NEW a \in Nat, NEW b \in Nat, a <= b
    PROVE  a \div p \in Nat /\ a \div p <= b \div p
<1> DEFINE m == a \div p
           n == b \div p
<1>1. m \in Int /\ m * p <= a /\ a < m * p + p
  OBVIOUS
<1>2. n \in Int /\ n * p <= b /\ b < n * p + p
  OBVIOUS
<1> HIDE DEF m, n
<1>3. ASSUME n < m PROVE FALSE
  <2>1. n + 1 <= m
    BY <1>1, <1>2, <1>3
  <2>2. (n + 1) * p <= m * p /\ (n + 1) * p = n * p + p
    BY <2>1, <1>1, <1>2
  <2> QED BY <1>1, <1>2, <2>2
<1>4. ASSUME m < 0 PROVE FALSE
  <2>1. m + 1 <= 0
    BY <1>1, <1>4
  <2>2. (m + 1) * p <= 0 /\ (m + 1) * p = m * p + p
    BY <2>1, <1>1
  <2> QED BY <1>1, <2>2
<1> QED BY <1>1, <1>2, <1>3, <1>4 DEF m, n

\* The days of candles follow the candles.
LEMMA DayMonotone ==
    ASSUME setup \in Setups, NEW a \in Nat, NEW b \in Nat, a <= b
    PROVE  Day(a) \in Nat /\ Day(a) <= Day(b)
BY SetupFacts, DivMonotone DEF Day

\* A finite set is laid out as a sequence of its elements without repetition.
LEMMA SetToSeqFacts ==
    ASSUME NEW S, IsFiniteSet(S)
    PROVE  /\ SetToSeq(S) \in Seq(S)
           /\ IsInjective(SetToSeq(S))
<1>1. PICK f \in Bijection(1..Cardinality(S), S) : TRUE
  BY FS_CardinalityType DEF ExistsBijection
<1>2. f \in [1..Cardinality(S) -> S] /\ IsInjective(f)
  BY <1>1 DEF Bijection, Injection, IsInjective
<1>3. SetToSeq(S) \in [1..Cardinality(S) -> S] /\ IsInjective(SetToSeq(S))
  BY <1>2 DEF SetToSeq
<1> QED BY <1>3, FS_CardinalityType, SeqDef

\* Numbers below each other; every non-empty set of them has a least one.
Less == {pair \in Nat \X Nat : pair[1] < pair[2]}

LEMMA LeastNumber ==
    ASSUME NEW T, T \subseteq Nat, T /= {}
    PROVE  \E x \in T : \A y \in T : x <= y
<1>1. IsWellFoundedOn(Less, Nat)
  BY NatLessThanWellFounded, Zenon DEF OpToRel, Less
<1>2. PICK x \in T : \A y \in T : ~(<<y, x>> \in Less)
  BY <1>1, WFMin
<1>3. \A y \in T : x <= y
  <2> SUFFICES ASSUME NEW y \in T PROVE x <= y
    OBVIOUS
  <2>1. ~(<<y, x>> \in Less)
    BY <1>2
  <2> QED BY <2>1 DEF Less
<1> QED BY <1>3

\* The taken run is as long as can be, and only forming rows coalesce.
LEMMA TakenFacts ==
    ASSUME queue \in Seq(Items), queue /= <<>>
    PROVE  /\ Taken \in 1..Len(queue)
           /\ \A k \in 1..Taken : queue[k].kind = Item.kind
           /\ Item.kind /= "forming" => Taken = 1
           /\ Item \in Items
<1> DEFINE Runs == {n \in 1..Len(queue) : \A k \in 1..n : queue[k].kind = Head(queue).kind}
<1>1. Len(queue) \in Nat /\ Len(queue) >= 1 /\ Head(queue) = queue[1]
  BY EmptySeq
<1>2. 1 \in Runs
  BY <1>1
<1> DEFINE Over == {Len(queue) - n : n \in Runs}
<1>3. Over \subseteq Nat /\ Over /= {}
  BY <1>1, <1>2
<1>5. PICK x \in Over : \A y \in Over : x <= y
  BY <1>3, LeastNumber
<1>4. PICK m \in Runs : x = Len(queue) - m
  OBVIOUS
<1>6. \A n \in Runs : m >= n
  <2> SUFFICES ASSUME NEW n \in Runs PROVE m >= n
    OBVIOUS
  <2>1. Len(queue) - n \in Over
    OBVIOUS
  <2>2. x <= Len(queue) - n
    BY <1>5, <2>1
  <2> QED BY <1>1, <1>4, <2>2
<1>7. Max(Runs) \in Runs
  BY <1>6 DEF Max
<1>8. RunLength \in Runs
  BY <1>7 DEF RunLength
<1>9. /\ Taken \in 1..Len(queue) /\ \A k \in 1..Taken : queue[k].kind = Head(queue).kind
      /\ Head(queue).kind /= "forming" => Taken = 1
  BY <1>1, <1>8 DEF Taken, CoalesceKinds
<1>10. Item.kind = Head(queue).kind /\ Item \in Items
  BY <1>9, ElementOfSeq DEF Item
<1> QED BY <1>9, <1>10

LEMMA LeftFacts ==
    ASSUME queue \in Seq(Items), queue /= <<>>
    PROVE  /\ Left \in Seq(Items) /\ Len(Left) = Len(queue) - Taken
           /\ DOMAIN Left = 1..Len(Left)
           /\ \A k \in 1..Len(Left) : k + Taken \in 1..Len(queue) /\ Left[k] = queue[k + Taken]
<1>1. Taken \in 1..Len(queue) /\ Len(queue) \in Nat
  BY TakenFacts, LenProperties
<1>2. \A i \in (Taken + 1)..Len(queue) : queue[i] \in Items
  BY <1>1, ElementOfSeq
<1>3. /\ Left \in Seq(Items)
      /\ Len(Left) = IF Taken + 1 <= Len(queue) THEN Len(queue) - (Taken + 1) + 1 ELSE 0
      /\ \A i \in 1..(Len(queue) - (Taken + 1) + 1) : Left[i] = queue[Taken + 1 + i - 1]
  BY <1>1, <1>2, SubSeqProperties DEF Left
<1> QED BY <1>1, <1>3, LenProperties
-----------------------------------------------------------------------------
(* What a step that acts on candle c does to the entries and to the guard *)

New == (Len(attempts) + 1)..Len(attempts')

\* New entries are distinct, for c, not remembered before and remembered afterwards.
Entered(c, newest, horizon) ==
    /\ attempts' \in Seq(Keys) /\ acted' \subseteq Keys
    /\ Len(attempts) <= Len(attempts')
    /\ \A i \in 1..Len(attempts) : attempts'[i] = attempts[i]
    /\ \A i \in New : /\ attempts'[i][1] = c /\ newest
                      /\ attempts'[i] \notin acted
                      /\ c >= horizon => attempts'[i] \in acted'
    /\ \A i, j \in New : attempts'[i] = attempts'[j] => i = j
    /\ \A k \in acted : k[1] >= horizon => k \in acted'

\* The guard moves to the day of c; a trip of that day still blocks, and blocks entries.
Guarded(c) ==
    /\ day' = Day(c) /\ tripped' \in BOOLEAN
    /\ tripped /\ day = Day(c) => tripped' /\ New = {}
    /\ hit' \subseteq hit \cup {Day(c)}
    /\ hit' = hit \/ tripped'

\* Entries appended as a sequence without repetition.
LEMMA AppendedFacts ==
    ASSUME NEW s \in Seq(Keys), NEW S, S \subseteq Keys, IsFiniteSet(S),
           NEW t, t = s \o SetToSeq(S)
    PROVE  /\ t \in Seq(Keys) /\ Len(s) <= Len(t)
           /\ \A i \in 1..Len(s) : t[i] = s[i]
           /\ \A i \in (Len(s) + 1)..Len(t) : t[i] \in S
           /\ \A i, j \in (Len(s) + 1)..Len(t) : t[i] = t[j] => i = j
           /\ S = {} => Len(t) = Len(s)
<1> DEFINE q == SetToSeq(S)
<1>1. q \in Seq(S) /\ IsInjective(q)
  BY SetToSeqFacts
<1>2. q \in Seq(Keys)
  BY <1>1, SeqMonotonic
<1> HIDE DEF q
<1>3. /\ Len(s) \in Nat /\ Len(q) \in Nat /\ DOMAIN q = 1..Len(q)
      /\ \A i \in 1..Len(q) : q[i] \in S
  BY <1>1, <1>2, LenProperties, ElementOfSeq
<1>4. /\ t \in Seq(Keys) /\ Len(t) = Len(s) + Len(q)
      /\ \A i \in 1..(Len(s) + Len(q)) : t[i] = IF i <= Len(s) THEN s[i] ELSE q[i - Len(s)]
  <2>1. t = s \o q
    BY DEF q
  <2> QED BY <1>2, <2>1, ConcatProperties
<1>5. \A i \in (Len(s) + 1)..Len(t) : t[i] = q[i - Len(s)] /\ i - Len(s) \in 1..Len(q)
  BY <1>3, <1>4
<1>6. \A i, j \in (Len(s) + 1)..Len(t) : t[i] = t[j] => i = j
  <2> SUFFICES ASSUME NEW i \in (Len(s) + 1)..Len(t), NEW j \in (Len(s) + 1)..Len(t), t[i] = t[j]
               PROVE  i = j
    OBVIOUS
  <2>1. q[i - Len(s)] = q[j - Len(s)] /\ i - Len(s) \in DOMAIN q /\ j - Len(s) \in DOMAIN q
    BY <1>3, <1>5
  <2>2. i - Len(s) = j - Len(s)
    BY <1>1, <2>1, Zenon DEF IsInjective
  <2> QED BY <1>3, <1>4, <2>2
<1>7. S = {} => Len(q) = 0
  BY <1>3
<1>8. \A i \in (Len(s) + 1)..Len(t) : t[i] \in S
  BY <1>3, <1>5
<1>9. \A i \in 1..Len(s) : t[i] = s[i]
  BY <1>3, <1>4
<1>10. Len(s) <= Len(t) /\ (S = {} => Len(t) = Len(s))
  BY <1>3, <1>4, <1>7
<1> QED BY <1>4, <1>6, <1>8, <1>9, <1>10

LEMMA ActFacts ==
    ASSUME TypeOK, NEW c \in Nat, NEW asked, NEW newest \in BOOLEAN, NEW reconciles,
           NEW horizon \in Int, Act(c, asked, newest, reconciles, horizon)
    PROVE  Entered(c, newest, horizon) /\ Guarded(c)
<1>1. PICK signals \in IF asked THEN SUBSET setup.sides ELSE {{}},
           exit \in {FALSE, setup.exits /\ asked}, each \in 0..1, unreal \in 0..1,
           managed \in 0..positions :
    LET booked == Booked(losses, positions - managed, each)
        mark == Evaluate(c, booked, IF managed > 0 THEN unreal ELSE 0)
        newExit == exit /\ c \notin exitActed
        closes == (mark.trips /\ setup.flatten) \/ newExit
        fresh == {d \in signals : <<c, d>> \notin acted}
        tried == IF MayEnter(newest, mark.tripped) THEN fresh ELSE {}
    IN  /\ day' = mark.day /\ tripped' = mark.tripped
        /\ hit' = IF mark.trips THEN hit \cup {mark.day} ELSE hit
        /\ exitActed' = {e \in exitActed \cup (IF newExit THEN {c} ELSE {}) : e >= horizon}
        /\ acted' = {k \in acted \cup {<<c, d>> : d \in fresh} : k[1] >= horizon}
        /\ attempts' = attempts \o SetToSeq({<<c, d>> : d \in tried})
        /\ \E held \in IF closes THEN 0..managed ELSE {managed} :
           \E open \in {n \in Upto(held + Cardinality(tried)) : n >= held} :
           \E gone \in IF reconciles THEN 0..open ELSE {0} :
              /\ positions' = open - gone
              /\ losses' = Booked(booked, managed - held + gone, each)
  BY DEF Act
<1> DEFINE l == Booked(losses, positions - managed, each)
           hits == l[Day(c)] + (IF managed > 0 THEN unreal ELSE 0) >= Limit
           before == tripped /\ day = Day(c)
           fresh == {d \in signals : <<c, d>> \notin acted}
           tried == IF newest /\ ~(before \/ hits) THEN fresh ELSE {}
           S == {<<c, d>> : d \in tried}
<1>2. /\ day' = Day(c) /\ tripped' = (before \/ hits)
      /\ hit' = IF hits /\ ~before THEN hit \cup {Day(c)} ELSE hit
      /\ acted' = {k \in acted \cup {<<c, d>> : d \in fresh} : k[1] >= horizon}
      /\ attempts' = attempts \o SetToSeq(S)
  BY <1>1 DEF Evaluate, MayEnter
<1> HIDE DEF hits
<1>3. signals \subseteq {"long", "short"}
  BY <1>1, SetupFacts DEF TypeOK
<1>4. S \subseteq {<<c, "long">>, <<c, "short">>} /\ S \subseteq Keys
  <2>1. tried \subseteq {"long", "short"}
    <3>1. fresh \subseteq signals
      OBVIOUS
    <3>2. tried \subseteq fresh
      OBVIOUS
    <3> QED BY <1>3, <3>1, <3>2
  <2> HIDE DEF tried
  <2>2. S \subseteq {<<c, "long">>, <<c, "short">>}
    BY <2>1
  <2> QED BY <2>2 DEF Keys
<1>5. IsFiniteSet(S)
  <2>1. IsFiniteSet({<<c, "long">>, <<c, "short">>})
    <3>1. IsFiniteSet({} \cup {<<c, "long">>})
      BY FS_EmptySet, FS_AddElement
    <3>2. IsFiniteSet(({} \cup {<<c, "long">>}) \cup {<<c, "short">>})
      BY <3>1, FS_AddElement
    <3>3. ({} \cup {<<c, "long">>}) \cup {<<c, "short">>} = {<<c, "long">>, <<c, "short">>}
      OBVIOUS
    <3> QED BY <3>2, <3>3
  <2> QED BY <1>4, <2>1, FS_Subset
<1>6. /\ attempts' \in Seq(Keys) /\ Len(attempts) <= Len(attempts')
      /\ \A i \in 1..Len(attempts) : attempts'[i] = attempts[i]
      /\ \A i \in New : attempts'[i] \in S
      /\ \A i, j \in New : attempts'[i] = attempts'[j] => i = j
      /\ S = {} => Len(attempts') = Len(attempts)
  <2>1. attempts \in Seq(Keys) /\ attempts' = attempts \o SetToSeq(S)
    BY <1>2 DEF TypeOK
  <2> HIDE DEF S
  <2>2. \A t : t = attempts \o SetToSeq(S) =>
           /\ t \in Seq(Keys) /\ Len(attempts) <= Len(t)
           /\ \A i \in 1..Len(attempts) : t[i] = attempts[i]
           /\ \A i \in (Len(attempts) + 1)..Len(t) : t[i] \in S
           /\ \A i, j \in (Len(attempts) + 1)..Len(t) : t[i] = t[j] => i = j
           /\ S = {} => Len(t) = Len(attempts)
    BY <1>4, <1>5, <2>1, AppendedFacts
  <2> QED BY <2>1, <2>2 DEF New
<1>7. Entered(c, newest, horizon)
  <2>1. acted' \subseteq Keys
    <3>1. fresh \subseteq {"long", "short"}
      BY <1>3
    <3> HIDE DEF fresh
    <3>2. {<<c, d>> : d \in fresh} \subseteq Keys
      BY <3>1 DEF Keys
    <3> QED BY <1>2, <3>2 DEF TypeOK
  <2>2. \A k \in S : /\ k[1] = c /\ newest /\ k \notin acted
                     /\ c >= horizon => k \in acted'
    <3> SUFFICES ASSUME NEW k \in S
                 PROVE  /\ k[1] = c /\ newest /\ k \notin acted
                        /\ c >= horizon => k \in acted'
      OBVIOUS
    <3> PICK d \in tried : k = <<c, d>>
      OBVIOUS
    <3>1. newest /\ d \in fresh /\ <<c, d>> \notin acted
      OBVIOUS
    <3> HIDE DEF tried, fresh
    <3> QED BY <1>2, <3>1
  <2>3. \A k \in acted : k[1] >= horizon => k \in acted'
    BY <1>2
  <2> HIDE DEF S
  <2> QED BY <1>6, <2>1, <2>2, <2>3 DEF Entered
<1>8. Guarded(c)
  <2>1. before => New = {} /\ tripped'
    <3>1. before => S = {}
      OBVIOUS
    <3>2. Len(attempts) \in Nat
      BY LenProperties DEF TypeOK
    <3> QED BY <1>2, <1>6, <3>1, <3>2 DEF New
  <2> HIDE DEF S, tried, fresh
  <2> QED BY <1>2, <2>1 DEF Guarded, TypeOK
<1> QED BY <1>7, <1>8
-----------------------------------------------------------------------------
(* The steps, for each part of the invariant *)

\* Acting on a candle past the committed one attempts nothing again.
LEMMA EnteredOnce ==
    ASSUME IInv, up, NEW c \in Nat, committed < c, NEW newest, NEW horizon \in Int,
           Entered(c, newest, horizon), committed' \in Nat, committed <= committed',
           horizon <= committed' + 1, horizon <= c
    PROVE  /\ ActsOnce'
           /\ \A i \in DOMAIN attempts' : attempts'[i][1] > committed' => attempts'[i] \in acted'
<1>1. /\ Len(attempts) \in Nat /\ DOMAIN attempts = 1..Len(attempts)
      /\ Len(attempts') \in Nat /\ DOMAIN attempts' = 1..Len(attempts')
      /\ committed \in Nat
  BY LenProperties DEF IInv, TypeOK, Entered
<1>2. \A i \in 1..Len(attempts) :
          attempts'[i] = attempts[i] /\ attempts'[i][1] \in Nat
          /\ (attempts'[i][1] > committed => attempts'[i] \in acted)
  <2> SUFFICES ASSUME NEW i \in 1..Len(attempts)
               PROVE  attempts'[i] = attempts[i] /\ attempts'[i][1] \in Nat
                      /\ (attempts'[i][1] > committed => attempts'[i] \in acted)
    OBVIOUS
  <2>1. attempts'[i] = attempts[i]
    BY DEF Entered
  <2>2. attempts[i] \in Keys
    BY ElementOfSeq DEF IInv, TypeOK
  <2>3. attempts[i][1] \in Nat
    BY <2>2 DEF Keys
  <2>4. attempts[i][1] > committed => attempts[i] \in acted
    BY <1>1 DEF IInv, RememberInv
  <2> QED BY <2>1, <2>3, <2>4
<1>3. \A i \in DOMAIN attempts' : i \in 1..Len(attempts) \/ i \in New
  BY <1>1 DEF New
<1>4. \A i \in New : attempts'[i][1] = c /\ attempts'[i] \notin acted /\ attempts'[i] \in acted'
  BY <1>1 DEF Entered
<1>5. \A i \in 1..Len(attempts), j \in New : attempts'[i] /= attempts'[j]
  BY <1>1, <1>2, <1>4
<1>6. ActsOnce'
  <2> SUFFICES ASSUME NEW i \in DOMAIN attempts', NEW j \in DOMAIN attempts',
                      attempts'[i] = attempts'[j]
               PROVE  i = j
    BY DEF ActsOnce
  <2>1. CASE i \in New /\ j \in New
    BY <2>1 DEF Entered
  <2>2. CASE i \in 1..Len(attempts) /\ j \in 1..Len(attempts)
    BY <1>1, <1>2, <2>2 DEF IInv, ActsOnce
  <2> QED BY <1>3, <1>5, <2>1, <2>2
<1>7. ASSUME NEW i \in DOMAIN attempts', attempts'[i][1] > committed'
      PROVE  attempts'[i] \in acted'
  <2>1. CASE i \in New
    BY <1>4, <2>1
  <2>2. CASE i \in 1..Len(attempts)
    <3>1. attempts'[i][1] > committed /\ attempts'[i][1] >= horizon
      <4>1. attempts'[i][1] \in Nat
        BY <1>2, <2>2
      <4>2. PICK t \in Nat : t = attempts'[i][1]
        BY <4>1
      <4>3. PICK m \in Nat : m = committed'
        OBVIOUS
      <4>4. t > m /\ committed <= m /\ horizon <= m + 1 /\ committed \in Nat
        BY <1>1, <1>7, <4>2, <4>3
      <4>5. t > committed /\ t >= horizon
        BY <4>4
      <4> QED BY <4>2, <4>5
    <3>2. attempts'[i] \in acted
      BY <1>2, <2>2, <3>1
    <3> QED BY <3>1, <3>2 DEF Entered
  <2> QED BY <1>3, <2>1, <2>2
<1> QED BY <1>6, <1>7

\* Acting on a candle past the committed one keeps the guard, and enters nothing on a day
\* that hit its limit.
LEMMA GuardedForTheDay ==
    ASSUME IInv, ~setup.realtime, budget.restarts = setup.restarts,
           NEW c \in Nat, committed < c, Guarded(c)
    PROVE  /\ Day(c) \in Int
           /\ hit' \subseteq Int /\ \A d \in hit' : d <= day' /\ (d = day' => tripped')
           /\ New = {} \/ Day(c) \notin hit
<1>1. /\ day \in Int /\ day <= Day(committed)
      /\ hit \subseteq Int /\ \A d \in hit : d <= day /\ (d = day => tripped)
  BY DEF IInv, GuardInv
<1>2. Day(committed) \in Nat /\ Day(committed) <= Day(c) /\ Day(c) \in Nat
  <2>1. setup \in Setups /\ committed \in Nat
    BY DEF IInv, TypeOK
  <2>2. committed <= c /\ c <= c
    BY <2>1
  <2> QED
    BY <2>1, <2>2, DayMonotone
<1>3. \A d \in hit : d <= Day(c) /\ (d = Day(c) => tripped /\ day = Day(c))
  BY <1>1, <1>2
<1>4. hit' \subseteq hit \cup {Day(c)} /\ hit' \subseteq Int
  BY <1>1, <1>2 DEF Guarded
<1>5. \A d \in hit' : d <= Day(c) /\ (d = Day(c) => tripped')
  BY <1>2, <1>3, <1>4 DEF Guarded
<1> QED BY <1>2, <1>3, <1>4, <1>5 DEF Guarded
\* The typed facts about the candles still to come.
Typed(w, q) ==
    /\ Len(w) \in Nat /\ \A i \in 1..Len(w) : w[i] \in Nat
    /\ Len(q) \in Nat /\ \A k \in 1..Len(q) : q[k] \in Items /\ q[k].from \in Nat /\ q[k].to \in Nat

LEMMA TypedFacts ==
    ASSUME NEW w \in Seq(Nat), NEW q \in Seq(Items)
    PROVE  Typed(w, q) /\ (w = <<>> <=> Len(w) = 0) /\ (q = <<>> <=> Len(q) = 0)
<1>1. \A k \in 1..Len(q) : q[k] \in Items
  BY ElementOfSeq
<1>2. \A k \in 1..Len(q) : q[k].from \in Nat /\ q[k].to \in Nat
  BY <1>1 DEF Items
<1>3. \A i \in 1..Len(w) : w[i] \in Nat
  BY ElementOfSeq
<1> QED BY <1>1, <1>2, <1>3, LenProperties, EmptySeq DEF Typed

\* The candle at the head of the work is the first of the ones still to come; while no item
\* failed it is the next one.
LEMMA HeadFacts ==
    ASSUME IInv, up, work /= <<>>
    PROVE  /\ Typed(work, queue) /\ Len(work) >= 1 /\ Head(work) = work[1]
           /\ Head(work) \in Nat /\ committed \in Nat /\ handed \in Nat /\ now \in Nat
           /\ committed < Head(work) /\ Head(work) <= handed
           /\ \A i \in 1..Len(work) : /\ Head(work) <= work[i] /\ work[i] <= handed
                                      /\ i /= 1 => Head(work) < work[i]
           /\ budget.failures = setup.failures => Head(work) = committed + 1
<1>1. /\ Typed(work, queue) /\ Len(work) >= 1 /\ Head(work) = work[1]
      /\ committed \in Nat /\ handed \in Nat /\ now \in Nat
  <2>1. work \in Seq(Nat) /\ queue \in Seq(Items)
    BY DEF IInv, TypeOK
  <2>2. Typed(work, queue) /\ (Len(work) = 0 => work = <<>>)
    BY <2>1, TypedFacts
  <2> QED BY <2>1, <2>2 DEF IInv, TypeOK, Typed
<1>2. \A i \in 1..Len(work) : /\ work[1] <= work[i] /\ work[i] <= handed
                              /\ i /= 1 => work[1] < work[i]
  BY <1>1 DEF IInv, WorkInv, Typed
<1>3. committed < work[1] /\ work[1] <= handed /\ work[1] \in Nat
  BY <1>1 DEF IInv, WorkInv, Typed
<1>4. ASSUME budget.failures = setup.failures PROVE work[1] = committed + 1
  <2>1. committed + 1 \in (committed + 1)..handed
    BY <1>1, <1>3
  <2>2. ASSUME NEW i \in 1..Len(work), work[i] = committed + 1 PROVE work[1] = committed + 1
    BY <1>1, <1>2, <1>3, <2>2 DEF Typed
  <2>3. ASSUME NEW k \in 1..Len(queue), IsCandles(queue[k]), queue[k].from <= committed + 1
        PROVE  FALSE
    <3>1. work[1] < queue[k].from
      BY <1>1, <2>3 DEF IInv, QueueInv, Typed
    <3> QED BY <1>1, <1>3, <2>3, <3>1 DEF Typed
  <2> QED BY <1>4, <2>1, <2>2, <2>3 DEF IInv, CoverInv, InWork, InQueue
<1> QED BY <1>1, <1>2, <1>3, <1>4

\* Committing it keeps the order of the rest.
LEMMA CommitOrder ==
    ASSUME IInv, up, work /= <<>>, committed' = Head(work), work' = Tail(work),
           UNCHANGED <<setup, now, handed, queue, budget, up>>
    PROVE  WorkInv' /\ QueueInv' /\ CoverInv' /\ work' \in Seq(Nat)
<1>1. /\ Typed(work, queue) /\ Len(work) >= 1
      /\ committed \in Nat /\ handed \in Nat /\ now \in Nat
  BY HeadFacts
<1>2. /\ committed' = work[1] /\ work' \in Seq(Nat) /\ Len(work') = Len(work) - 1
      /\ \A i \in 1..Len(work') : work'[i] = work[i + 1]
  BY HeadFacts, HeadTailProperties, LenProperties DEF IInv, TypeOK
<1>3. \A i \in 1..Len(work) : /\ committed' <= work[i] /\ work[i] <= handed
                              /\ i /= 1 => committed' < work[i]
  BY HeadFacts
<1>4. committed < committed' /\ committed' <= handed /\ committed' \in Nat
  BY HeadFacts
<1>5. WorkInv'
  <2>1. \A i \in 1..Len(work') : committed' < work'[i] /\ work'[i] <= handed
    BY <1>1, <1>2, <1>3 DEF Typed
  <2>2. \A i, j \in 1..Len(work') : i < j => work'[i] < work'[j]
    BY <1>1, <1>2 DEF IInv, WorkInv, Typed
  <2> QED BY <1>4, <2>1, <2>2 DEF IInv, WorkInv
<1>6. QueueInv'
  <2>1. ASSUME NEW k \in 1..Len(queue), IsCandles(queue[k])
        PROVE  /\ committed' < queue[k].from /\ queue[k].from <= queue[k].to
               /\ queue[k].to <= handed
               /\ \A i \in 1..Len(work') : work'[i] < queue[k].from
    BY <1>1, <1>2, <2>1 DEF IInv, QueueInv, Typed
  <2> QED BY <2>1 DEF IInv, QueueInv, IsCandles
<1>7. CoverInv'
  <2> SUFFICES ASSUME budget.failures = setup.failures, NEW c \in (committed' + 1)..handed
               PROVE  InWork(c)' \/ InQueue(c)
    BY DEF CoverInv, InQueue, InWork, IsCandles
  <2>1. c \in (committed + 1)..handed /\ c /= work[1]
    BY <1>1, <1>2, <1>4
  <2>2. ASSUME NEW i \in 1..Len(work), work[i] = c PROVE \E j \in 1..Len(work') : work'[j] = c
    <3>1. i - 1 \in 1..Len(work') /\ work'[i - 1] = work[i]
      BY <1>1, <1>2, <2>1, <2>2 DEF Typed
    <3> QED BY <2>2, <3>1
  <2> QED BY <2>1, <2>2 DEF IInv, CoverInv, InWork
<1> QED BY <1>2, <1>5, <1>6, <1>7

\* Taking other items than ticks of the scheduler leaves what is still to come.
LEMMA LeaveOrder ==
    ASSUME IInv, up, work = <<>>, queue /= <<>>, Item.kind /= "candles", queue' = Left,
           UNCHANGED <<setup, now, handed, committed, work, budget, up>>
    PROVE  /\ WorkInv' /\ QueueInv' /\ CoverInv' /\ queue' \in Seq(Items)
           /\ \A k \in 1..Len(queue') : \E j \in 1..Len(queue) : queue'[k] = queue[j]
<1>1. /\ Taken \in 1..Len(queue) /\ Typed(work, queue)
      /\ \A k \in 1..Taken : ~IsCandles(queue[k])
  BY TakenFacts, TypedFacts DEF IInv, TypeOK, IsCandles
<1>2. /\ queue' \in Seq(Items) /\ Len(queue') = Len(queue) - Taken
      /\ \A k \in 1..Len(queue') : k + Taken \in 1..Len(queue) /\ queue'[k] = queue[k + Taken]
  BY LeftFacts DEF IInv, TypeOK
<1>3. 1..Len(work) = {}
  BY <1>1, EmptySeq
<1>4. WorkInv'
  BY DEF IInv, WorkInv
<1>5. QueueInv'
  <2>1. ASSUME NEW k \in 1..Len(queue'), IsCandles(queue'[k])
        PROVE  /\ committed < queue'[k].from /\ queue'[k].from <= queue'[k].to
               /\ queue'[k].to <= handed
    BY <1>2, <2>1 DEF IInv, QueueInv
  <2>2. ASSUME NEW j \in 1..Len(queue'), NEW k \in 1..Len(queue'),
               IsCandles(queue'[j]), IsCandles(queue'[k]), j < k
        PROVE  queue'[j].to < queue'[k].from
    BY <1>1, <1>2, <2>2 DEF IInv, QueueInv
  <2> QED BY <1>3, <2>1, <2>2 DEF QueueInv, IsCandles
<1>6. CoverInv'
  <2> SUFFICES ASSUME budget.failures = setup.failures, NEW c \in (committed + 1)..handed
               PROVE  InQueue(c)'
    BY DEF CoverInv, IsCandles
  <2>1. PICK k \in 1..Len(queue) : IsCandles(queue[k]) /\ queue[k].from <= c /\ c <= queue[k].to
    BY <1>3 DEF IInv, CoverInv, InQueue, InWork
  <2>2. k - Taken \in 1..Len(queue') /\ queue'[k - Taken] = queue[k]
    <3>1. k > Taken /\ Taken \in Nat /\ Len(queue) \in Nat
      BY <1>1, <2>1 DEF Typed
    <3>2. k - Taken \in 1..Len(queue') /\ (k - Taken) + Taken = k
      BY <1>2, <3>1
    <3> QED BY <1>2, <3>2
  <2> QED BY <2>1, <2>2 DEF InQueue, IsCandles
<1> QED BY <1>2, <1>4, <1>5, <1>6
\* A tick of the scheduler that is taken becomes the work.
LEMMA TakeOrder ==
    ASSUME IInv, TakeCandles
    PROVE  /\ WorkInv' /\ QueueInv' /\ CoverInv' /\ queue' \in Seq(Items)
           /\ work' \in Seq(Nat) /\ work' /= <<>>
           /\ \A k \in 1..Len(queue') : \E j \in 1..Len(queue) : queue'[k] = queue[j]
<1>1. /\ Typed(work, queue) /\ Len(queue) >= 1 /\ Taken = 1 /\ 1..Len(work) = {} /\ up
      /\ IsCandles(queue[1]) /\ queue[1].from \in Nat /\ queue[1].to \in Nat
      /\ committed \in Nat /\ handed \in Nat
  <2>1. Typed(work, queue) /\ Len(queue) >= 1 /\ Len(work) = 0 /\ up
    <3>1. queue \in Seq(Items) /\ work \in Seq(Nat)
      BY DEF IInv, TypeOK
    <3>2. work = <<>> /\ queue /= <<>> /\ up
      BY DEF TakeCandles, Ready
    <3>3. Len(queue) \in Nat
      BY <3>1, LenProperties
    <3>4. Typed(work, queue) /\ (work = <<>> => Len(work) = 0) /\ (Len(queue) = 0 => queue = <<>>)
      BY <3>1, TypedFacts
    <3> QED BY <3>2, <3>3, <3>4
  <2>2. Taken = 1 /\ IsCandles(queue[1])
    BY TakenFacts DEF IInv, TypeOK, TakeCandles, Ready, Item, IsCandles
  <2> QED BY <2>1, <2>2 DEF Typed, IInv, TypeOK
<1> DEFINE from == queue[1].from
           to == queue[1].to
<1>2. /\ queue' \in Seq(Items) /\ Len(queue') = Len(queue) - 1
      /\ \A k \in 1..Len(queue') : k + 1 \in 1..Len(queue) /\ queue'[k] = queue[k + 1]
  BY <1>1, LeftFacts DEF IInv, TypeOK, TakeCandles, Ready
<1>3. committed < from /\ from <= to /\ to <= handed
  BY <1>1 DEF IInv, QueueInv, Typed
<1>4. /\ work' \in Seq(Nat) /\ Len(work') = to - from + 1
      /\ \A k \in 1..Len(work') : work'[k] = from + k - 1
  <2>1. work' = [k \in 1..(to - from + 1) |-> from + k - 1]
    BY <1>1 DEF TakeCandles, Item
  <2>2. to - from + 1 \in Nat /\ \A k \in 1..(to - from + 1) : from + k - 1 \in Nat
    <3>1. from \in Nat /\ to \in Nat /\ from <= to
      BY <1>1, <1>3
    <3> HIDE DEF from, to
    <3> QED BY <3>1
  <2> HIDE DEF from, to
  <2>3. work' \in [1..(to - from + 1) -> Nat]
    <3>1. [k \in 1..(to - from + 1) |-> from + k - 1] \in [1..(to - from + 1) -> Nat]
      BY <2>2
    <3> QED BY <2>1, <3>1, Zenon
  <2> QED BY <2>1, <2>2, <2>3, SeqDef, LenProperties
<1>5. WorkInv'
  <2>1. \A i \in 1..Len(work') : committed < work'[i] /\ work'[i] <= handed
    BY <1>1, <1>3, <1>4, SMTT(20)
  <2>2. \A i, j \in 1..Len(work') : i < j => work'[i] < work'[j]
    BY <1>1, <1>3, <1>4, SMTT(20)
  <2> QED BY <1>1, <2>1, <2>2 DEF IInv, WorkInv, TakeCandles
<1>6. QueueInv'
  <2>1. ASSUME NEW k \in 1..Len(queue'), IsCandles(queue'[k])
        PROVE  /\ committed < queue'[k].from /\ queue'[k].from <= queue'[k].to
               /\ queue'[k].to <= handed
               /\ \A i \in 1..Len(work') : work'[i] < queue'[k].from
    <3>1. k + 1 \in 1..Len(queue) /\ queue'[k] = queue[k + 1] /\ 1 \in 1..Len(queue) /\ 1 < k + 1
      BY <1>1, <1>2
    <3>2. queue[1].to < queue[k + 1].from
      BY <1>1, <2>1, <3>1 DEF IInv, QueueInv
    <3>3. queue[k + 1].from \in Nat
      BY <1>1, <3>1 DEF Typed
    <3>4. ASSUME NEW i \in 1..Len(work') PROVE work'[i] <= to
      <4>1. from \in Nat /\ to \in Nat /\ work'[i] = from + i - 1 /\ Len(work') = to - from + 1
        BY <1>1, <1>4
      <4> HIDE DEF from, to
      <4>2. from + i - 1 <= to
        BY <4>1
      <4> QED BY <4>1, <4>2
    <3>5. ASSUME NEW i \in 1..Len(work') PROVE work'[i] < queue'[k].from
      <4>1. work'[i] \in Nat
        BY <1>4, ElementOfSeq
      <4> QED BY <1>1, <3>1, <3>2, <3>3, <3>4, <4>1, SMTT(20)
    <3> QED BY <1>1, <2>1, <3>1, <3>5 DEF IInv, QueueInv
  <2>2. ASSUME NEW j \in 1..Len(queue'), NEW k \in 1..Len(queue'),
               IsCandles(queue'[j]), IsCandles(queue'[k]), j < k
        PROVE  queue'[j].to < queue'[k].from
    <3>1. /\ j + 1 \in 1..Len(queue) /\ queue'[j] = queue[j + 1]
          /\ k + 1 \in 1..Len(queue) /\ queue'[k] = queue[k + 1] /\ j + 1 < k + 1
      BY <1>2, <2>2
    <3> QED BY <2>2, <3>1 DEF IInv, QueueInv
  <2> QED BY <2>1, <2>2 DEF QueueInv, IsCandles, TakeCandles
<1>7. CoverInv'
  <2> SUFFICES ASSUME budget.failures = setup.failures, NEW c \in (committed + 1)..handed
               PROVE  InWork(c)' \/ InQueue(c)'
    BY DEF CoverInv, IsCandles, TakeCandles
  <2>1. PICK k \in 1..Len(queue) : IsCandles(queue[k]) /\ queue[k].from <= c /\ c <= queue[k].to
    BY <1>1 DEF IInv, CoverInv, InQueue, InWork
  <2>2. CASE k = 1
    <3>1. c \in Int /\ from <= c /\ c <= to
      BY <1>1, <2>1, <2>2
    <3> HIDE DEF from, to
    <3>2. c - from + 1 \in 1..Len(work') /\ from + (c - from + 1) - 1 = c
      BY <1>1, <1>3, <1>4, <3>1, SMTT(20) DEF from, to
    <3>3. work'[c - from + 1] = c
      BY <1>4, <3>2
    <3> QED BY <3>2, <3>3 DEF InWork
  <2>3. CASE k /= 1
    <3>1. k - 1 \in 1..Len(queue') /\ (k - 1) + 1 = k
      BY <1>1, <1>2, <2>1, <2>3
    <3>2. queue'[k - 1] = queue[k]
      BY <1>2, <3>1
    <3> QED BY <2>1, <3>1, <3>2 DEF InQueue, IsCandles
  <2> QED BY <2>2, <2>3
<1>8. work' /= <<>>
  <2> HIDE DEF from, to
  <2>1. from \in Nat /\ to \in Nat
    BY <1>1 DEF from, to
  <2>2. Len(work') /= 0
    BY <1>3, <1>4, <2>1
  <2> QED BY <2>2
<1>9. \A k \in 1..Len(queue') : \E j \in 1..Len(queue) : queue'[k] = queue[j]
  BY <1>2
<1> QED BY <1>2, <1>4, <1>5, <1>6, <1>7, <1>8, <1>9

\* A producer appends a tick past all others, or another kind of item.
LEMMA PutOrder ==
    ASSUME IInv, up, up', NEW item \in Items, queue' = Append(queue, item), handed' \in Nat,
           \/ ~IsCandles(item) /\ handed' = handed
           \/ item = Candles(handed + 1, handed') /\ handed < handed' /\ handed' < now,
           UNCHANGED <<setup, now, committed, work, budget>>
    PROVE  /\ WorkInv' /\ QueueInv' /\ CoverInv' /\ queue' \in Seq(Items)
           /\ \A k \in 1..Len(queue') :
                  queue'[k] = item \/ \E j \in 1..Len(queue) : queue'[k] = queue[j]
<1>1. Typed(work, queue) /\ committed \in Nat /\ handed \in Nat /\ now \in Nat
  BY TypedFacts DEF IInv, TypeOK
<1>2. /\ queue' \in Seq(Items) /\ Len(queue') = Len(queue) + 1
      /\ \A k \in 1..Len(queue) : queue'[k] = queue[k]
      /\ queue'[Len(queue) + 1] = item
  BY AppendProperties DEF IInv, TypeOK
<1>3. \A k \in 1..Len(queue') : k \in 1..Len(queue) \/ k = Len(queue) + 1
  BY <1>1, <1>2 DEF Typed
<1>4. IsCandles(item) => item.from = handed + 1 /\ item.to = handed'
  BY DEF IsCandles, Candles
<1>5. handed <= handed' /\ handed' < now
  BY <1>1 DEF IInv, WorkInv
<1>6. WorkInv'
  <2>1. \A i \in 1..Len(work) : committed < work[i] /\ work[i] <= handed'
    BY <1>1, <1>5 DEF IInv, WorkInv, Typed
  <2>2. committed <= handed'
    BY <1>1, <1>5 DEF IInv, WorkInv
  <2> QED BY <1>5, <2>1, <2>2 DEF IInv, WorkInv
<1>7. \A k \in 1..Len(queue) : IsCandles(queue[k]) =>
          /\ committed < queue[k].from /\ queue[k].from <= queue[k].to
          /\ queue[k].to <= handed
          /\ \A i \in 1..Len(work) : work[i] < queue[k].from
  BY DEF IInv, QueueInv
<1>8. QueueInv'
  <2>1. ASSUME NEW k \in 1..Len(queue'), IsCandles(queue'[k])
        PROVE  /\ committed < queue'[k].from /\ queue'[k].from <= queue'[k].to
               /\ queue'[k].to <= handed'
               /\ \A i \in 1..Len(work) : work[i] < queue'[k].from
    <3>1. CASE k \in 1..Len(queue)
      BY <1>1, <1>2, <1>5, <1>7, <2>1, <3>1 DEF Typed
    <3>2. CASE k = Len(queue) + 1
      <4>1. \A i \in 1..Len(work) : work[i] < handed + 1
        BY <1>1 DEF IInv, WorkInv, Typed
      <4>2. committed < handed + 1
        BY <1>1 DEF IInv, WorkInv
      <4>3. handed < handed'
        BY <1>2, <2>1, <3>2
      <4> QED BY <1>1, <1>2, <1>4, <2>1, <3>2, <4>1, <4>2, <4>3
    <3> QED BY <1>3, <3>1, <3>2
  <2>2. ASSUME NEW j \in 1..Len(queue'), NEW k \in 1..Len(queue'),
               IsCandles(queue'[j]), IsCandles(queue'[k]), j < k
        PROVE  queue'[j].to < queue'[k].from
    <3>1. j \in 1..Len(queue) /\ queue'[j] = queue[j]
      BY <1>1, <1>2, <1>3, <2>2 DEF Typed
    <3>2. CASE k \in 1..Len(queue)
      BY <1>2, <2>2, <3>1, <3>2 DEF IInv, QueueInv
    <3>3. CASE k = Len(queue) + 1
      BY <1>1, <1>2, <1>4, <1>7, <2>2, <3>1, <3>3 DEF Typed
    <3> QED BY <1>3, <3>2, <3>3
  <2> QED BY <2>1, <2>2 DEF QueueInv, IsCandles
<1>9. CoverInv'
  <2> SUFFICES ASSUME budget.failures = setup.failures, NEW c \in (committed + 1)..handed'
               PROVE  InWork(c) \/ InQueue(c)'
    BY DEF CoverInv, InWork
  <2>1. CASE c <= handed
    <3>1. InWork(c) \/ InQueue(c)
      BY <1>1, <1>5, <2>1 DEF IInv, CoverInv
    <3>2. ASSUME NEW k \in 1..Len(queue), IsCandles(queue[k]), queue[k].from <= c, c <= queue[k].to
          PROVE  InQueue(c)'
      <4>1. k \in 1..Len(queue') /\ queue'[k] = queue[k]
        BY <1>1, <1>2 DEF Typed
      <4> QED BY <3>2, <4>1 DEF InQueue, IsCandles
    <3> QED BY <3>1, <3>2 DEF InQueue
  <2>2. CASE c > handed
    <3>1. item = Candles(handed + 1, handed')
      BY <1>1, <2>2
    <3>2. Len(queue) + 1 \in 1..Len(queue') /\ handed + 1 <= c /\ c <= handed'
      BY <1>1, <1>2, <2>2 DEF Typed
    <3>3. IsCandles(item) /\ item.from = handed + 1 /\ item.to = handed'
      BY <3>1 DEF Candles, IsCandles
    <3> QED BY <1>2, <3>2, <3>3 DEF InQueue, IsCandles
  <2> QED BY <1>1, <2>1, <2>2
<1> QED BY <1>2, <1>3, <1>6, <1>8, <1>9
-----------------------------------------------------------------------------
(* The actions *)

\* What a step does with the candles it was handed.
Turn == EntersOnNewest /\ CommitsEveryCandle /\ BlockedForTheDay

\* No forming row appears in a closed-candle session.
NoNewForming ==
    \A k \in 1..Len(queue') : \/ setup.realtime
                              \/ queue'[k].kind /= "forming"
                              \/ \E j \in 1..Len(queue) : queue'[k] = queue[j]

\* A step that enters nothing and keeps the guard.
LEMMA QuietStep ==
    ASSUME IInv, UNCHANGED <<setup, attempts, hit, acted, day, tripped, committed, up>>,
           UNCHANGED budget, work = <<>> \/ work' /= <<>>,
           \/ UNCHANGED journal
           \/ up /\ work = <<>> /\ journal'.acted = acted,
           NoNewForming
    PROVE  /\ RememberInv' /\ GuardInv' /\ ActsOnce' /\ Turn
           /\ journal'.acted \subseteq Keys
<1>1. RememberInv' /\ journal'.acted \subseteq Keys
  <2>1. attempts' = attempts /\ acted' = acted /\ committed' = committed /\ up' = up
    OBVIOUS
  <2>2. (up /\ work = <<>> => journal.acted = acted) /\ acted \subseteq Keys /\ journal.acted \subseteq Keys
    BY DEF IInv, RememberInv, TypeOK
  <2>3. ~up => work = <<>>
    BY DEF IInv, WorkInv
  <2>4. journal'.acted = acted \/ (journal'.acted = journal.acted /\ (work' = <<>> => work = <<>>))
    OBVIOUS
  <2>5. ~up => journal' = journal
    OBVIOUS
  <2> QED BY <2>1, <2>2, <2>3, <2>4, <2>5 DEF IInv, RememberInv
<1>2. GuardInv'
  BY DEF IInv, GuardInv, NoNewForming, Day
<1>3. ActsOnce'
  BY DEF IInv, ActsOnce
<1>4. Len(attempts) \in Nat /\ Len(attempts') = Len(attempts)
  BY LenProperties DEF IInv, TypeOK
<1>5. (Len(attempts) + 1)..Len(attempts') = {}
  BY <1>4
<1> QED BY <1>1, <1>2, <1>3, <1>5 DEF Turn, EntersOnNewest, CommitsEveryCandle, BlockedForTheDay

LEMMA TakeCandlesStep == ASSUME IInv, TakeCandles PROVE IInv' /\ Turn
<1>1. /\ WorkInv' /\ QueueInv' /\ CoverInv' /\ queue' \in Seq(Items)
      /\ work' \in Seq(Nat) /\ work' /= <<>>
      /\ \A k \in 1..Len(queue') : \E j \in 1..Len(queue) : queue'[k] = queue[j]
  BY TakeOrder
<1>2. UNCHANGED <<setup, attempts, hit, acted, day, tripped, committed, up, journal, budget, now, handed>>
  BY DEF TakeCandles, dedup, guard, history
<1>3. RememberInv' /\ GuardInv' /\ ActsOnce' /\ Turn /\ journal'.acted \subseteq Keys
  BY <1>1, <1>2, QuietStep DEF NoNewForming
<1>4. TypeOK'
  BY <1>1, <1>2 DEF IInv, TypeOK
<1> QED BY <1>1, <1>3, <1>4 DEF IInv

LEMMA ProcessReportStep == ASSUME IInv, ProcessReport PROVE IInv' /\ Turn
<1>1. /\ UNCHANGED <<setup, attempts, hit, acted, day, tripped, committed, up, budget, now, handed, work>>
      /\ up /\ work = <<>> /\ queue /= <<>> /\ Item.kind /= "candles" /\ queue' = Left
      /\ journal'.acted = acted
  BY DEF ProcessReport, Ready, dedup, guard, history, Flushed
<1>2. /\ WorkInv' /\ QueueInv' /\ CoverInv' /\ queue' \in Seq(Items)
      /\ \A k \in 1..Len(queue') : \E j \in 1..Len(queue) : queue'[k] = queue[j]
  BY <1>1, LeaveOrder
<1>3. RememberInv' /\ GuardInv' /\ ActsOnce' /\ Turn /\ journal'.acted \subseteq Keys
  BY <1>1, <1>2, QuietStep DEF NoNewForming
<1>4. TypeOK'
  BY <1>1, <1>2, <1>3 DEF IInv, TypeOK
<1> QED BY <1>2, <1>3, <1>4 DEF IInv

\* The producers.
LEMMA PutStep ==
    ASSUME IInv, NEW item \in Items, Put(item), handed' \in Nat,
           \/ ~IsCandles(item) /\ handed' = handed
           \/ item = Candles(handed + 1, handed') /\ handed < handed' /\ handed' < now,
           setup.realtime \/ item.kind /= "forming"
    PROVE  IInv' /\ Turn
<1>1. /\ UNCHANGED <<setup, attempts, hit, acted, day, tripped, committed, up, budget, journal, now, work>>
      /\ up /\ queue' = Append(queue, item)
  BY DEF Put, dedup, guard, history
<1>2. /\ WorkInv' /\ QueueInv' /\ CoverInv' /\ queue' \in Seq(Items)
      /\ \A k \in 1..Len(queue') :
             queue'[k] = item \/ \E j \in 1..Len(queue) : queue'[k] = queue[j]
  BY <1>1, PutOrder
<1>3. RememberInv' /\ GuardInv' /\ ActsOnce' /\ Turn /\ journal'.acted \subseteq Keys
  BY <1>1, <1>2, QuietStep DEF NoNewForming
<1>4. TypeOK'
  BY <1>1, <1>2, <1>3 DEF IInv, TypeOK
<1> QED BY <1>2, <1>3, <1>4 DEF IInv

LEMMA ProducerStep == ASSUME IInv, PutCandles \/ PutForming \/ PutReport PROVE IInv' /\ Turn
<1>1. now \in Nat /\ handed \in Nat /\ handed < now /\ setup \in Setups
  BY DEF IInv, TypeOK, WorkInv
<1>2. CASE PutCandles
  <2>1. PICK c \in (handed + 1)..(now - 1) : Put(Candles(handed + 1, c)) /\ handed' = c
    BY <1>2 DEF PutCandles
  <2>2. /\ Candles(handed + 1, c) \in Items /\ Candles(handed + 1, c).kind /= "forming"
        /\ c \in Nat /\ handed < c /\ c < now
    BY <1>1, <2>1 DEF Candles, Items
  <2> QED BY <2>1, <2>2, PutStep
<1>3. CASE PutForming
  <2>1. PICK c \in {now, IF setup.lateRows THEN now - 1 ELSE now} : Put(Forming(c))
    BY <1>3 DEF PutForming
  <2>2. /\ Forming(c) \in Items /\ ~IsCandles(Forming(c))
        /\ setup.realtime /\ handed' = handed
    <3>1. c \in Nat
      BY <1>1
    <3> QED BY <1>3, <3>1 DEF PutForming, Forming, Items, IsCandles
  <2> QED BY <1>1, <2>1, <2>2, PutStep
<1>4. CASE PutReport
  <2>1. /\ Report \in Items /\ ~IsCandles(Report) /\ Report.kind /= "forming"
        /\ Put(Report) /\ handed' = handed
    BY <1>4 DEF PutReport, Report, Items, IsCandles
  <2> QED BY <1>1, <2>1, PutStep
<1> QED BY <1>2, <1>3, <1>4

LEMMA AdvanceStep == ASSUME IInv, Advance PROVE IInv' /\ Turn
<1>1. /\ UNCHANGED <<setup, attempts, hit, acted, day, tripped, committed, up, budget, journal,
                     handed, work, queue>>
      /\ now' = now + 1
  BY DEF Advance, dedup, guard, history
<1>2. RememberInv' /\ GuardInv' /\ ActsOnce' /\ Turn /\ journal'.acted \subseteq Keys
  BY <1>1, QuietStep DEF NoNewForming
<1>3. TypeOK'
  BY <1>1 DEF IInv, TypeOK
<1>4. WorkInv'
  BY <1>1 DEF IInv, WorkInv, TypeOK
<1>5. QueueInv' /\ CoverInv'
  BY <1>1 DEF IInv, QueueInv, CoverInv, InWork, InQueue, IsCandles
<1> QED BY <1>2, <1>3, <1>4, <1>5 DEF IInv
\* A session that ends leaves its entries to the journal, one that starts reads them back.
LEMMA StopStep == ASSUME IInv, Stop PROVE IInv' /\ Turn
<1>1. /\ UNCHANGED <<setup, attempts, hit, committed, journal, handed, now, work>>
      /\ work = <<>> /\ queue' = <<>> /\ up /\ ~up' /\ acted' = {} /\ tripped' = FALSE
      /\ up' = FALSE
      /\ budget.restarts > 0 /\ budget' = [budget EXCEPT !.restarts = @ - 1]
  BY DEF Stop, history
<1>2. /\ budget' \in [restarts : 0..setup.restarts, failures : 0..setup.failures]
      /\ budget'.restarts /= setup.restarts
  BY <1>1, SetupFacts DEF IInv, TypeOK
<1>3. TypeOK'
  BY <1>1, <1>2, EmptySeq DEF IInv, TypeOK
<1>4. WorkInv' /\ QueueInv' /\ CoverInv'
  <2>1. 1..Len(queue') = {}
    BY <1>1, EmptySeq
  <2> QED BY <1>1, <2>1 DEF IInv, WorkInv, QueueInv, CoverInv
<1>5. RememberInv' /\ GuardInv' /\ ActsOnce'
  BY <1>1, <1>2 DEF IInv, RememberInv, GuardInv, ActsOnce
<1>6. New = {}
  BY <1>1, LenProperties DEF IInv, TypeOK, New
<1>7. Turn
  BY <1>1, <1>6 DEF Turn, EntersOnNewest, CommitsEveryCandle, BlockedForTheDay, New
<1> QED BY <1>3, <1>4, <1>5, <1>7 DEF IInv

LEMMA StartStep == ASSUME IInv, Start PROVE IInv' /\ Turn
<1>1. /\ UNCHANGED <<setup, attempts, hit, day, tripped, budget, now, work, queue>>
      /\ ~up /\ up' = TRUE /\ committed' = now - 1 /\ handed' = now - 1
      /\ acted' = journal.acted /\ journal'.acted = acted'
  BY DEF Start, history, guard, Flushed
<1>2. /\ committed' \in Nat /\ committed \in Nat /\ committed <= committed' /\ committed' < now
      /\ work = <<>> /\ queue = <<>> /\ now \in Nat
  BY <1>1 DEF IInv, TypeOK, WorkInv
<1>3. TypeOK'
  BY <1>1, <1>2 DEF IInv, TypeOK
<1>4. WorkInv' /\ QueueInv' /\ CoverInv'
  <2>1. 1..Len(queue) = {} /\ 1..Len(work) = {} /\ (committed' + 1)..handed' = {}
    BY <1>1, <1>2, EmptySeq
  <2> QED BY <1>1, <1>2, <2>1 DEF WorkInv, QueueInv, CoverInv
<1>5. RememberInv'
  <2>1. ASSUME NEW i \in 1..Len(attempts), attempts[i][1] > committed'
        PROVE  attempts[i] \in journal.acted
    <3>1. attempts[i] \in Keys
      BY ElementOfSeq DEF IInv, TypeOK
    <3>2. attempts[i][1] \in Nat
      BY <3>1 DEF Keys
    <3> QED BY <1>1, <1>2, <2>1, <3>2 DEF IInv, RememberInv
  <2> QED BY <1>1, <2>1 DEF RememberInv
<1>6. GuardInv' /\ ActsOnce'
  BY <1>1 DEF IInv, GuardInv, ActsOnce
<1>7. New = {}
  BY <1>1, LenProperties DEF IInv, TypeOK, New
<1>8. Turn
  BY <1>1, <1>7 DEF Turn, EntersOnNewest, CommitsEveryCandle, BlockedForTheDay, New
<1> QED BY <1>3, <1>4, <1>5, <1>6, <1>8 DEF IInv

\* A candle of the work that is acted on and committed.
LEMMA CommitStep ==
    ASSUME IInv, up, work /= <<>>, committed' = Head(work),
           UNCHANGED <<setup, now, handed, queue, up>>,
           NEW newest \in BOOLEAN, newest => Len(work) = 1,
           NEW reconciles, NEW horizon \in Int, horizon <= Head(work),
           Act(Head(work), TRUE, newest, reconciles, horizon),
           budget'.restarts = budget.restarts
    PROVE  /\ Turn /\ ActsOnce' /\ GuardInv' /\ tripped' \in BOOLEAN
           /\ attempts' \in Seq(Keys) /\ acted' \subseteq Keys
           /\ \A i \in 1..Len(attempts') : attempts'[i][1] > committed' => attempts'[i] \in acted'
<1> DEFINE c == Head(work)
<1>1. /\ c \in Nat /\ committed \in Nat /\ committed < c /\ TypeOK
      /\ Len(work) \in Nat /\ DOMAIN work = 1..Len(work)
      /\ Len(work) = 1 => \A j \in DOMAIN work : c = work[j]
      /\ budget.failures = setup.failures => c = committed + 1
  BY HeadFacts, LenProperties DEF IInv, TypeOK
<1>2. Entered(c, newest, horizon) /\ Guarded(c)
  BY <1>1, ActFacts
<1>3. /\ ActsOnce' /\ attempts' \in Seq(Keys) /\ acted' \subseteq Keys
      /\ \A i \in DOMAIN attempts' : attempts'[i][1] > committed' => attempts'[i] \in acted'
  <2>1. horizon <= c /\ horizon <= c + 1 /\ committed <= c
    BY <1>1
  <2>2. committed' = c
    OBVIOUS
  <2> HIDE DEF c
  <2>3. committed' \in Nat /\ committed <= committed' /\ horizon <= committed' + 1 /\ horizon <= c
    BY <1>1, <2>1, <2>2
  <2>4. /\ ActsOnce'
        /\ \A i \in DOMAIN attempts' : attempts'[i][1] > committed' => attempts'[i] \in acted'
    BY <1>1, <1>2, <2>3, EnteredOnce
  <2> QED BY <1>2, <2>4 DEF Entered
<1>4. GuardInv' /\ BlockedForTheDay
  <2> SUFFICES ASSUME ~setup.realtime, budget.restarts = setup.restarts
               PROVE  /\ up' /\ \A k \in 1..Len(queue') : queue'[k].kind /= "forming"
                      /\ day' = Day(committed') /\ day' \in Int
                      /\ hit' \subseteq Int /\ \A d \in hit' : d <= day' /\ (d = day' => tripped')
                      /\ \A k \in New : Day(attempts'[k][1]) \notin hit
    BY DEF GuardInv, BlockedForTheDay, New, Day
  <2>1. /\ Day(c) \in Int
        /\ hit' \subseteq Int /\ \A d \in hit' : d <= day' /\ (d = day' => tripped')
        /\ New = {} \/ Day(c) \notin hit
    BY <1>1, <1>2, GuardedForTheDay
  <2> QED BY <1>2, <2>1 DEF IInv, GuardInv, Entered, Guarded
<1>5. EntersOnNewest
  BY <1>1, <1>2 DEF EntersOnNewest, Entered, New
<1>6. CommitsEveryCandle
  BY <1>1 DEF CommitsEveryCandle
<1> QED BY <1>2, <1>3, <1>4, <1>5, <1>6, LenProperties DEF Turn, Guarded

LEMMA CommitOlderStep == ASSUME IInv, CommitOlder PROVE IInv' /\ Turn
<1>1. /\ up /\ work /= <<>> /\ committed' = Head(work) /\ work' = Tail(work)
      /\ UNCHANGED <<setup, now, handed, queue, budget, up, journal>>
      /\ Act(Head(work), TRUE, FALSE, FALSE, 0)
      /\ work' /= <<>>
  <2>1. Len(work) > 1 /\ work \in Seq(Nat) /\ work' = Tail(work)
    BY DEF CommitOlder, IInv, TypeOK
  <2>2. work /= <<>>
    BY <2>1, Emptiness
  <2>3. Len(Tail(work)) = Len(work) - 1 /\ Tail(work) \in Seq(Nat)
    BY <2>1, <2>2, HeadTailProperties
  <2>4. \A n \in Nat : n > 1 => n - 1 /= 0
    OBVIOUS
  <2>5. Len(Tail(work)) /= 0
    BY <2>1, <2>3, <2>4, LenProperties
  <2>6. Tail(work) /= <<>>
    BY <2>3, <2>5, Emptiness
  <2> QED BY <2>2, <2>6 DEF CommitOlder
<1>2. WorkInv' /\ QueueInv' /\ CoverInv' /\ work' \in Seq(Nat)
  BY <1>1, CommitOrder
<1>3. Head(work) \in Nat /\ 0 \in Int /\ 0 <= Head(work) /\ FALSE \in BOOLEAN
  BY <1>1, HeadFacts
<1>4. /\ Turn /\ ActsOnce' /\ GuardInv' /\ tripped' \in BOOLEAN
      /\ attempts' \in Seq(Keys) /\ acted' \subseteq Keys
      /\ \A i \in 1..Len(attempts') : attempts'[i][1] > committed' => attempts'[i] \in acted'
  BY <1>1, <1>3, CommitStep
<1>5. RememberInv'
  BY <1>1, <1>4 DEF RememberInv
<1>6. TypeOK'
  BY <1>1, <1>2, <1>3, <1>4 DEF IInv, TypeOK
<1> QED BY <1>2, <1>4, <1>5, <1>6 DEF IInv

LEMMA CommitNewestStep == ASSUME IInv, CommitNewest PROVE IInv' /\ Turn
<1>1. /\ up /\ Len(work) = 1 /\ committed' = Head(work) /\ work' = <<>>
      /\ UNCHANGED <<setup, now, handed, queue, budget, up>>
      /\ Act(Head(work), TRUE, TRUE, TRUE, Head(work) - setup.keep)
      /\ journal'.acted = acted'
  BY DEF CommitNewest, Flushed
<1>2. work \in Seq(Nat) /\ work /= <<>> /\ Tail(work) = <<>>
  <2>1. work \in Seq(Nat)
    BY DEF IInv, TypeOK
  <2>2. work /= <<>>
    BY <1>1, <2>1, Emptiness
  <2>3. Tail(work) \in Seq(Nat) /\ Len(Tail(work)) = 0
    BY <1>1, <2>1, <2>2, HeadTailProperties
  <2> QED BY <2>1, <2>2, <2>3, Emptiness
<1>3. WorkInv' /\ QueueInv' /\ CoverInv' /\ work' \in Seq(Nat)
  BY <1>1, <1>2, CommitOrder
<1>4. Head(work) \in Nat /\ Head(work) - setup.keep \in Int /\ Head(work) - setup.keep <= Head(work)
  BY <1>1, <1>2, HeadFacts, SetupFacts, SMTT(20) DEF IInv, TypeOK
<1>5. /\ Turn /\ ActsOnce' /\ GuardInv' /\ tripped' \in BOOLEAN
      /\ attempts' \in Seq(Keys) /\ acted' \subseteq Keys
      /\ \A i \in 1..Len(attempts') : attempts'[i][1] > committed' => attempts'[i] \in acted'
  BY <1>1, <1>2, <1>4, CommitStep
<1>6. RememberInv'
  BY <1>1, <1>5 DEF RememberInv
<1>7. TypeOK'
  BY <1>1, <1>3, <1>4, <1>5 DEF IInv, TypeOK
<1> QED BY <1>3, <1>5, <1>6, <1>7 DEF IInv

\* What is left when the rest of the work is dropped.
LEMMA DropOrder ==
    ASSUME IInv, up, work /= <<>>, work' = <<>>, committed' \in {committed, Head(work)},
           budget.failures > 0, budget' = [budget EXCEPT !.failures = @ - 1],
           UNCHANGED <<setup, now, handed, queue, up>>
    PROVE  /\ WorkInv' /\ QueueInv' /\ CoverInv' /\ work' \in Seq(Nat) /\ committed' \in Nat
           /\ budget' \in [restarts : 0..setup.restarts, failures : 0..setup.failures]
           /\ budget'.restarts = budget.restarts
<1>1. 1..Len(work') = {} /\ work' \in Seq(Nat)
  BY EmptySeq
<1>2. /\ budget' \in [restarts : 0..setup.restarts, failures : 0..setup.failures]
      /\ budget'.restarts = budget.restarts /\ budget'.failures /= setup.failures
  <2>1. /\ budget \in [restarts : 0..setup.restarts, failures : 0..setup.failures]
        /\ setup.restarts \in Nat /\ setup.failures \in Nat
    BY SetupFacts DEF IInv, TypeOK
  <2> QED BY <2>1
<1>3. /\ committed' \in Nat /\ committed <= committed' /\ committed' <= Head(work)
      /\ Head(work) = work[1] /\ 1 \in 1..Len(work) /\ committed' <= handed
      /\ Typed(work, queue) /\ committed \in Nat /\ Head(work) \in Nat
  BY HeadFacts DEF Typed
<1>4. QueueInv'
  <2>1. ASSUME NEW k \in 1..Len(queue), IsCandles(queue[k]) PROVE committed' < queue[k].from
    <3>1. work[1] < queue[k].from
      BY <1>3, <2>1 DEF IInv, QueueInv
    <3> QED BY <1>3, <3>1 DEF Typed
  <2> QED BY <1>1, <2>1 DEF IInv, QueueInv, IsCandles
<1> QED BY <1>1, <1>2, <1>3, <1>4 DEF IInv, WorkInv, CoverInv

LEMMA ItemFailsStep == ASSUME IInv, ItemFails PROVE IInv' /\ Turn
<1>1. /\ up /\ work /= <<>> /\ work' = <<>> /\ budget.failures > 0
      /\ budget' = [budget EXCEPT !.failures = @ - 1]
      /\ UNCHANGED <<setup, now, handed, queue, up>> /\ journal'.acted = acted'
      /\ \/ UNCHANGED <<committed, acted, day, tripped, attempts, hit>>
         \/ committed' = Head(work) /\ Act(Head(work), TRUE, Len(work) = 1, FALSE, 0)
  BY DEF ItemFails, Flushed, dedup, guard, history
<1>2. /\ WorkInv' /\ QueueInv' /\ CoverInv' /\ work' \in Seq(Nat) /\ committed' \in Nat
      /\ budget' \in [restarts : 0..setup.restarts, failures : 0..setup.failures]
      /\ budget'.restarts = budget.restarts
  BY <1>1, DropOrder
<1>3. /\ Turn /\ ActsOnce' /\ GuardInv' /\ tripped' \in BOOLEAN
      /\ attempts' \in Seq(Keys) /\ acted' \subseteq Keys
      /\ \A i \in 1..Len(attempts') : attempts'[i][1] > committed' => attempts'[i] \in acted'
  <2>1. CASE UNCHANGED <<committed, acted, day, tripped, attempts, hit>>
    <3>1. New = {}
      BY <2>1, LenProperties DEF IInv, TypeOK, New
    <3>2. Turn
      BY <2>1, <3>1 DEF Turn, EntersOnNewest, CommitsEveryCandle, BlockedForTheDay, New
    <3>3. GuardInv'
      BY <1>1, <1>2, <2>1 DEF IInv, GuardInv, Day
    <3>4. ActsOnce' /\ tripped' \in BOOLEAN /\ attempts' \in Seq(Keys) /\ acted' \subseteq Keys
      BY <2>1 DEF IInv, TypeOK, ActsOnce
    <3> QED BY <1>1, <2>1, <3>2, <3>3, <3>4 DEF IInv, RememberInv
  <2>2. CASE committed' = Head(work) /\ Act(Head(work), TRUE, Len(work) = 1, FALSE, 0)
    <3>1. Head(work) \in Nat /\ 0 \in Int /\ 0 <= Head(work) /\ (Len(work) = 1) \in BOOLEAN
      BY <1>1, HeadFacts
    <3> QED BY <1>1, <1>2, <2>2, <3>1, CommitStep
  <2> QED BY <1>1, <2>1, <2>2
<1>4. RememberInv'
  BY <1>1, <1>3 DEF RememberInv
<1>5. TypeOK'
  BY <1>1, <1>2, <1>3 DEF IInv, TypeOK
<1> QED BY <1>2, <1>3, <1>4, <1>5 DEF IInv

LEMMA ProcessFormingStep == ASSUME IInv, ProcessForming PROVE IInv' /\ Turn
<1> DEFINE c == Item.from
<1>1. /\ up /\ work = <<>> /\ queue /= <<>> /\ Item.kind = "forming" /\ queue' = Left
      /\ UNCHANGED <<setup, now, handed, work, committed, budget, up>> /\ journal'.acted = acted'
      /\ \/ UNCHANGED <<acted, day, tripped, attempts, hit>>
         \/ ~(c <= committed) /\ \E asked \in {c > Last(frame.rows)} : Act(c, asked, TRUE, FALSE, 0)
  BY DEF ProcessForming, Ready, Flushed, dedup, guard, history
<1>2. Item \in Items /\ c \in Nat /\ committed \in Nat /\ Taken \in 1..Len(queue)
  <2>1. Item \in Items /\ Taken \in 1..Len(queue)
    BY <1>1, TakenFacts DEF IInv, TypeOK
  <2> QED BY <2>1 DEF Items, IInv, TypeOK
<1>3. /\ WorkInv' /\ QueueInv' /\ CoverInv' /\ queue' \in Seq(Items)
      /\ \A k \in 1..Len(queue') : \E j \in 1..Len(queue) : queue'[k] = queue[j]
  BY <1>1, LeaveOrder
<1>4. setup.realtime \/ budget.restarts /= setup.restarts
  BY <1>1, <1>2 DEF Item, IInv, GuardInv
<1>5. /\ ActsOnce' /\ tripped' \in BOOLEAN /\ EntersOnNewest
      /\ attempts' \in Seq(Keys) /\ acted' \subseteq Keys
      /\ \A i \in 1..Len(attempts') : attempts'[i][1] > committed' => attempts'[i] \in acted'
  <2>1. CASE UNCHANGED <<acted, day, tripped, attempts, hit>>
    <3>1. New = {}
      BY <2>1, LenProperties DEF IInv, TypeOK, New
    <3>2. EntersOnNewest
      BY <3>1 DEF EntersOnNewest, New
    <3>3. ActsOnce' /\ tripped' \in BOOLEAN /\ attempts' \in Seq(Keys) /\ acted' \subseteq Keys
      BY <2>1 DEF IInv, TypeOK, ActsOnce
    <3> QED BY <1>1, <2>1, <3>2, <3>3 DEF IInv, RememberInv
  <2>2. ASSUME committed < c, NEW asked, Act(c, asked, TRUE, FALSE, 0)
        PROVE  /\ ActsOnce' /\ tripped' \in BOOLEAN /\ EntersOnNewest
               /\ attempts' \in Seq(Keys) /\ acted' \subseteq Keys
               /\ \A i \in 1..Len(attempts') : attempts'[i][1] > committed' => attempts'[i] \in acted'
    <3>1. Entered(c, TRUE, 0) /\ Guarded(c)
      <4>1. TypeOK /\ TRUE \in BOOLEAN /\ 0 \in Int
        BY DEF IInv
      <4> HIDE DEF c
      <4> QED BY <1>2, <2>2, <4>1, ActFacts
    <3>2. 0 \in Int /\ 0 <= committed' + 1 /\ 0 <= c /\ committed' \in Nat /\ committed <= committed'
      BY <1>1, <1>2
    <3> HIDE DEF c
    <3>3. /\ ActsOnce'
          /\ \A i \in DOMAIN attempts' : attempts'[i][1] > committed' => attempts'[i] \in acted'
      BY <1>1, <1>2, <2>2, <3>1, <3>2, EnteredOnce
    <3>4. DOMAIN work = {}
      BY <1>1, LenProperties, EmptySeq
    <3>5. EntersOnNewest
      BY <1>1, <1>2, <2>2, <3>1, <3>4 DEF EntersOnNewest, Entered, New
    <3> QED BY <3>1, <3>3, <3>5, LenProperties DEF Entered, Guarded
  <2>3. committed < c \/ c <= committed
    BY <1>2
  <2> QED BY <1>1, <2>1, <2>2, <2>3
<1>6. GuardInv' /\ Turn
  BY <1>1, <1>4, <1>5 DEF GuardInv, Turn, CommitsEveryCandle, BlockedForTheDay
<1>7. RememberInv'
  BY <1>1, <1>5 DEF RememberInv
<1>8. TypeOK'
  BY <1>1, <1>3, <1>5 DEF IInv, TypeOK
<1> QED BY <1>3, <1>5, <1>6, <1>7, <1>8 DEF IInv

-----------------------------------------------------------------------------
(* The theorems *)

LEMMA InitIInv == Init => IInv
<1> SUFFICES ASSUME Init PROVE IInv
  OBVIOUS
<1>1. setup.restarts \in Nat /\ setup.failures \in Nat
  BY SetupFacts DEF Init
<1>2. TypeOK
  <2>1. budget \in [restarts : 0..setup.restarts, failures : 0..setup.failures]
    BY <1>1 DEF Init
  <2>2. queue \in Seq(Items) /\ work \in Seq(Nat) /\ attempts \in Seq(Keys)
    BY EmptySeq DEF Init
  <2>3. journal.acted = {} /\ acted = {}
    BY DEF Init
  <2> QED BY <2>1, <2>2, <2>3 DEF Init, TypeOK
<1>3. 1..Len(work) = {} /\ 1..Len(queue) = {} /\ DOMAIN attempts = {} /\ 1..Len(attempts) = {}
  BY EmptySeq DEF Init
<1>4. WorkInv /\ QueueInv /\ CoverInv /\ RememberInv /\ ActsOnce
  BY <1>3 DEF Init, WorkInv, QueueInv, CoverInv, RememberInv, ActsOnce
<1>5. GuardInv
  <2>1. Day(0) \in Nat
    BY DayMonotone DEF Init
  <2> QED BY <1>3, <2>1 DEF Init, GuardInv, NoDay
<1> QED BY <1>2, <1>4, <1>5 DEF IInv

LEMMA StutterIInv == ASSUME IInv, UNCHANGED vars PROVE IInv'
BY DEF IInv, TypeOK, WorkInv, QueueInv, IsCandles, CoverInv, InWork, InQueue, RememberInv,
       GuardInv, Day, ActsOnce, vars

LEMMA NextIInv == ASSUME IInv, Next PROVE IInv' /\ Turn
BY TakeCandlesStep, CommitOlderStep, CommitNewestStep, ProcessFormingStep, ProcessReportStep,
   ItemFailsStep, ProducerStep, AdvanceStep, StopStep, StartStep DEF Next, Consume

\* The inductive invariant, for every value of the constants.
THEOREM InductiveInvariant == Spec => []IInv
<1>1. IInv /\ [Next]_vars => IInv'
  BY NextIInv, StutterIInv
<1> QED BY InitIInv, <1>1, PTL DEF Spec

\* Over the forming rows of a candle, its close and restarts, no (candle, direction) is
\* entered twice: what _act_on_signals remembers is pruned only behind the committed candle,
\* and a restart reads it back before anything is evaluated.
THEOREM EnteredOncePerCandle == Spec => []ActsOnce
<1>1. IInv => ActsOnce
  BY DEF IInv
<1> QED BY InductiveInvariant, <1>1, PTL

\* Candles are committed one after the other, only the newest of a tick enters, and a
\* closed-candle session enters nothing more on a day that hit its limit.
THEOREM TakenInTurn == Spec => CandlesInTurn
<1>1. IInv /\ [Next]_vars => [EntersOnNewest /\ CommitsEveryCandle /\ BlockedForTheDay]_vars
  BY NextIInv DEF Turn
<1> QED BY InductiveInvariant, <1>1, PTL DEF Spec, CandlesInTurn
=============================================================================
