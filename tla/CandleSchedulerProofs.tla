------------------------ MODULE CandleSchedulerProofs ------------------------
(***************************************************************************)
(* The candle-close scheduler, for every candle length, tail size, retry   *)
(* budget and outage: the bars it hands over are final and strictly newer  *)
(* than all it handed over before.                                         *)
(***************************************************************************)
EXTENDS CandleScheduler, FiniteSetTheorems, TLAPS

HasNewest(S) == \E m \in S : \A b \in S : b <= m

\* The venue prints in order, so any choice of printed bars has a newest one.
PrintedInv ==
    /\ \A S \in SUBSET printed : S /= {} => HasNewest(S)
    /\ collected \subseteq printed

\* A round collects bars behind the mark and up to the newest one final at the fire.
RoundInv ==
    /\ pc \in {"collecting", "judging"} =>
           /\ firedAt >= Boundary
           /\ \A b \in collected : processed < b /\ b <= Expected
    /\ pc \in {"waiting", "collecting", "judging"} => processed /= NoBar

\* The mark lies at or past everything handed over, all of it final by now.
MarkInv ==
    /\ firedAt <= now
    /\ pc = "start" => delivered = {} /\ processed = NoBar
    /\ \A b \in delivered : b <= processed /\ IsFinal(b, firedAt)

IInv == TypeOK /\ PrintedInv /\ RoundInv /\ MarkInv /\ OnlyNewerBars

-----------------------------------------------------------------------------
LEMMA MaxOf ==
    ASSUME NEW S, HasNewest(S), \A b \in S : b \in Nat
    PROVE  Max(S) \in S /\ \A b \in S : b <= Max(S)
BY DEF Max, HasNewest

\* Grid points seen from a bar b on the grid at a later time t.
LEMMA GridPoints ==
    ASSUME NEW b \in Nat, OnGrid(b), NEW t \in Nat, t >= b + 2 * Tf
    PROVE  /\ OnGrid(NewestFinal(b, t)) /\ NewestFinal(b, t) \in Nat
           /\ b < NewestFinal(b, t)
           /\ IsFinal(NewestFinal(b, t), t)
<1> DEFINE q == (t - b - Tf) \div Tf
<1>1. q \in Int /\ q * Tf <= t - b - Tf /\ q >= 1
  BY TfAssumption
<1>2. PICK k \in 0..b : b = k * Tf
  BY DEF OnGrid
<1>3. NewestFinal(b, t) = (k + q) * Tf
  BY <1>1, <1>2, TfAssumption DEF NewestFinal
<1>4. k + q \in Nat /\ (k + q) * Tf \in Nat /\ (k + q) <= (k + q) * Tf
  BY <1>1, TfAssumption
<1>5. OnGrid(NewestFinal(b, t))
  BY <1>3, <1>4 DEF OnGrid
<1>6. q * Tf >= Tf /\ q * Tf \in Int
  BY <1>1, TfAssumption
<1>7. NewestFinal(b, t) = b + q * Tf
  BY DEF NewestFinal
<1> HIDE DEF q
<1> QED BY <1>1, <1>3, <1>4, <1>5, <1>6, <1>7, TfAssumption DEF IsFinal

\* The next grid point after t is a time of the future.
LEMMA NextGrid ==
    ASSUME NEW b \in Nat, NEW t \in Nat, b <= t
    PROVE  NextGridAfter(b, t) \in Nat /\ NextGridAfter(b, t) > t
<1> DEFINE q == (t - b) \div Tf
<1>1. q \in Int /\ q * Tf <= t - b /\ t - b < q * Tf + Tf
  BY TfAssumption
<1>2. (q + 1) * Tf = q * Tf + Tf /\ q * Tf \in Int
  BY <1>1, TfAssumption
<1> QED BY <1>1, <1>2, TfAssumption DEF NextGridAfter

LEMMA BarFacts == \A b \in Bars : b \in Nat /\ OnGrid(b)
<1> SUFFICES ASSUME NEW k \in 0..(MaxTime \div Tf) PROVE k * Tf \in Nat /\ OnGrid(k * Tf)
  BY DEF Bars
<1>1. MaxTime \div Tf \in Int
  BY TfAssumption, MaxTimeAssumption
<1>2. k \in Nat
  BY <1>1
<1>3. k * Tf \in Nat /\ k <= k * Tf
  BY <1>2, TfAssumption
<1> QED BY <1>2, <1>3 DEF OnGrid

LEMMA NatGrid == \A b \in Nat : OnGrid(b) => b /= NoBar
BY DEF NoBar

-----------------------------------------------------------------------------
LEMMA InitIInv == Init => IInv
<1> SUFFICES ASSUME Init PROVE IInv
  OBVIOUS
<1>1. now \in Nat /\ printed \in SUBSET Bars /\ \A b \in printed : b \in Nat /\ b <= Tf
  BY BarFacts, TfAssumption DEF Init
<1>2. TypeOK
  BY <1>1, BarFacts DEF Init, TypeOK, PC
<1>3. \A S \in SUBSET printed : S /= {} => HasNewest(S)
  <2>1. \A b \in printed : b = 0 \/ b = Tf
    <3> SUFFICES ASSUME NEW b \in printed PROVE b = 0 \/ b = Tf
      OBVIOUS
    <3>1. PICK k \in 0..b : b = k * Tf
      BY <1>1, BarFacts DEF OnGrid
    <3>2. k \in Nat /\ (k >= 2 => k * Tf >= 2 * Tf)
      BY <1>1, TfAssumption
    <3>3. k = 0 \/ k = 1
      BY <1>1, <3>1, <3>2, TfAssumption
    <3> QED BY <3>1, <3>3, TfAssumption
  <2> QED BY <2>1, TfAssumption DEF HasNewest
<1>4. PrintedInv
  BY <1>3 DEF Init, PrintedInv
<1> QED BY <1>1, <1>2, <1>4 DEF Init, IInv, RoundInv, MarkInv, OnlyNewerBars, delivered

\* The newest final grid point of a running round.
LEMMA RoundGrid ==
    ASSUME IInv, pc \in {"collecting", "judging"}
    PROVE  /\ processed \in Nat /\ Expected \in Nat /\ OnGrid(Expected)
           /\ processed < Expected /\ IsFinal(Expected, firedAt)
<1>1. processed \in Nat /\ OnGrid(processed)
  BY DEF IInv, RoundInv, TypeOK, OnGrid
<1>2. firedAt \in Nat /\ firedAt >= processed + 2 * Tf
  BY <1>1, TfAssumption DEF IInv, RoundInv, TypeOK, Boundary, NextBoundary
<1> QED BY <1>1, <1>2, GridPoints DEF Expected

\* A tick returned from a round, complete or given up, keeps the invariant.
LEMMA ReturnTickIInv ==
    ASSUME IInv, pc \in {"collecting", "judging"},
           NEW bars \in SUBSET Bars, bars \subseteq printed,
           \A b \in bars : processed < b /\ b <= Expected,
           NEW complete \in BOOLEAN, ReturnTick(bars, complete),
           UNCHANGED <<venueVars, stop, firedAt>>
    PROVE  IInv'
<1>1. /\ processed \in Nat /\ Expected \in Nat /\ OnGrid(Expected) /\ OnGrid(processed)
      /\ processed < Expected /\ IsFinal(Expected, firedAt)
      /\ now \in Nat /\ firedAt \in Nat /\ firedAt <= now
  <2>1. processed \in Nat => OnGrid(processed)
    BY DEF IInv, TypeOK, NoBar
  <2>2. now \in Nat /\ firedAt \in Nat /\ firedAt <= now
    BY DEF IInv, TypeOK, MarkInv
  <2> QED BY <2>1, <2>2, RoundGrid
<1> DEFINE mark == IF bars /= {} THEN Max(bars) ELSE IF complete THEN Expected ELSE processed
<1>2. bars /= {} => Max(bars) \in bars /\ \A b \in bars : b <= Max(bars)
  BY MaxOf, BarFacts DEF IInv, PrintedInv
<1>3. /\ mark \in Nat /\ OnGrid(mark) /\ processed <= mark /\ mark <= Expected
      /\ \A b \in bars : b <= mark
  BY <1>1, <1>2, BarFacts
<1>4. mark <= now
  BY <1>1, <1>3, TfAssumption DEF IsFinal
<1>5. /\ processed' = mark /\ pc' = "waiting" /\ collected' = {}
      /\ earlier' = earlier \cup tick /\ tick' = bars
      /\ deferUntil' = IF complete THEN 0 ELSE NextGridAfter(mark, now)
      /\ now' = now /\ printed' = printed /\ stop' = stop /\ firedAt' = firedAt
  BY DEF ReturnTick, Settle, venueVars
<1> HIDE DEF mark
<1>6. deferUntil' \in Nat
  BY <1>1, <1>3, <1>4, <1>5, NextGrid
<1>7. TypeOK'
  BY <1>3, <1>5, <1>6 DEF IInv, TypeOK, PC, OnGrid, Bars
<1>8. PrintedInv'
  BY <1>5 DEF IInv, PrintedInv, HasNewest
<1>9. RoundInv'
  BY <1>3, <1>5 DEF RoundInv, NoBar
<1>10. \A b \in bars : b \in Nat /\ IsFinal(b, firedAt)
  BY <1>1, BarFacts, TfAssumption DEF IsFinal
<1>11. MarkInv'
  <2>1. \A b \in delivered : b \in Nat /\ b <= mark /\ IsFinal(b, firedAt)
    BY <1>1, <1>3, BarFacts DEF IInv, MarkInv, delivered, TypeOK
  <2>2. delivered' = delivered \cup bars
    BY <1>5 DEF delivered
  <2> QED BY <1>1, <1>3, <1>5, <1>10, <2>1, <2>2 DEF MarkInv, IsFinal
<1>12. OnlyNewerBars'
  <2>1. \A a \in delivered : a \in Nat /\ a <= processed
    BY BarFacts DEF IInv, MarkInv, delivered, TypeOK
  <2> QED BY <1>1, <1>5, <1>10, <2>1 DEF OnlyNewerBars, delivered
<1> QED BY <1>7, <1>8, <1>9, <1>11, <1>12 DEF IInv

-----------------------------------------------------------------------------
LEMMA TickIInv == IInv /\ Tick => IInv'
<1> SUFFICES ASSUME IInv, Tick PROVE IInv'
  OBVIOUS
<1>1. now' = now + 1 /\ UNCHANGED <<printed, stop, pc, processed, deferUntil, roundVars, given>>
  BY DEF Tick
<1>2. TypeOK' /\ PrintedInv' /\ RoundInv' /\ OnlyNewerBars'
  BY <1>1 DEF IInv, TypeOK, PC, OnGrid, PrintedInv, RoundInv, OnlyNewerBars, roundVars,
              given, HasNewest, Boundary, Expected, NextBoundary, NewestFinal
<1>3. MarkInv'
  BY <1>1 DEF IInv, TypeOK, MarkInv, roundVars, given, delivered, IsFinal
<1> QED BY <1>2, <1>3 DEF IInv

LEMMA PrintBarIInv == ASSUME NEW b \in Bars, IInv, PrintBar(b) PROVE IInv'
<1>1. printed' = printed \cup {b} /\ (\A c \in printed : c < b)
      /\ UNCHANGED <<now, stop, pc, processed, deferUntil, roundVars, given>>
  BY DEF PrintBar
<1>2. TypeOK' /\ RoundInv' /\ OnlyNewerBars' /\ MarkInv'
  BY <1>1 DEF IInv, TypeOK, PC, OnGrid, RoundInv, OnlyNewerBars, MarkInv, roundVars, given,
              delivered, IsFinal, Boundary, Expected, NextBoundary, NewestFinal
<1>3. ASSUME NEW S \in SUBSET printed', S /= {} PROVE HasNewest(S)
  <2>1. CASE b \in S
    BY <1>1, <1>3, <2>1, BarFacts DEF IInv, TypeOK, HasNewest
  <2>2. CASE b \notin S
    BY <1>1, <1>3, <2>2 DEF IInv, PrintedInv
  <2> QED BY <2>1, <2>2
<1>4. PrintedInv'
  BY <1>1, <1>3 DEF IInv, PrintedInv, roundVars, HasNewest
<1> QED BY <1>2, <1>4 DEF IInv

\* Steps that only move pc between states with the same obligations.
LEMMA QuietIInv ==
    ASSUME IInv, SetStop \/ ReturnNone \/ FetchFails \/ FetchFailsAtStart PROVE IInv'
<1>1. /\ pc' \in PC /\ stop' \in BOOLEAN
      /\ UNCHANGED <<venueVars, processed, deferUntil, roundVars, given>>
      /\ pc' \in {"stopped", "failed"} \/ pc' = pc \/ (pc = "collecting" /\ pc' = "judging")
  BY DEF IInv, TypeOK, PC, SetStop, ReturnNone, FetchFails, FetchFailsAtStart
<1>2. TypeOK' /\ PrintedInv' /\ OnlyNewerBars'
  BY <1>1 DEF IInv, TypeOK, OnGrid, PrintedInv, HasNewest, OnlyNewerBars, venueVars, roundVars, given
<1>3. RoundInv' /\ MarkInv'
  BY <1>1 DEF IInv, RoundInv, MarkInv, delivered, IsFinal, venueVars, roundVars, given,
              Boundary, Expected, NextBoundary, NewestFinal
<1> QED BY <1>2, <1>3 DEF IInv

LEMMA InitBaselineIInv == ASSUME IInv, InitBaseline PROVE IInv'
<1> DEFINE finals == {b \in TailRows : IsFinal(b, now)}
<1>1. /\ pc = "start"
      /\ IF finals = {} THEN pc' = "failed" /\ processed' = processed
                        ELSE pc' = "waiting" /\ processed' = Max(finals)
      /\ UNCHANGED <<venueVars, stop, deferUntil, roundVars, given>>
  BY DEF InitBaseline
<1>2. finals \subseteq printed /\ finals \subseteq Bars
  BY DEF TailRows, IInv, TypeOK
<1>3. finals /= {} => Max(finals) \in finals
  BY <1>2, MaxOf, BarFacts DEF IInv, PrintedInv
<1> HIDE DEF finals
<1>4. processed' = processed \/ OnGrid(processed')
  BY <1>1, <1>2, <1>3, BarFacts
<1>5. TypeOK' /\ PrintedInv' /\ OnlyNewerBars'
  BY <1>1, <1>4 DEF IInv, TypeOK, PC, OnGrid, PrintedInv, HasNewest, OnlyNewerBars,
                    venueVars, roundVars, given
<1>6. RoundInv'
  BY <1>1, <1>2, <1>3, BarFacts, NatGrid DEF RoundInv
<1>7. MarkInv'
  BY <1>1 DEF IInv, MarkInv, delivered, IsFinal, venueVars, roundVars, given
<1> QED BY <1>5, <1>6, <1>7 DEF IInv

LEMMA FireIInv == ASSUME IInv, Fire PROVE IInv'
<1>1. /\ pc = "waiting" /\ now >= Boundary
      /\ pc' = "collecting" /\ firedAt' = now /\ collected' = {}
      /\ UNCHANGED <<venueVars, stop, processed, deferUntil, given>>
  BY DEF Fire
<1>2. TypeOK' /\ PrintedInv' /\ OnlyNewerBars'
  BY <1>1 DEF IInv, TypeOK, PC, OnGrid, PrintedInv, HasNewest, OnlyNewerBars, venueVars, given
<1>3. RoundInv'
  BY <1>1 DEF IInv, RoundInv, Boundary, NextBoundary, venueVars
<1>4. ASSUME NEW b \in delivered PROVE b <= processed /\ IsFinal(b, now)
  <2>1. b \in Nat /\ b <= processed /\ IsFinal(b, firedAt) /\ firedAt <= now
    BY BarFacts DEF IInv, MarkInv, TypeOK, delivered
  <2> QED BY <2>1, TfAssumption DEF IsFinal, IInv, TypeOK
<1>5. MarkInv'
  BY <1>1, <1>4 DEF IInv, TypeOK, MarkInv, delivered, IsFinal, venueVars, given
<1> QED BY <1>2, <1>3, <1>5 DEF IInv

LEMMA FetchIInv == ASSUME IInv, Fetch PROVE IInv'
<1> DEFINE bars == collected \cup {b \in Rows : processed < b /\ b <= Expected}
           settled == Expected \in bars \/ \E b \in Rows : b > Expected
<1>1. /\ pc = "collecting"
      /\ UNCHANGED <<venueVars, stop, firedAt>>
      /\ settled => ReturnTick(bars, TRUE)
      /\ ~settled => /\ collected' = bars /\ pc' = "judging"
                     /\ UNCHANGED <<processed, deferUntil, given>>
  BY DEF Fetch
<1>2. Rows \subseteq printed
  BY DEF Rows, RangeRows, TailRows
<1>3. bars \subseteq printed /\ bars \in SUBSET Bars
  BY <1>2 DEF IInv, PrintedInv, TypeOK
<1>4. \A b \in bars : processed < b /\ b <= Expected
  BY <1>1 DEF IInv, RoundInv
<1>5. CASE settled
  BY <1>1, <1>3, <1>4, <1>5, ReturnTickIInv
<1>6. CASE ~settled
  <2>1. collected' = bars /\ pc' = "judging"
        /\ UNCHANGED <<venueVars, stop, firedAt, processed, deferUntil, given>>
    BY <1>1, <1>6
  <2> HIDE DEF bars, settled
  <2>2. TypeOK' /\ PrintedInv' /\ OnlyNewerBars'
    BY <1>3, <2>1 DEF IInv, TypeOK, PC, OnGrid, PrintedInv, HasNewest, OnlyNewerBars, venueVars, given
  <2>3. RoundInv' /\ MarkInv'
    BY <1>1, <1>4, <2>1 DEF IInv, RoundInv, MarkInv, Boundary, NextBoundary, Expected,
                            NewestFinal, delivered, IsFinal, venueVars, given
  <2> QED BY <2>2, <2>3 DEF IInv
<1> QED BY <1>5, <1>6

LEMMA JudgeIInv == ASSUME IInv, Judge PROVE IInv'
<1>1. CASE now >= Deadline
  <2>1. pc = "judging" /\ ReturnTick(collected, FALSE) /\ UNCHANGED <<venueVars, stop, firedAt>>
    BY <1>1 DEF Judge
  <2>2. collected \in SUBSET Bars /\ collected \subseteq printed
        /\ \A b \in collected : processed < b /\ b <= Expected
    BY <2>1 DEF IInv, TypeOK, PrintedInv, RoundInv
  <2> QED BY <2>1, <2>2, ReturnTickIInv
<1>2. CASE ~(now >= Deadline)
  <2>1. /\ pc = "judging" /\ pc' = "collecting"
        /\ UNCHANGED <<venueVars, stop, firedAt, processed, deferUntil, collected, given>>
    BY <1>2 DEF Judge
  <2>2. TypeOK' /\ PrintedInv' /\ OnlyNewerBars'
    BY <2>1 DEF IInv, TypeOK, PC, OnGrid, PrintedInv, HasNewest, OnlyNewerBars, venueVars, given
  <2>3. RoundInv' /\ MarkInv'
    BY <2>1 DEF IInv, RoundInv, MarkInv, Boundary, NextBoundary, Expected, NewestFinal,
                delivered, IsFinal, venueVars, given
  <2> QED BY <2>2, <2>3 DEF IInv
<1> QED BY <1>1, <1>2

LEMMA StutterIInv == ASSUME IInv, UNCHANGED vars PROVE IInv'
<1>1. TypeOK' /\ PrintedInv' /\ OnlyNewerBars'
  BY DEF vars, IInv, TypeOK, OnGrid, PrintedInv, HasNewest, OnlyNewerBars
<1>2. RoundInv' /\ MarkInv'
  BY DEF vars, IInv, RoundInv, MarkInv, Boundary, NextBoundary, Expected, NewestFinal,
         delivered, IsFinal
<1> QED BY <1>1, <1>2 DEF IInv

LEMMA NextIInv == IInv /\ [Next]_vars => IInv'
<1> SUFFICES ASSUME IInv, [Next]_vars PROVE IInv'
  OBVIOUS
<1>1. CASE Next
  BY <1>1, TickIInv, PrintBarIInv, QuietIInv, InitBaselineIInv, FireIInv, FetchIInv, JudgeIInv
     DEF Next
<1>2. CASE UNCHANGED vars
  BY <1>2, StutterIInv
<1> QED BY <1>1, <1>2

THEOREM InductiveInvariant == Spec => []IInv
BY InitIInv, NextIInv, PTL DEF Spec

-----------------------------------------------------------------------------
\* wait_next_close keeps its mark on the bar grid and its bookkeeping well typed.
THEOREM TypeCorrect == Spec => []TypeOK
<1>1. IInv => TypeOK
  BY DEF IInv
<1> QED BY <1>1, InductiveInvariant, PTL

\* No tick ever carries a bar that was still forming when its boundary fired.
THEOREM NeverEarly == Spec => []OnlyFinalBars
<1>1. IInv => OnlyFinalBars
  BY DEF IInv, MarkInv, OnlyFinalBars
<1> QED BY <1>1, InductiveInvariant, PTL

\* No tick repeats a bar or goes back behind one, whatever failed or was retried.
THEOREM NeverRepeated == Spec => []OnlyNewerBars
<1>1. IInv => OnlyNewerBars
  BY DEF IInv
<1> QED BY <1>1, InductiveInvariant, PTL

\* A round that gave up waits for a boundary of the future.
THEOREM NeverSpins == Spec => GiveUpDefers
<1>1. ASSUME IInv, [Next]_vars, pc = "judging", pc' = "waiting" PROVE Boundary' > now'
  <2>1. Judge
    BY <1>1 DEF Next, vars, Tick, PrintBar, SetStop, ReturnNone, InitBaseline, FetchFailsAtStart,
                Fire, Fetch, FetchFails
  <2> DEFINE mark == IF collected /= {} THEN Max(collected) ELSE processed
  <2>2. /\ processed' = mark /\ deferUntil' = NextGridAfter(mark, now) /\ now' = now
    BY <1>1, <2>1 DEF Judge, ReturnTick, Settle, venueVars
  <2>3. mark \in Nat /\ mark <= now
    <3>1. processed \in Nat /\ Expected \in Nat /\ processed < Expected /\ Expected <= now
      BY <1>1, RoundGrid, TfAssumption DEF IInv, TypeOK, MarkInv, IsFinal
    <3>2. collected /= {} => Max(collected) \in Nat /\ Max(collected) <= Expected
      BY <1>1, MaxOf, BarFacts DEF IInv, TypeOK, PrintedInv, RoundInv
    <3> QED BY <1>1, <3>1, <3>2 DEF IInv, TypeOK
  <2> HIDE DEF mark
  <2>4. now \in Nat
    BY <1>1 DEF IInv, TypeOK
  <2> QED BY <2>2, <2>3, <2>4, NextGrid, TfAssumption DEF Boundary, NextBoundary
<1> QED BY <1>1, InductiveInvariant, PTL DEF Spec, GiveUpDefers

-----------------------------------------------------------------------------
(* The refinement of CandleStream, where every round ends in its interval. *)

\* The clock is in the interval the round was fired in, which the bound on time reaches.
ClockInv ==
    /\ \A b \in printed : b <= now
    /\ now \div Tf <= MaxTime \div Tf
    /\ pc \in {"collecting", "judging"} =>
           /\ now <= Deadline + Stall
           /\ (Deadline + Stall) \div Tf = firedAt \div Tf

\* What a round has collected has no gap: every printed bar between the mark and a
\* collected one is collected.
NoGapInv ==
    pc \in {"collecting", "judging"} =>
        \A b \in printed, c \in collected : processed < b /\ b <= c => b \in collected

RInv == IInv /\ ClockInv /\ NoGapInv

LEMMA DivMonotone ==
    ASSUME NEW s \in Int, NEW t \in Int, s <= t
    PROVE  s \div Tf \in Int /\ s \div Tf <= t \div Tf
<1> DEFINE p == s \div Tf
           q == t \div Tf
<1>1. p \in Int /\ p * Tf <= s /\ s < p * Tf + Tf
  BY TfAssumption
<1>2. q \in Int /\ q * Tf <= t /\ t < q * Tf + Tf
  BY TfAssumption
<1> HIDE DEF p, q
<1>3. ASSUME q < p PROVE FALSE
  <2>1. q + 1 <= p
    BY <1>1, <1>2, <1>3
  <2>2. (q + 1) * Tf <= p * Tf /\ (q + 1) * Tf = q * Tf + Tf
    BY <2>1, <1>1, <1>2, TfAssumption
  <2> QED BY <1>1, <1>2, <2>2, TfAssumption
<1>4. p <= q
  BY <1>1, <1>2, <1>3
<1> QED BY <1>1, <1>4 DEF p, q

\* A multiple of Tf divides into its factor.
LEMMA DivGrid ==
    ASSUME NEW k \in Int
    PROVE  (k * Tf) \div Tf = k
<1> DEFINE q == (k * Tf) \div Tf
<1>1. q \in Int /\ q * Tf <= k * Tf /\ k * Tf < q * Tf + Tf
  BY TfAssumption
<1> HIDE DEF q
<1>2. k < q => k + 1 <= q
  BY <1>1
<1>3. k + 1 <= q => (k + 1) * Tf <= q * Tf
  BY <1>1, TfAssumption
<1>4. (k + 1) * Tf = k * Tf + Tf /\ (q + 1) * Tf = q * Tf + Tf
  BY <1>1, TfAssumption
<1>5. q < k => q + 1 <= k
  BY <1>1
<1>6. q + 1 <= k => (q + 1) * Tf <= k * Tf
  BY <1>1, TfAssumption
<1> QED BY <1>1, <1>2, <1>3, <1>4, <1>5, <1>6, TfAssumption DEF q

\* The expected bar is the one before the bar that is forming at the fire.
LEMMA ExpectedIndex ==
    ASSUME NEW b \in Nat, OnGrid(b), NEW t \in Nat
    PROVE  NewestFinal(b, t) = (t \div Tf - 1) * Tf
<1>1. PICK k \in 0..b : b = k * Tf
  BY DEF OnGrid
<1> DEFINE q == (t - b - Tf) \div Tf
           r == t \div Tf
<1>2. q \in Int /\ q * Tf <= t - b - Tf /\ t - b - Tf < q * Tf + Tf
  BY TfAssumption
<1>3. r \in Int /\ r * Tf <= t /\ t < r * Tf + Tf
  BY TfAssumption
<1>4. NewestFinal(b, t) = b + q * Tf
  BY DEF NewestFinal
<1> HIDE DEF q, r
<1>5. b + q * Tf = (k + q) * Tf /\ (k + q) * Tf + Tf = (k + q + 1) * Tf
      /\ (r + 1) * Tf = r * Tf + Tf /\ (k + q + 2) * Tf = (k + q + 1) * Tf + Tf
  BY <1>1, <1>2, <1>3, TfAssumption
<1>6. r < k + q + 1 => (r + 1) * Tf <= (k + q + 1) * Tf
  BY <1>1, <1>2, <1>3, TfAssumption
<1>7. k + q + 1 < r => (k + q + 2) * Tf <= r * Tf
  BY <1>1, <1>2, <1>3, TfAssumption
<1>8. r = k + q + 1
  BY <1>1, <1>2, <1>3, <1>5, <1>6, <1>7, TfAssumption
<1> QED BY <1>1, <1>2, <1>3, <1>4, <1>5, <1>8 DEF r

\* The indices of the marks of a running round.
LEMMA RoundIndex ==
    ASSUME RInv, pc \in {"collecting", "judging"}
    PROVE  /\ processed \in Nat /\ OnGrid(processed)
           /\ Expected = (now \div Tf - 1) * Tf /\ now \div Tf \in Int
           /\ now \div Tf <= MaxTime \div Tf
<1>1. processed \in Nat /\ OnGrid(processed)
  BY RoundGrid DEF RInv, IInv, TypeOK, NoBar
<1>2. now \in Int /\ firedAt \in Nat /\ firedAt <= now /\ now <= Deadline + Stall
      /\ (Deadline + Stall) \div Tf = firedAt \div Tf /\ Deadline + Stall \in Int
  BY FetchTimeoutAssumption, StallAssumption
     DEF RInv, IInv, TypeOK, MarkInv, ClockInv, Deadline
<1>3. firedAt \div Tf <= now \div Tf /\ now \div Tf <= (Deadline + Stall) \div Tf
      /\ now \div Tf \in Int /\ firedAt \div Tf \in Int
  BY <1>2, DivMonotone
<1>4. firedAt \div Tf = now \div Tf
  BY <1>2, <1>3
<1>5. Expected = (firedAt \div Tf - 1) * Tf
  BY <1>1, <1>2, ExpectedIndex DEF Expected
<1> QED BY <1>1, <1>3, <1>4, <1>5 DEF RInv, ClockInv

\* Only so many bars lie behind a bar, as many as the grid has room for.
LEMMA NewerBars ==
    ASSUME RInv, NEW k \in Nat, k * Tf <= now
    PROVE  LET newer == {c \in printed : c > k * Tf}
           IN  IsFiniteSet(newer) /\ Cardinality(newer) <= now \div Tf - k
<1> DEFINE newer == {c \in printed : c > k * Tf}
           room == (k + 1)..(now \div Tf)
           index == [c \in newer |-> c \div Tf]
<1>1. now \in Int /\ k * Tf \in Int
  BY TfAssumption DEF RInv, IInv, TypeOK
<1>2. now \div Tf \in Int /\ k <= now \div Tf
  BY <1>1, DivMonotone, DivGrid
<1>3. ASSUME NEW c \in newer
      PROVE  c \div Tf \in room /\ c = (c \div Tf) * Tf
  <2>1. c \in Nat /\ OnGrid(c) /\ k * Tf < c /\ c <= now
    BY BarFacts DEF RInv, IInv, TypeOK, ClockInv
  <2>2. PICK j \in 0..c : c = j * Tf
    BY <2>1 DEF OnGrid
  <2>3. c \div Tf = j
    BY <2>2, <2>1, DivGrid
  <2>4. j <= now \div Tf
    BY <2>1, <2>3, <1>1, DivMonotone
  <2>5. j <= k => j * Tf <= k * Tf
    BY <2>1, TfAssumption
  <2> QED BY <2>1, <2>2, <2>3, <2>4, <2>5, <1>1, <1>2
<1> HIDE DEF newer, room
<1>4. index \in Injection(newer, room)
  BY <1>3 DEF Injection, IsInjective
<1>5. IsFiniteSet(room) /\ Cardinality(room) = IF k + 1 > now \div Tf THEN 0 ELSE now \div Tf - k
  <2>1. k + 1 \in Int
    OBVIOUS
  <2>2. IsFiniteSet(room) /\ Cardinality(room) = IF k + 1 > now \div Tf THEN 0 ELSE now \div Tf - (k + 1) + 1
    BY <1>2, <2>1, FS_Interval, Zenon DEF room
  <2> QED BY <1>2, <2>2
<1>6. IsFiniteSet(newer) /\ Cardinality(newer) <= Cardinality(room)
  BY <1>4, <1>5, FS_Injection
<1>7. Cardinality(newer) \in Nat
  BY <1>6, FS_CardinalityType
<1> QED BY <1>2, <1>5, <1>6, <1>7 DEF newer

\* While the round's interval lasts, a fetch shows every bar that printed behind the mark.
LEMMA RowsComplete ==
    ASSUME RInv, pc = "collecting", NEW b \in printed, processed < b
    PROVE  b \in Rows
<1>1. /\ processed \in Nat /\ OnGrid(processed) /\ now \div Tf \in Int
      /\ Expected = (now \div Tf - 1) * Tf
  BY RoundIndex
<1>2. PICK p \in 0..processed : processed = p * Tf
  BY <1>1 DEF OnGrid
<1>3. b \in Nat /\ OnGrid(b) /\ b <= now
  BY BarFacts DEF RInv, IInv, TypeOK, ClockInv
<1>4. PICK k \in 0..b : b = k * Tf
  BY <1>3 DEF OnGrid
<1>5. p < k
  <2>1. k <= p => k * Tf <= p * Tf
    BY <1>1, <1>3, TfAssumption
  <2> QED BY <1>1, <1>2, <1>3, <1>4, <2>1
<1>6. processed + Tf <= b
  <2>1. (p + 1) * Tf <= k * Tf /\ (p + 1) * Tf = p * Tf + Tf
    BY <1>1, <1>3, <1>5, TfAssumption
  <2> QED BY <1>2, <1>4, <2>1
<1>7. Missed = now \div Tf - 1 - p
  <2>1. Expected - processed = (now \div Tf - 1 - p) * Tf
    BY <1>1, <1>2, TfAssumption
  <2> QED BY <1>1, <2>1, DivGrid DEF Missed
<1>8. CASE Missed >= TailCount
  BY <1>6, <1>8 DEF Rows, RangeRows
<1>9. CASE ~(Missed >= TailCount)
  <2> DEFINE newer == {c \in printed : c > b}
  <2>1. IsFiniteSet(newer) /\ Cardinality(newer) <= now \div Tf - k
    BY <1>3, <1>4, NewerBars
  <2>2. Cardinality(newer) \in Nat
    BY <2>1, FS_CardinalityType
  <2> HIDE DEF newer
  <2>3. Cardinality(newer) < TailCount
    BY <1>1, <1>5, <1>7, <1>9, <2>1, <2>2, TailCountAssumption
  <2> QED BY <1>9, <2>3 DEF Rows, TailRows, newer
<1> QED BY <1>8, <1>9

LEMMA InitRInv == Init => RInv
<1> SUFFICES ASSUME Init PROVE RInv
  OBVIOUS
<1>1. now \in Nat /\ now <= MaxTime
  BY TfAssumption, MaxTimeAssumption DEF Init
<1>2. now \div Tf <= MaxTime \div Tf
  BY <1>1, DivMonotone, MaxTimeAssumption
<1>3. (\A b \in printed : b <= now) /\ pc \notin {"collecting", "judging"}
  BY DEF Init
<1> QED BY <1>2, <1>3, InitIInv DEF RInv, ClockInv, NoGapInv

\* A round collects without gaps, because the fetch that added a bar showed all before it.
LEMMA FetchNoGap ==
    ASSUME RInv, Fetch, pc' = "judging"
    PROVE  NoGapInv'
<1> DEFINE bars == collected \cup {b \in Rows : processed < b /\ b <= Expected}
           settled == Expected \in bars \/ \E b \in Rows : b > Expected
<1>1. pc = "collecting" /\ UNCHANGED <<venueVars, stop, firedAt>>
  BY DEF Fetch
<1>2. ~settled
  BY DEF Fetch, ReturnTick, Settle
<1>3. collected' = bars /\ UNCHANGED <<processed, deferUntil, given>>
  BY <1>2 DEF Fetch
<1>4. \A c \in bars : c <= Expected
  BY <1>1 DEF RInv, IInv, RoundInv
<1>5. ASSUME NEW b \in printed, NEW c \in bars, processed < b, b <= c PROVE b \in bars
  <2>1. b \in Nat /\ c \in Nat
    BY BarFacts DEF RInv, IInv, TypeOK, PrintedInv, Rows, RangeRows, TailRows
  <2>2. Expected \in Int
    BY <1>1, RoundGrid DEF RInv
  <2>3. b <= Expected
    BY <1>4, <1>5, <2>1, <2>2
  <2> QED BY <1>1, <1>5, <2>3, RowsComplete
<1> QED BY <1>1, <1>3, <1>5 DEF NoGapInv, venueVars

LEMMA TickRInv == ASSUME RInv, Tick PROVE RInv'
<1>1. /\ now < MaxTime \/ pc \in {"collecting", "judging"}
      /\ pc \in {"collecting", "judging"} => now < Deadline + Stall
      /\ now' = now + 1 /\ UNCHANGED <<printed, stop, pc, processed, deferUntil, roundVars, given>>
  BY DEF Tick
<1>2. now \in Nat /\ Deadline + Stall \in Int /\ firedAt \in Nat /\ firedAt <= now
      /\ \A b \in printed : b \in Nat
  BY FetchTimeoutAssumption, StallAssumption, BarFacts DEF RInv, IInv, TypeOK, MarkInv, Deadline
<1>3. now' \div Tf <= MaxTime \div Tf
  <2>1. CASE pc \in {"collecting", "judging"}
    <3>1. now' <= Deadline + Stall /\ (Deadline + Stall) \div Tf = firedAt \div Tf
      BY <1>1, <1>2, <2>1 DEF RInv, ClockInv
    <3>2. /\ now' \div Tf <= (Deadline + Stall) \div Tf /\ firedAt \div Tf <= now \div Tf
          /\ now' \div Tf \in Int /\ firedAt \div Tf \in Int /\ now \div Tf \in Int
          /\ MaxTime \div Tf \in Int
      BY <1>1, <1>2, <3>1, DivMonotone, MaxTimeAssumption
    <3> QED BY <3>1, <3>2 DEF RInv, ClockInv
  <2>2. CASE pc \notin {"collecting", "judging"}
    BY <1>1, <1>2, <2>2, DivMonotone, MaxTimeAssumption
  <2> QED BY <2>1, <2>2
<1>4. ClockInv'
  BY <1>1, <1>2, <1>3 DEF RInv, ClockInv, Deadline, roundVars
<1>5. NoGapInv'
  BY <1>1 DEF RInv, NoGapInv, roundVars
<1> QED BY <1>4, <1>5, TickIInv DEF RInv

LEMMA PrintBarRInv == ASSUME NEW b \in Bars, RInv, PrintBar(b) PROVE RInv'
<1>1. b <= now /\ printed' = printed \cup {b} /\ (\A c \in printed : c < b)
      /\ UNCHANGED <<now, stop, pc, processed, deferUntil, roundVars, given>>
  BY DEF PrintBar
<1>2. ClockInv'
  BY <1>1 DEF RInv, ClockInv, Deadline, roundVars
<1>3. \A c \in collected : c < b /\ c \in Nat
  BY <1>1, BarFacts DEF RInv, IInv, PrintedInv, TypeOK
<1>4. NoGapInv'
  BY <1>1, <1>3, BarFacts DEF RInv, NoGapInv, roundVars
<1> QED BY <1>2, <1>4, PrintBarIInv DEF RInv

\* Steps that leave the clock, the venue and the round's marks alone.
LEMMA SameRoundRInv ==
    ASSUME RInv, IInv', UNCHANGED <<now, printed, firedAt, collected, processed>>,
           pc' \in {"collecting", "judging"} => pc \in {"collecting", "judging"}
    PROVE  RInv'
BY DEF RInv, ClockInv, NoGapInv, Deadline

LEMMA ReturnTickRInv ==
    ASSUME RInv, IInv', NEW bars, NEW complete, ReturnTick(bars, complete),
           UNCHANGED <<venueVars, stop, firedAt>>
    PROVE  RInv'
BY DEF RInv, ClockInv, NoGapInv, Deadline, ReturnTick, Settle, venueVars

LEMMA FireRInv == ASSUME RInv, Fire, Prompt PROVE RInv'
<1>1. /\ (now + FetchTimeout + Stall) \div Tf = now \div Tf
      /\ pc' = "collecting" /\ firedAt' = now /\ collected' = {} /\ UNCHANGED venueVars
  BY DEF Fire
<1>2. now \in Nat
  BY DEF RInv, IInv, TypeOK
<1>3. ClockInv'
  BY <1>1, <1>2, FetchTimeoutAssumption, StallAssumption DEF RInv, ClockInv, Deadline, venueVars
<1>4. NoGapInv'
  BY <1>1 DEF NoGapInv
<1> QED BY <1>3, <1>4, FireIInv DEF RInv

LEMMA NextRInv == Prompt /\ RInv /\ [Next]_vars => RInv'
<1> SUFFICES ASSUME Prompt, RInv, [Next]_vars PROVE RInv'
  OBVIOUS
<1>0. IInv'
  BY NextIInv DEF RInv
<1>1. CASE Tick
  BY <1>1, TickRInv
<1>2. ASSUME NEW b \in Bars, PrintBar(b) PROVE RInv'
  BY <1>2, PrintBarRInv
<1>3. CASE SetStop \/ ReturnNone \/ FetchFails \/ FetchFailsAtStart
  BY <1>0, <1>3, SameRoundRInv DEF SetStop, ReturnNone, FetchFails, FetchFailsAtStart, venueVars, roundVars
<1>4. CASE InitBaseline
  <2>1. pc' \in {"waiting", "failed"} /\ UNCHANGED <<venueVars, roundVars>>
    BY <1>4 DEF InitBaseline
  <2> QED BY <1>0, <2>1 DEF RInv, ClockInv, NoGapInv, venueVars, roundVars
<1>5. CASE Fire
  BY <1>5, FireRInv
<1>6. CASE Fetch
  <2>1. CASE pc' = "judging"
    <3>1. UNCHANGED <<venueVars, firedAt>> /\ pc = "collecting"
      BY <1>6 DEF Fetch
    <3>2. ClockInv'
      BY <3>1 DEF RInv, ClockInv, Deadline, venueVars
    <3> QED BY <1>0, <1>6, <2>1, <3>2, FetchNoGap DEF RInv
  <2>2. CASE pc' # "judging"
    <3>1. pc' = "waiting" /\ UNCHANGED <<venueVars, firedAt>>
      BY <1>6, <2>2 DEF Fetch, ReturnTick, Settle
    <3> QED BY <1>0, <3>1 DEF RInv, ClockInv, NoGapInv, Deadline, venueVars
  <2> QED BY <2>1, <2>2
<1>7. CASE Judge
  <2>1. CASE now >= Deadline
    BY <1>0, <1>7, <2>1, ReturnTickRInv DEF Judge
  <2>2. CASE ~(now >= Deadline)
    BY <1>0, <1>7, <2>2, SameRoundRInv DEF Judge, venueVars
  <2> QED BY <2>1, <2>2
<1>8. CASE UNCHANGED vars
  BY <1>0, <1>8, SameRoundRInv DEF vars
<1> QED BY <1>1, <1>2, <1>3, <1>4, <1>5, <1>6, <1>7, <1>8 DEF Next

-----------------------------------------------------------------------------
\* The end of wait_next_close hands over what printed up to the new mark, or changes nothing.
LEMMA ReturnTickMaps ==
    ASSUME RInv, pc \in {"collecting", "judging"},
           NEW bars \in SUBSET Bars, bars \subseteq printed,
           \A b \in bars : processed < b /\ b <= Expected,
           \A b \in printed, c \in bars : processed < b /\ b <= c => b \in bars,
           NEW complete \in BOOLEAN,
           complete => \A b \in printed : processed < b /\ b <= Expected => b \in bars,
           ReturnTick(bars, complete), UNCHANGED <<venueVars, stop, firedAt>>
    PROVE  Stream!Next \/ UNCHANGED Stream!vars
<1>1. /\ processed \in Nat /\ Expected \in Nat /\ processed < Expected /\ Expected + Tf <= now
      /\ Expected = (now \div Tf - 1) * Tf /\ now \div Tf \in Int /\ now \div Tf <= MaxTime \div Tf
      /\ now \in Nat
  BY RoundGrid, RoundIndex, TfAssumption DEF RInv, IInv, TypeOK, MarkInv, IsFinal
<1> DEFINE mark == IF bars /= {} THEN Max(bars) ELSE IF complete THEN Expected ELSE processed
<1>2. /\ processed' = mark /\ delivered' = delivered \cup bars /\ UNCHANGED <<now, printed>>
  BY DEF ReturnTick, Settle, delivered, venueVars
<1>3. bars /= {} => Max(bars) \in bars /\ \A b \in bars : b <= Max(bars)
  BY MaxOf, BarFacts DEF RInv, IInv, PrintedInv
<1>4. Expected \in Bars
  <2>1. now \div Tf >= 1
    <3>1. now \div Tf < 1 => (now \div Tf - 1) * Tf <= 0 - Tf
      BY <1>1, TfAssumption
    <3> QED BY <1>1, <3>1, TfAssumption
  <2>2. MaxTime \div Tf \in Int
    BY TfAssumption, MaxTimeAssumption
  <2> QED BY <1>1, <2>1, <2>2 DEF Bars
<1>5. CASE bars = {} /\ ~complete
  BY <1>2, <1>5 DEF Stream!vars
<1>6. CASE bars /= {} \/ complete
  <2>1. mark \in Bars /\ mark \in Nat /\ processed < mark /\ mark <= Expected
    <3>1. CASE bars /= {}
      <4>1. Max(bars) \in bars /\ mark = Max(bars)
        BY <1>3, <3>1
      <4>2. Max(bars) \in Bars /\ processed < Max(bars) /\ Max(bars) <= Expected
        BY <4>1
      <4> QED BY <4>1, <4>2, BarFacts
    <3>2. CASE bars = {}
      BY <1>1, <1>4, <1>6, <3>2
    <3> QED BY <3>1, <3>2
  <2>2. ASSUME NEW b \in printed PROVE b \in bars <=> processed < b /\ b <= mark
    <3>1. b \in Nat /\ \A c \in bars : c \in Nat
      BY BarFacts DEF RInv, IInv, TypeOK
    <3>2. CASE bars /= {}
      BY <1>3, <3>1, <3>2
    <3>3. CASE bars = {}
      BY <1>6, <3>3
    <3> QED BY <3>2, <3>3
  <2>3. bars = {b \in printed : processed < b /\ b <= mark}
    BY <2>2
  <2> HIDE DEF mark
  <2>4. mark + Tf <= now
    BY <1>1, <2>1, TfAssumption
  <2>5. Stream!HandOver(mark)
    BY <1>1, <1>2, <2>1, <2>3, <2>4 DEF Stream!HandOver, Stream!NoBar
  <2>6. mark \in Stream!Bars
    BY <2>1 DEF Bars, Stream!Bars
  <2> QED BY <2>5, <2>6 DEF Stream!Next
<1> QED BY <1>5, <1>6

LEMMA InitMaps == Init => Stream!Init
<1> SUFFICES ASSUME Init PROVE Stream!Init
  OBVIOUS
<1>1. now \in 0..MaxTime
  BY TfAssumption, MaxTimeAssumption DEF Init
<1> QED BY <1>1 DEF Init, Stream!Init, Stream!Bars, Bars, IsFinal, delivered, NoBar, Stream!NoBar

LEMMA NextMaps == Prompt /\ RInv /\ [Next]_vars => [Stream!Next]_(Stream!vars)
<1> SUFFICES ASSUME Prompt, RInv, [Next]_vars PROVE Stream!Next \/ UNCHANGED Stream!vars
  OBVIOUS
<1>1. CASE Tick
  BY <1>1 DEF Tick, Stream!Next, Stream!Tick, given, delivered
<1>2. ASSUME NEW b \in Bars, PrintBar(b) PROVE Stream!Next
  BY <1>2 DEF PrintBar, Bars, Stream!Next, Stream!PrintBar, Stream!Bars, given, delivered
<1>3. CASE SetStop \/ ReturnNone \/ FetchFails \/ FetchFailsAtStart \/ Fire
  BY <1>3 DEF SetStop, ReturnNone, FetchFails, FetchFailsAtStart, Fire, venueVars, given, delivered, Stream!vars
<1>4. CASE InitBaseline
  <2> DEFINE finals == {b \in TailRows : IsFinal(b, now)}
  <2>1. CASE finals = {}
    BY <1>4, <2>1 DEF InitBaseline, venueVars, given, delivered, Stream!vars
  <2>2. CASE finals /= {}
    <3>1. finals \subseteq printed /\ finals \subseteq Bars
      BY DEF TailRows, RInv, IInv, TypeOK
    <3>2. Max(finals) \in finals
      BY <2>2, <3>1, MaxOf, BarFacts DEF RInv, IInv, PrintedInv
    <3>3. processed' = Max(finals) /\ UNCHANGED <<venueVars, given>>
      BY <1>4, <2>2 DEF InitBaseline
    <3>4. processed = NoBar
      BY <1>4 DEF InitBaseline, RInv, IInv, MarkInv
    <3>5. Stream!Anchor(Max(finals))
      BY <3>1, <3>2, <3>3, <3>4, TfAssumption, BarFacts
         DEF Stream!Anchor, Stream!NoBar, NoBar, venueVars, given, delivered, IsFinal, RInv, IInv, TypeOK
    <3> QED BY <3>1, <3>2, <3>5 DEF Stream!Next, Stream!Bars, Bars
  <2> QED BY <2>1, <2>2
<1>5. CASE Fetch
  <2> DEFINE bars == collected \cup {b \in Rows : processed < b /\ b <= Expected}
             settled == Expected \in bars \/ \E b \in Rows : b > Expected
  <2>1. /\ pc = "collecting" /\ UNCHANGED <<venueVars, stop, firedAt>>
        /\ settled => ReturnTick(bars, TRUE)
        /\ ~settled => UNCHANGED <<processed, deferUntil, given>>
    BY <1>5 DEF Fetch
  <2>2. CASE ~settled
    BY <2>1, <2>2 DEF venueVars, given, delivered, Stream!vars
  <2>3. CASE settled
    <3>1. bars \subseteq printed /\ bars \in SUBSET Bars /\ \A b \in bars : processed < b /\ b <= Expected
      BY <2>1 DEF Rows, RangeRows, TailRows, RInv, IInv, PrintedInv, TypeOK, RoundInv
    <3>2. \A b \in printed : processed < b /\ b <= Expected => b \in bars
      BY <2>1, RowsComplete
    <3>3. ReturnTick(bars, TRUE)
      BY <2>1, <2>3
    <3>4. \A b \in printed, c \in bars : processed < b /\ b <= c => b \in bars
      <4>1. Expected \in Int /\ \A b \in Bars : b \in Nat
        BY <2>1, RoundIndex, RoundGrid, BarFacts DEF RInv
      <4>2. \A b \in printed, c \in bars : b <= c => b <= Expected
        BY <3>1, <4>1 DEF RInv, IInv, TypeOK
      <4> QED BY <3>2, <4>2
    <3> HIDE DEF bars
    <3> QED BY <2>1, <3>1, <3>2, <3>3, <3>4, ReturnTickMaps
  <2> QED BY <2>2, <2>3
<1>6. CASE Judge
  <2>1. CASE now >= Deadline
    <3>1. pc = "judging" /\ ReturnTick(collected, FALSE) /\ UNCHANGED <<venueVars, stop, firedAt>>
      BY <1>6, <2>1 DEF Judge
    <3>2. /\ collected \in SUBSET Bars /\ collected \subseteq printed
          /\ \A b \in collected : processed < b /\ b <= Expected
          /\ \A b \in printed, c \in collected : processed < b /\ b <= c => b \in collected
      BY <3>1 DEF RInv, IInv, TypeOK, PrintedInv, RoundInv, NoGapInv
    <3> QED BY <3>1, <3>2, ReturnTickMaps
  <2>2. CASE ~(now >= Deadline)
    BY <1>6, <2>2 DEF Judge, venueVars, given, delivered, Stream!vars
  <2> QED BY <2>1, <2>2
<1>7. CASE UNCHANGED vars
  BY <1>7 DEF vars, delivered, Stream!vars
<1> QED BY <1>1, <1>2, <1>3, <1>4, <1>5, <1>6, <1>7 DEF Next

\* While every fetch round of wait_next_close ends in the interval it was fired in, the
\* scheduler is a CandleStream: each tick hands over every bar that printed up to its mark.
THEOREM StreamImplemented == ASSUME Prompt PROVE Spec => StreamSpec
<1>1. Init => Stream!Init /\ RInv
  BY InitMaps, InitRInv
<1>2. RInv /\ [Next]_vars => RInv' /\ [Stream!Next]_(Stream!vars)
  BY NextRInv, NextMaps
<1> QED BY <1>1, <1>2, PTL DEF Spec, StreamSpec, Stream!Spec
=============================================================================
