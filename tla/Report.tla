------------------------------- MODULE Report -------------------------------
(***************************************************************************)
(* The statistics of a simulation (simulate/_report.py, _session.py): the  *)
(* largest and the significant drawdowns of the equity curve, the streaks, *)
(* and the split of the trades by outcome and by the session they opened   *)
(* in.  A report may be taken at any candle (SimulationStepper's           *)
(* build_report), so the curve grows and is reported at every length.      *)
(*                                                                         *)
(* Money is whole numbers; a percentage is compared by cross products.     *)
(***************************************************************************)
EXTENDS Integers, Sequences, SequencesExt, FiniteSets, FiniteSetsExt

CONSTANTS
    Equities,   \* bound: the values of the curve
    Profits,    \* bound: the net profits of trades
    Hours,      \* bound: the hours trades open at
    Entries,    \* bound: candles and trades
    Threshold   \* drawdown_threshold, in percent

VARIABLES
    curve,      \* balance_history's equities
    trades      \* closed_trades: net profit and hour of opening
vars == <<curve, trades>>

-----------------------------------------------------------------------------
(* _compute_drawdowns *)

None == [start |-> 0, end |-> 0, peak |-> 1, trough |-> 1]
Amount(d) == d.peak - d.trough
Deeper(a, b) == Amount(a) * b.peak > Amount(b) * a.peak
Significant(d) == d.peak > 0 /\ 100 * Amount(d) >= Threshold * d.peak
At(k, equity) == [start |-> k, end |-> k, peak |-> equity, trough |-> equity]
Lower(d, k) == [d EXCEPT !.end = k, !.trough = curve[k]]

\* Variant: only a new high ends a drawdown.
BackAbove(k, peak) == curve[k] > peak

\* The curve is back where it fell from.
Back(k, peak) == curve[k] >= peak

\* The scan for the largest: `now` runs from the last peak.
MaxDrawdown ==
    LET Scan(acc, k) ==
            LET now == IF Back(k, acc.now.peak) THEN At(k, curve[k])
                       ELSE IF curve[k] < acc.now.trough THEN Lower(acc.now, k) ELSE acc.now
            IN  [now |-> now, worst |-> IF now.peak > 0 /\ Deeper(now, acc.worst) THEN now ELSE acc.worst]
    IN  FoldLeft(Scan, [now |-> At(1, curve[1]), worst |-> None], [k \in DOMAIN curve |-> k]).worst

\* The scan for the significant ones: `peak` is the last peak, `now` the drawdown in progress.
SignificantDrawdowns ==
    LET Kept(acc) == IF acc.in /\ Significant(acc.now) THEN Append(acc.found, acc.now) ELSE acc.found
        Scan(acc, k) ==
            IF Back(k, acc.peak.peak)
            THEN [in |-> FALSE, peak |-> At(k, curve[k]), now |-> acc.now, found |-> Kept(acc)]
            ELSE IF ~acc.in
            THEN IF Significant(Lower(acc.peak, k))
                 THEN [acc EXCEPT !.in = TRUE, !.now = Lower(acc.peak, k)] ELSE acc
            ELSE IF curve[k] < acc.now.trough THEN [acc EXCEPT !.now = Lower(acc.now, k)] ELSE acc
        start == At(1, curve[1])
    IN  Kept(FoldLeft(Scan, [in |-> FALSE, peak |-> start, now |-> start, found |-> <<>>],
                      [k \in DOMAIN curve |-> k]))

-----------------------------------------------------------------------------
(* _compute_streaks, build_report's split, _compute_grouped_stats *)

Wins(ts) == SelectSeq(ts, LAMBDA t : t.net > 0)
Losses(ts) == SelectSeq(ts, LAMBDA t : t.net < 0)
BreakEvens(ts) == SelectSeq(ts, LAMBDA t : t.net = 0)
Total(ts) == FoldLeft(LAMBDA sum, t : sum + t.net, 0, ts)

Greater(a, b) == IF a > b THEN a ELSE b

StreakAfter(acc, t) ==
    LET wins == IF t.net > 0 THEN acc.wins + 1 ELSE 0
        losses == IF t.net < 0 THEN acc.losses + 1 ELSE 0
    IN  [wins |-> wins, losses |-> losses, maxWins |-> Greater(acc.maxWins, wins),
         maxLosses |-> Greater(acc.maxLosses, losses)]

Streaks == FoldLeft(StreakAfter, [wins |-> 0, losses |-> 0, maxWins |-> 0, maxLosses |-> 0], trades)

\* _SESSION_WINDOWS, the end of a window excluded; get_primary_session takes the first.
Windows == [sydney |-> (21..23) \cup (0..5), tokyo |-> 0..8, london |-> 7..15, new_york |-> 13..21]
Priority == <<"new_york", "london", "tokyo", "sydney">>
SessionsAt(hour) == {s \in DOMAIN Windows : hour \in Windows[s]}
PrimarySession(hour) ==
    LET open == SelectSeq(Priority, LAMBDA s : s \in SessionsAt(hour))
    IN  IF open = <<>> THEN "off_hours" ELSE Head(open)

\* Every session has its row, with or without trades.
AllSessions == ToSet(Priority) \cup {"off_hours"}
SessionStats ==
    [s \in AllSessions |->
        LET group == SelectSeq(trades, LAMBDA t : PrimarySession(t.hour) = s)
        IN  [trades |-> Len(group), wins |-> Len(Wins(group)), losses |-> Len(Losses(group)),
             even |-> Len(BreakEvens(group)), pnl |-> Total(group)]]

-----------------------------------------------------------------------------
(* A trade closes, or a candle is valued *)

Close == /\ Len(curve) + Len(trades) < Entries
         /\ \E net \in Profits, hour \in Hours : trades' = Append(trades, [net |-> net, hour |-> hour])
         /\ UNCHANGED curve
Candle == /\ Len(curve) + Len(trades) < Entries
          /\ \E equity \in Equities : curve' = Append(curve, equity)
          /\ UNCHANGED trades

Init == /\ \E equity \in Equities : curve = <<equity>>
        /\ trades = <<>>
Next == Close \/ Candle
Spec == Init /\ [][Next]_vars

-----------------------------------------------------------------------------
(* Properties *)

RunningPeak(i) == \A k \in 1..(i - 1) : curve[k] <= curve[i]

\* What a drawdown is, without a scan: from a point nothing before exceeds to the first of
\* the lowest points before the curve is back.
UntilBack(i) == {j \in i..Len(curve) : \A k \in (i + 1)..j : curve[k] < curve[i]}
DrawdownFrom(i) ==
    LET lowest == Min({curve[j] : j \in UntilBack(i)})
    IN  [start |-> i, end |-> Min({j \in UntilBack(i) : curve[j] = lowest}),
         peak |-> curve[i], trough |-> lowest]
AllDrawdowns == {d \in {DrawdownFrom(i) : i \in {k \in DOMAIN curve : RunningPeak(k)}} : Amount(d) > 0}

\* "max_drawdown: the single largest peak-to-trough drawdown"; "significant_drawdowns: all
\* drawdowns >= config.drawdown_threshold percent, oldest first": the scans report exactly
\* those, whatever the order of new peaks, ties and recoveries, and with one still going on
\* at the last candle.
DrawdownsComplete ==
    /\ \A d \in AllDrawdowns : ~Deeper(d, MaxDrawdown)
    /\ MaxDrawdown \in AllDrawdowns \/ (MaxDrawdown = None /\ AllDrawdowns = {})
    /\ ToSet(SignificantDrawdowns) = {d \in AllDrawdowns : Significant(d)}
    /\ \A i, j \in DOMAIN SignificantDrawdowns :
          i < j => SignificantDrawdowns[i].start < SignificantDrawdowns[j].start

\* "Longest run of wins or losses in chronological order"; and the sessions' rows add up to
\* the report's totals, with nothing left for "off_hours".
LongestRun(Won(_)) ==
    Max({0} \cup {j - i + 1 : <<i, j>> \in {p \in (DOMAIN trades) \X (DOMAIN trades) :
                                 p[1] <= p[2] /\ \A k \in p[1]..p[2] : Won(trades[k])}})
StatsAddUp ==
    /\ Streaks.maxWins = LongestRun(LAMBDA t : t.net > 0)
    /\ Streaks.maxLosses = LongestRun(LAMBDA t : t.net < 0)
    /\ MapThenSumSet(LAMBDA s : SessionStats[s].pnl, AllSessions) = Total(trades)
    /\ MapThenSumSet(LAMBDA s : SessionStats[s].wins, AllSessions) = Len(Wins(trades))
    /\ MapThenSumSet(LAMBDA s : SessionStats[s].losses, AllSessions) = Len(Losses(trades))
    /\ SessionStats["off_hours"].trades = 0
=============================================================================
