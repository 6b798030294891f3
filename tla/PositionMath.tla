---------------------------- MODULE PositionMath ----------------------------
(***************************************************************************)
(* simulate/_position_math.py: what one candle does to one open position.  *)
(* The backtest, the live simulation and the live trader share these       *)
(* functions.                                                              *)
(*                                                                         *)
(* Prices and sizes are integers; `config` is a record of Config, and a    *)
(* percentage trail is a fixed distance.  All amounts of a position scale  *)
(* with its size, and every slice is a whole number of size units.         *)
(***************************************************************************)
EXTENDS Integers, Sequences

Long == 1
Short == -1

Config == [rr        : Seq(Nat),      \* take-profit levels in multiples of the stop distance
           multi     : BOOLEAN,       \* tp_mode "multi_rr"
           fractions : Seq(Nat),      \* size closed at each level; <<>>: not configured
           trail     : Nat,           \* sl_mode "trailing": distance from the peak; 0: off
           riskFree  : Nat,           \* risk_free_at_rr; 0: not enabled
           exits     : BOOLEAN,       \* force_close_on_exit_signal
           perSide   : Nat,           \* max_long_positions, max_short_positions
           most      : Nat,           \* max_positions
           size      : Nat \ {0},     \* of every entry
           margin    : Nat,           \* locked per unit of size
           fee       : Nat]           \* commission per unit of size

Smaller(a, b) == IF a <= b THEN a ELSE b

\* In direction d, price a is at or past price b on the profit side.
Past(d, a, b) == d * a >= d * b

Best(bar, d) == IF d = Long THEN bar.high ELSE bar.low
Worst(bar, d) == IF d = Long THEN bar.low ELSE bar.high

Position(id, d, entry, stop, config) ==
    [id |-> id, dir |-> d, entry |-> entry, sl |-> stop, dist |-> d * (entry - stop),
     peak |-> entry, hits |-> 0, rf |-> FALSE, size |-> config.size,
     margin |-> config.size * config.margin, ppu |-> config.size,
     fee |-> config.size * config.fee]

Level(p, k, config) == p.entry + p.dir * config.rr[k] * p.dist
HasNext(p, config) == p.hits < Len(config.rr)
NextTP(p, config) == Level(p, p.hits + 1, config)

Unrealised(p, price) == p.dir * (price - p.entry) * p.ppu

-----------------------------------------------------------------------------
(* Stops *)

UpdatePeak(p, bar) ==
    [p EXCEPT !.peak = IF Past(p.dir, Best(bar, p.dir), @) THEN Best(bar, p.dir) ELSE @]

CheckRiskFree(p, bar, config) ==
    IF /\ config.riskFree > 0 /\ ~config.multi
       /\ ~p.rf
       /\ p.dir * (Best(bar, p.dir) - p.entry) >= config.riskFree * p.dist
    THEN [p EXCEPT !.sl = p.entry, !.rf = TRUE]
    ELSE p

TrailStop(p, config) == p.peak - p.dir * config.trail
BehindTrail(p, config) == config.trail > 0 /\ p.dir * TrailStop(p, config) > p.dir * p.sl

\* Variant: the stop follows the peak in both directions.
UpdateTrailingBothWays(p, config) ==
    IF config.trail > 0 THEN [p EXCEPT !.sl = TrailStop(p, config)] ELSE p

UpdateTrailing(p, config) ==
    IF BehindTrail(p, config) THEN [p EXCEPT !.sl = TrailStop(p, config)] ELSE p

\* Variant: a level leaves the stop of the level before where it was.
AdvanceMultiRRLate(p, config) ==
    [p EXCEPT !.sl = IF p.hits <= 1 THEN p.entry ELSE Level(p, p.hits - 1, config),
              !.hits = @ + 1]

\* Break-even after the first level, the previous level after the later ones, wherever the
\* stop was trailed to.
AdvanceMultiRR(p, config) ==
    [p EXCEPT !.sl = IF p.hits = 0 THEN p.entry ELSE Level(p, p.hits, config),
              !.hits = @ + 1]

-----------------------------------------------------------------------------
(* Close detection.  `state` threads a candle: the position, the close events so *)
(* far, and the size they leave.                                                 *)

SLReason(p) == IF p.hits > 0 \/ p.rf THEN "rf" ELSE "sl"

Event(price, reason, qty) == [price |-> price, reason |-> reason, qty |-> qty]

StoppedAt(state, price) ==
    [state EXCEPT !.events = Append(@, Event(price, SLReason(state.pos), state.left)),
                  !.left = 0]

\* handle_tp_level_hit: without fractions only the last level closes anything.
HandleLevel(state, price, config) ==
    LET p == state.pos
        quota == IF config.fractions /= <<>> THEN config.fractions[p.hits + 1]
                 ELSE IF p.hits + 1 = Len(config.rr) THEN config.size ELSE 0
        qty == Smaller(quota, state.left)
        reason == IF qty = state.left THEN "tp" ELSE "tp_rr"
    IN  [state EXCEPT !.pos = AdvanceMultiRR(p, config),
                      !.events = IF qty = 0 THEN @ ELSE Append(@, Event(price, reason, qty)),
                      !.left = @ - qty]

\* Steps 4 and 5 of check_close: inside the candle, at most one level and the stop;
\* when both are touched a rising candle took the level first and keeps the rest.
InBody(state, bar, config) ==
    LET p == state.pos
        tpHit == HasNext(p, config) /\ Past(p.dir, Best(bar, p.dir), NextTP(p, config))
        slHit == Past(p.dir, p.sl, Worst(bar, p.dir))
    IN  CASE tpHit /\ (slHit => bar.close > bar.open) -> HandleLevel(state, NextTP(p, config), config)
          [] slHit /\ (tpHit => bar.close <= bar.open) -> StoppedAt(state, p.sl)
          [] OTHER -> state

\* Variant: a gap past the stop fills at the stop.
CheckCloseAtStop(p, bar, config) ==
    LET fresh == [pos |-> p, events |-> <<>>, left |-> p.size]
        trailed == [fresh EXCEPT !.pos = UpdateTrailing(p, config)]
        gapped == IF HasNext(p, config) /\ Past(p.dir, bar.open, NextTP(p, config))
                  THEN HandleLevel(trailed, bar.open, config) ELSE trailed
    IN  IF Past(p.dir, p.sl, bar.open) THEN StoppedAt(fresh, p.sl)
        ELSE IF gapped.left = 0 THEN gapped ELSE InBody(gapped, bar, config)

\* check_close: an open past the stop; the trailing advance; an open past the next
\* level; then the body of the candle.
CheckClose(p, bar, config) ==
    LET fresh == [pos |-> p, events |-> <<>>, left |-> p.size]
        trailed == [fresh EXCEPT !.pos = UpdateTrailing(p, config)]
        gapped == IF HasNext(p, config) /\ Past(p.dir, bar.open, NextTP(p, config))
                  THEN HandleLevel(trailed, bar.open, config) ELSE trailed
    IN  IF Past(p.dir, p.sl, bar.open) THEN StoppedAt(fresh, bar.open)
        ELSE IF gapped.left = 0 THEN gapped ELSE InBody(gapped, bar, config)

-----------------------------------------------------------------------------
(* Accounting *)

\* The share of qty in size; at most the whole.
Part(amount, qty, size) == IF qty >= size THEN amount ELSE (amount * qty) \div size

\* make_closed_trade for a slice of the position.
ClosedTrade(p, price, reason, qty) ==
    LET gross == p.dir * (price - p.entry) * Part(p.ppu, qty, p.size)
        fee == Part(p.fee, qty, p.size)
    IN  [id |-> p.id, dir |-> p.dir, price |-> price, reason |-> reason,
         qty |-> Smaller(qty, p.size), margin |-> Part(p.margin, qty, p.size), gross |-> gross, net |-> gross - fee]

\* Variant: the commission not yet charged is not scaled down.
ApplyPartialCloseKeepsFee(p, qty) ==
    LET left == p.size - Smaller(qty, p.size)
    IN  [p EXCEPT !.size = left, !.margin = Part(@, left, p.size), !.ppu = Part(@, left, p.size)]

ApplyPartialClose(p, qty) ==
    LET left == p.size - Smaller(qty, p.size)
    IN  [p EXCEPT !.size = left, !.margin = Part(@, left, p.size),
                  !.ppu = Part(@, left, p.size), !.fee = Part(@, left, p.size)]

\* can_open_position
CanOpen(d, open, config) ==
    LET side == SelectSeq(open, LAMBDA p : p.dir = d)
    IN  Len(open) < config.most /\ Len(side) < config.perSide
=============================================================================
