------------------------------- MODULE Stepper -------------------------------
(***************************************************************************)
(* SimulationStepper (simulate/_engine.py), one per pair, driven candle by *)
(* candle over one shared wallet as run_multi (simulate/_runner.py) does;  *)
(* a single pair is Simulate.run and the live simulation.                  *)
(*                                                                         *)
(* A timestamp lets every pair in its turn take the candle it has there,   *)
(* if any; then the portfolio is valued.  After the last timestamp every   *)
(* stepper closes what is open at its last close.                          *)
(***************************************************************************)
EXTENDS PositionMath, FiniteSets, FiniteSetsExt, SequencesExt

CONSTANT Setups   \* the scenarios to explore: configuration, and bounds

Setup == [config  : Config,
          pairs   : Nat \ {0},
          wallet  : Nat,           \* initial balance
          prices  : SUBSET Nat,    \* bound: the prices of candles
          candles : Nat,           \* bound: timestamps
          trades  : Nat,           \* bound: entries
          dists   : SUBSET (Nat \ {0})] \* distance of the signals' stops from the close

VARIABLES
    setup,     \* the scenario, fixed at the start
    wallet,    \* free capital
    nextId,    \* trade_id_seq
    open,      \* pair -> its open positions
    turn,      \* the pair to step next; pairs + 1: the timestamp is to be valued
    fresh,     \* pairs that had a candle at this timestamp
    clock,     \* timestamps valued so far
    lastClose, \* pair -> close of its last candle; 0 before the first
    equity,    \* the last entry of balance_history
    finalized, \* number of steppers that are frozen
    fills,     \* the trades closed by the last step, each with the range of its candle and,
               \* if its stop was behind the trail when the candle opened, the trail
    sold,      \* history: trade -> size closed so far
    finals,    \* history: trades with a close reported as "tp"
    realized   \* history: net profit of all closed trades

history == <<sold, finals, realized>>
vars == <<setup, wallet, nextId, open, turn, fresh, clock, lastClose, equity, finalized,
          fills, sold, finals, realized>>

config == setup.config
Pairs == 1..setup.pairs

Bars == {b \in [open : setup.prices, high : setup.prices, low : setup.prices,
                close : setup.prices] :
            b.low <= b.open /\ b.low <= b.close /\ b.open <= b.high /\ b.close <= b.high}

SumSeq(f(_), s) == FoldLeft(LAMBDA acc, x : acc + f(x), 0, s)

-----------------------------------------------------------------------------
(* One candle of one pair *)

\* The close events of one position, turned into trades one after the other.
Realize(p, bar) ==
    LET result == CheckClose(CheckRiskFree(UpdatePeak(p, bar), bar, config), bar, config)
    IN  FoldLeft(LAMBDA acc, e :
                     [pos |-> ApplyPartialClose(acc.pos, e.qty),
                      trades |-> Append(acc.trades,
                                        ClosedTrade(acc.pos, e.price, e.reason, e.qty))],
                 [pos |-> result.pos, trades |-> <<>>], result.events)

CloseAll(positions, price, reason) ==
    [k \in DOMAIN positions |-> ClosedTrade(positions[k], price, reason, positions[k].size)]

StillOpen(results) ==
    SelectSeq([k \in DOMAIN results |-> results[k].pos], LAMBDA p : p.size > 0)

\* Entries, in signal order, as long as limits and wallet allow.
Cost == config.size * (config.margin + config.fee)

EnterAll(signals, close, have, money) ==
    FoldLeft(LAMBDA acc, s :
                 IF /\ CanOpen(s.dir, acc.open, config)
                    /\ acc.wallet >= Cost
                    /\ acc.id <= setup.trades
                 THEN [open |-> Append(acc.open, Position(acc.id, s.dir, close,
                                                          close - s.dir * s.dist, config)),
                       wallet |-> acc.wallet - Cost, id |-> acc.id + 1]
                 ELSE acc,
             [open |-> have, wallet |-> money, id |-> nextId], signals)

\* Where step 2 of check_close trails a stop to that the open was not compared with.
Overdue(id, bar) ==
    {TrailStop(UpdatePeak(p, bar), config) :
        p \in {q \in Range(FlattenSeq([i \in Pairs |-> open[i]])) : q.id = id /\ BehindTrail(q, config)}}

Book(trades, bar) ==
    /\ fills' = {[id |-> t.id, dir |-> t.dir, price |-> t.price, reason |-> t.reason,
                  high |-> bar.high, low |-> bar.low, overdue |-> Overdue(t.id, bar)] : t \in Range(trades)}
    /\ sold' = [i \in DOMAIN sold |->
                   sold[i] + SumSeq(LAMBDA t : IF t.id = i THEN t.qty ELSE 0, trades)]
    /\ finals' = finals \cup {t.id : t \in {u \in Range(trades) : u.reason = "tp"}}
    /\ realized' = realized + SumSeq(LAMBDA t : t.net, trades)

Credit(trades) == SumSeq(LAMBDA t : t.margin + t.gross, trades)

Signals == LET one == {<<[dir |-> d, dist |-> s]>> : d \in {Long, Short}, s \in setup.dists}
           IN  {<<>>} \cup one \cup {a \o b : a \in one, b \in one}

\* step(); `exits` holds the price of the first exit signal, its own or the close.
Step(bar, signals, exits) ==
    LET results == [k \in DOMAIN open[turn] |-> Realize(open[turn][k], bar)]
        closed == FlattenSeq([k \in DOMAIN results |-> results[k].trades])
        kept == StillOpen(results)
        force == exits /= {} /\ config.exits
        forced == IF force THEN CloseAll(kept, CHOOSE price \in exits : TRUE, "force_close") ELSE <<>>
        trades == closed \o forced
        entered == EnterAll(signals, bar.close, IF force THEN <<>> ELSE kept,
                            wallet + Credit(trades))
    IN  /\ Book(trades, bar)
        /\ open' = [open EXCEPT ![turn] = entered.open]
        /\ wallet' = entered.wallet
        /\ nextId' = entered.id
        /\ lastClose' = [lastClose EXCEPT ![turn] = bar.close]

seen == IF turn = 1 THEN {} ELSE fresh

Candle ==
    /\ clock < setup.candles /\ finalized = 0
    /\ turn \in Pairs
    /\ \E bar \in Bars, signals \in Signals,
          exits \in {{}} \cup {{price} : price \in IF config.exits THEN setup.prices ELSE {}} :
           Step(bar, signals, exits)
    /\ fresh' = seen \cup {turn}
    /\ turn' = turn + 1
    /\ UNCHANGED <<setup, clock, equity, finalized>>

\* The pair has no candle at this timestamp; some other pair has.
NoCandle ==
    /\ clock < setup.candles /\ finalized = 0
    /\ turn \in Pairs
    /\ turn < setup.pairs \/ seen /= {}
    /\ fresh' = seen
    /\ turn' = turn + 1
    /\ fills' = {}
    /\ UNCHANGED <<setup, wallet, nextId, open, clock, lastClose, equity, finalized, history>>

\* The combined equity: a position of a pair without a candle counts at its entry price.
Snapshot ==
    /\ turn = setup.pairs + 1
    /\ equity' = wallet + MapThenSumSet(
           LAMBDA i : SumSeq(LAMBDA p : p.margin
                                 + Unrealised(p, IF i \in fresh THEN lastClose[i] ELSE p.entry),
                             open[i]),
           Pairs)
    /\ turn' = 1
    /\ clock' = clock + 1
    /\ fills' = {}
    /\ UNCHANGED <<setup, wallet, nextId, open, fresh, lastClose, finalized, history>>

AtClose(i) == [open |-> lastClose[i], high |-> lastClose[i], low |-> lastClose[i]]

\* finalize() of the next stepper, at its own last close.
Finalize ==
    /\ turn = 1 /\ clock > 0 /\ finalized < setup.pairs
    /\ LET i == finalized + 1
           trades == CloseAll(open[i], lastClose[i], "end_of_data")
       IN  /\ wallet' = wallet + Credit(trades)
           /\ Book(trades, AtClose(i))
           /\ open' = [open EXCEPT ![i] = <<>>]
    /\ finalized' = finalized + 1
    /\ UNCHANGED <<setup, nextId, turn, fresh, clock, lastClose, equity>>

Init ==
    /\ setup \in Setups
    /\ wallet = setup.wallet /\ equity = setup.wallet
    /\ nextId = 1
    /\ open = [i \in Pairs |-> <<>>]
    /\ turn = 1 /\ fresh = {} /\ clock = 0 /\ finalized = 0
    /\ lastClose = [i \in Pairs |-> 0]
    /\ fills = {}
    /\ sold = [i \in 1..setup.trades |-> 0]
    /\ finals = {} /\ realized = 0

Next == Candle \/ NoCandle \/ Snapshot \/ Finalize

Spec == Init /\ [][Next]_vars

-----------------------------------------------------------------------------
(* Properties *)

Ids == 1..(nextId - 1)
Everything == FlattenSeq([i \in Pairs |-> open[i]])
OpenSize(id) == SumSeq(LAMBDA p : IF p.id = id THEN p.size ELSE 0, Everything)

\* The last entry of the equity curve is what closing everything pays out, if every
\* pair had a candle then.
EquityIsPaidOut == finalized = setup.pairs /\ fresh = Pairs => wallet = equity

\* SimulateReport: "final_balance : float - Wallet balance after all trades are closed", taken
\* from the last entry of the equity curve, for every timestamp the pairs' data may end at.
FinalBalanceIsWallet == finalized = setup.pairs => equity = wallet

\* Money is neither made nor lost by slicing, nor when everything is closed: what is in
\* the wallet, and what open positions hold in margin and commission, is the initial
\* balance and the net profit of all closed trades.
WalletConserved ==
    EquityIsPaidOut /\ wallet + SumSeq(LAMBDA p : p.margin + p.fee, Everything) = setup.wallet + realized

\* The slices of a trade add up: what was closed of it and what is still open is what
\* was entered; and "'tp' always means nothing remains open after this event."
SlicesAddUp ==
    /\ \A id \in Ids : sold[id] + OpenSize(id) = config.size
    /\ \A id \in finals : OpenSize(id) = 0

\* No exit at a stop or a level is better than its candle offered, and a stop never fills
\* at a price the candle did not trade at; but for a stop that was behind its trail when
\* the candle opened, which may fill at the trail whether the candle traded there or not.
FillsInsideCandle ==
    \A f \in fills :
        f.reason = "force_close" \/ f.price \in f.overdue
        \/ /\ Past(f.dir, IF f.dir = Long THEN f.high ELSE f.low, f.price)
           /\ f.reason \in {"sl", "rf"} => f.price \in f.low..f.high

\* check_close, "SL hit within candle body", for every stop.
StopsFillInCandle == \A f \in fills : f.reason \in {"sl", "rf"} => f.price \in f.low..f.high

\* What the entry, the break-even and the levels taken have secured.
Secured(p) ==
    IF p.hits > 1 THEN Level(p, p.hits - 1, config)
    ELSE IF p.hits = 1 \/ p.rf THEN p.entry ELSE p.entry - p.dir * p.dist

\* Several rules write the stop of a position in one candle.  None of them gives back what
\* another has secured; after a candle that took no level the stop is not behind its trail;
\* and it only ever loosens, from a trail, to the stop of a level that was taken.
StopFollows(p, q) ==
    /\ Past(q.dir, q.sl, Secured(q)) /\ Past(q.dir, Secured(q), Secured(p))
    /\ q.hits = p.hits => ~BehindTrail(q, config)
    /\ Past(q.dir, q.sl, p.sl) \/ (config.trail > 0 /\ q.hits > p.hits /\ q.sl = Secured(q))
StopsKeepWhatIsSecured ==
    \A i \in Pairs \cap (fresh' \ seen) :
        i = turn => \A p \in Range(open[i]), q \in Range(open'[i]) : p.id = q.id => StopFollows(p, q)
StopKeepsWhatIsSecured == [][StopsKeepWhatIsSecured]_vars
=============================================================================
