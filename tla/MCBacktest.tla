----------------------------- MODULE MCBacktest -----------------------------
(***************************************************************************)
(* A backtest's stations, one run: the conversion of the data, the         *)
(* indicators, the simulation, the size of a position and the report.      *)
(* Each is checked by itself: `part` says which of them a behaviour is     *)
(* about, and the variables of the others stay as they are.                *)
(***************************************************************************)
EXTENDS Rationals, Sequences

CONSTANT Areas \* the stations to check

\* Data: eight instants with every pattern of holes, revised duplicates, bounds that are told
\* on their own, in seconds or in milliseconds (ten to the second).
Export(stamps, revised, kilo, from, to) ==
    [rows |-> {[t |-> t * kilo, v |-> 1] : t \in stamps} \cup {[t |-> t * kilo, v |-> 2] : t \in revised},
     start |-> from, end |-> to]
Bounds == {<<-1, -1>>, <<5, 90>>, <<50, 10>>}
Exports == {x \in {Export(stamps, revised, kilo, b[1], b[2]) :
                       stamps \in SUBSET (4..11), revised \in {{}, {5}, {6, 7}}, kilo \in {1, 10}, b \in Bounds} :
                x.rows # {}}

\* Indicators: every class, over a falling bar, a rising one and one with missing values.
Bar(h, l, c, v) == [h |-> h, l |-> l, c |-> c, v |-> v]
Missing == <<0, 0>>
Three == {Bar(<<2, 1>>, <<1, 1>>, <<1, 1>>, <<1, 1>>), Bar(<<4, 1>>, <<2, 1>>, <<4, 1>>, <<0, 1>>),
          Bar(<<3, 1>>, Missing, Missing, Missing)}
Class(class, n) == [class |-> class, n |-> n, bars |-> Three]
Typed(class, type, n) == [class |-> class, type |-> type, n |-> n, bars |-> Three]
IndicatorSetups ==
    {Typed("MA", t, 2) : t \in {"EMA", "SMMA", "SMA", "WMA"}}
    \cup {Class(c, 2) : c \in {"DEMA", "TEMA", "VWMA", "ATR"}} \cup {Class("HullMA", 4)}
    \cup {[class |-> "VWAP", n |-> 1, anchor |-> a, bars |-> Three] : a \in {"session", "none"}}
    \cup {[class |-> "RSI", n |-> 2, type |-> t, m |-> 2, bars |-> Three] : t \in {"EMA", "SMA"}}
    \cup {[class |-> "MACD", n |-> 1, type |-> "EMA", fast |-> 1, slow |-> 2, sigtype |-> "EMA", signal |-> 2,
           bars |-> Three]}
    \cup {[class |-> "Ichimoku", n |-> 1, tenkan |-> 1, kijun |-> 2, senkou |-> 3, shift |-> 2, bars |-> Three]}

\* Simulation: one take-profit; a ladder that closes in halves; one that only closes at the
\* end; stops that trail or jump; a trail narrower than the first stop, beside a ladder and
\* beside a break-even; and two pairs on one wallet.
FixedRR == [rr |-> <<2>>, multi |-> FALSE, fractions |-> <<>>, trail |-> 0, riskFree |-> 0,
            exits |-> FALSE, perSide |-> 1, most |-> 1, size |-> 2, margin |-> 1, fee |-> 1]
Halves == [FixedRR EXCEPT !.rr = <<1, 2>>, !.multi = TRUE, !.fractions = <<1, 1>>]
Alone == [config |-> FixedRR, pairs |-> 1, wallet |-> 4, prices |-> 1..5, candles |-> 3, trades |-> 1, dists |-> {1}]
Narrow == [Alone EXCEPT !.config.trail = 1, !.prices = {6, 7, 8, 9}, !.dists = {3}]
Both == [Alone EXCEPT !.pairs = 2, !.wallet = 6, !.prices = 2..3, !.trades = 2]
SimSetups ==
    {[Alone EXCEPT !.config = c] : c \in {Halves, [Halves EXCEPT !.fractions = <<0, 1>>], [Halves EXCEPT !.fractions = <<>>]}}
    \cup {[Alone EXCEPT !.config.riskFree = 1, !.config.exits = TRUE, !.prices = 1..4],
          [Alone EXCEPT !.config.trail = 2, !.dists = {1, 2}]}
    \cup {[Narrow EXCEPT !.config.riskFree = 1],
          [Narrow EXCEPT !.config = [Halves EXCEPT !.fractions = <<1, 0>>, !.trail = 1], !.prices = {4, 6, 8, 9}]}
    \cup {[Both EXCEPT !.config.most = 2]}

\* Sizes: three positions of each way to size them on an exchange; a terminal's every kind
\* of symbol.
Exchange == [venue |-> "exchange", sizing |-> "risk_percent", feeType |-> "percentage", fee |-> Frac(1, 32),
             amount |-> Frac(1, 2), compound |-> FALSE, leverage |-> 2, spread |-> Whole(2)]
Terminal == [Exchange EXCEPT !.venue = "metatrader", !.feeType = "per_lot", !.fee = Whole(5)]
Sized(c) == [config |-> c, symbols |-> {"btcusdt"}, initial |-> 64, prices |-> {Whole(8)},
             stops |-> {Whole(2), Whole(6)}, entries |-> 3]
Symbols == {"eurusd", "usdcad", "eurchf", "usdjpy", "xauusd", "btcusd", "gbpnzd", "usdsek", "xagusd", "us30",
            "usoil", "natgas"}
Lot(c) == [Sized(c) EXCEPT !.symbols = Symbols, !.prices = {Whole(4)}, !.stops = {Whole(2)}, !.entries = 1]
SizingSetups ==
    {Sized(c) : c \in {Exchange, [Exchange EXCEPT !.compound = TRUE],
                       [Exchange EXCEPT !.sizing = "fixed_amount", !.amount = Whole(30), !.feeType = "fixed", !.fee = Whole(2)]}}
    \cup {Lot(c) : c \in {Terminal, [Terminal EXCEPT !.sizing = "fixed_lot", !.amount = Frac(1, 100), !.feeType = "fixed"]}}

VARIABLES
    part, setup, wallet,
    export, frame, tables,
    source, result, stream,
    nextId, open, turn, fresh, clock, lastClose, equity, finalized, fills, sold, finals, realized,
    held, entered,
    curve, trades

dataVars == <<export, frame, tables>>
seriesVars == <<source, result, stream>>
simVars == <<nextId, open, turn, fresh, clock, lastClose, equity, finalized, fills, sold, finals, realized>>
sizeVars == <<held, entered>>
reportVars == <<curve, trades>>
vars == <<part, setup, wallet, dataVars, seriesVars, simVars, sizeVars, reportVars>>

Data == INSTANCE Conversion WITH Exports <- Exports, Finest <- 10, MonthStarts <- {0, 40, 70, 110}, Threshold <- 30,
                                 Kilo <- 10, Lengths <- {10, 20, 40}, Sampled <- 20
Series == INSTANCE Indicators WITH Setups <- IndicatorSetups, MaxBars <- 6, Slack <- 1
Sim == INSTANCE Stepper WITH Setups <- SimSetups
Size == INSTANCE Sizing WITH Setups <- SizingSetups
Stats == INSTANCE Report WITH Equities <- {0, 2, 3, 5}, Profits <- {-1, 0, 2}, Hours <- {22, 8}, Entries <- 6,
                              Threshold <- 40

ASSUME AreasAssumption == Areas \subseteq {"data", "series", "sim", "size", "report"}
ASSUME SimAssumption == SimSetups \subseteq Sim!Setup
ASSUME SizeAssumption == \A s \in SizingSetups : s.config.leverage \in Nat \ {0} /\ s.initial \in Nat

NoSetup == setup = 0
NoWallet == wallet = 0
NoData == export = 0 /\ frame = 0 /\ tables = 0
NoSeries == source = 0 /\ result = 0 /\ stream = 0
NoSim == /\ nextId = 0 /\ open = 0 /\ turn = 0 /\ fresh = 0 /\ clock = 0 /\ lastClose = 0 /\ equity = 0
         /\ finalized = 0 /\ fills = 0 /\ sold = 0 /\ finals = 0 /\ realized = 0
NoSize == held = 0 /\ entered = 0
NoReport == curve = 0 /\ trades = 0

Init ==
    /\ part \in Areas
    /\ \/ part = "data" /\ Data!Init /\ NoSetup /\ NoWallet /\ NoSeries /\ NoSim /\ NoSize /\ NoReport
       \/ part = "series" /\ Series!Init /\ NoWallet /\ NoData /\ NoSim /\ NoSize /\ NoReport
       \/ part = "sim" /\ Sim!Init /\ NoData /\ NoSeries /\ NoSize /\ NoReport
       \/ part = "size" /\ Size!Init /\ NoData /\ NoSeries /\ NoSim /\ NoReport
       \/ part = "report" /\ Stats!Init /\ NoSetup /\ NoWallet /\ NoData /\ NoSeries /\ NoSim /\ NoSize

Next ==
    \/ part = "data" /\ Data!Next /\ UNCHANGED <<part, setup, wallet, seriesVars, simVars, sizeVars, reportVars>>
    \/ part = "series" /\ Series!Next /\ UNCHANGED <<part, wallet, dataVars, simVars, sizeVars, reportVars>>
    \/ part = "sim" /\ Sim!Next /\ UNCHANGED <<part, dataVars, seriesVars, sizeVars, reportVars>>
    \/ part = "size" /\ Size!Next /\ UNCHANGED <<part, dataVars, seriesVars, simVars, reportVars>>
    \/ part = "report" /\ Stats!Next /\ UNCHANGED <<part, setup, wallet, dataVars, seriesVars, simVars, sizeVars>>

Spec == Init /\ [][Next]_vars

-----------------------------------------------------------------------------
(* Properties: those of the modules, each where its part is *)

\* A candle that a conversion kept is made of every source candle of its span, each once, and
\* two routes to a timeframe save the same candles.
ConversionIsExact == part = "data" => Data!ConversionIsExact

\* Whatever was built at once and whatever was streamed: an indicator's values are those a new
\* indicator on the whole source would have.
StreamIsBatch == part = "series" => Series!StreamIsBatch

\* Wallet, open margin and fees are the initial balance and what was realized, and the slices
\* of a trade add up to what was entered.
WalletConserved == part = "sim" => Sim!WalletConserved /\ Sim!SlicesAddUp

\* No exit is better than its candle offered, and no stop fills outside its candle, but for
\* one that was behind its trail when the candle opened.
FillsInsideCandle == part = "sim" => Sim!FillsInsideCandle

\* Of the rules that move a stop none gives back what another has secured, nor leaves it
\* behind its trail but for a level's, which alone may loosen it.
StopKeepsWhatIsSecured == [][part = "sim" => Sim!StopsKeepWhatIsSecured]_vars

\* SimulateReport's "final_balance : float - Wallet balance after all trades are closed".
FinalBalanceIsWallet == part = "sim" => Sim!FinalBalanceIsWallet

\* Whatever is entered and stopped out leaves no debt; and the two tables of the lot module
\* put the same risk on a stop.
StopsLeaveNoDebt == part = "size" => Size!StopsLeaveNoDebt /\ Size!TablesAgree

\* _lot.py: "hitting the stop-loss costs exactly risk_amount in the account (USD) currency".
LotCostsRisk == part = "size" => Size!LotCostsRisk

\* The report's drawdowns are exactly those of the curve, its streaks the longest, and its
\* sessions' rows add up to its totals.
ReportIsRight == part = "report" => Stats!DrawdownsComplete /\ Stats!StatsAddUp
=============================================================================
