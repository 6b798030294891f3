------------------------------- MODULE Sizing -------------------------------
(***************************************************************************)
(* compute_position_params (simulate/_position_math.py): what a signal is  *)
(* given of the wallet.  The backtest, the live simulation and the live    *)
(* trader size with it.  Lots come from simulate/_lot.py: the lots whose   *)
(* stop costs a given risk, and what one lot earns per unit of price, two  *)
(* functions, each with a table of its own of a pip's size and a pip's     *)
(* value in dollars per standard lot.                                      *)
(*                                                                         *)
(* Prices, rates and amounts are exact fractions (module Rationals).       *)
(*                                                                         *)
(* A wallet takes entries, holds their margin, and is paid back what each  *)
(* leaves when it is closed at its stop.                                   *)
(***************************************************************************)
EXTENDS Rationals, Sequences, FiniteSets

CONSTANT Setups   \* the scenarios to explore: configuration, and bounds

Setup == [config  : [venue    : {"exchange", "metatrader"},
                     sizing   : {"risk_percent", "fixed_amount", "fixed_lot"},
                     feeType  : {"percentage", "per_lot", "fixed"},
                     fee      : Nat \X (Nat \ {0}),    \* commission
                     amount   : Nat \X (Nat \ {0}),    \* risk_per_trade / 100, fixed_amount or fixed_lot
                     compound : BOOLEAN,
                     leverage : Nat \ {0},
                     spread   : Nat \X (Nat \ {0})],
          symbols : SUBSET STRING,
          initial : Nat,                               \* initial_balance
          prices  : SUBSET (Nat \X (Nat \ {0})),       \* bound: entry prices
          stops   : SUBSET (Nat \X (Nat \ {0})),       \* bound: stops, as distances from them
          entries : Nat]                               \* bound

VARIABLES
    setup,   \* the scenario, fixed at the start
    wallet,  \* free capital
    held,    \* the open positions
    entered  \* trade_id_seq
vars == <<setup, wallet, held, entered>>

-----------------------------------------------------------------------------
(* Lots *)

ForexLot == Whole(100000)
GoldLot == Whole(100)
SilverLot == Whole(5000)
PlatinumLot == Whole(100)

DollarQuoted == {"eurusd", "gbpusd", "audusd", "nzdusd"}
DollarBased == {"usdchf", "usdcad"}
YenQuoted == {"usdjpy", "eurjpy", "gbpjpy", "audjpy", "nzdjpy", "cadjpy", "chfjpy", "sgdjpy", "hkdjpy"}
Crosses == [chf |-> {"eurchf", "gbpchf", "audchf", "nzdchf", "cadchf"},
            cad |-> {"eurcad", "gbpcad", "audcad", "nzdcad"},
            aud |-> {"euraud", "gbpaud", "nzdaud"},
            nzd |-> {"eurnzd", "gbpnzd", "audnzd"},
            gbp |-> {"eurgbp"}]
HkdQuoted == {"usdhkd", "eurhkd", "gbphkd"}
Approximated ==      \* exotic, Eastern European, Scandinavian
    {"usdzar", "usdtry", "usdmxn", "eurpln", "usdpln", "eurhuf", "usdhuf", "eurczk", "usdczk",
     "eursek", "usdsek", "eurnok", "usdnok", "eurdkk", "usddkk"}
Roubles == {"eurrub", "usdrub"}
Coins == {"btcusd", "xbtusd", "ethusd", "xetusd", "xrpusd", "ltcusd", "bchusd", "adausd", "dotusd", "solusd"}
LaterCoins == {"bnbusd", "maticusd", "lnkusd"}
Indices == {"us30", "us100", "us500", "spx500", "ger40", "dax40", "uk100", "fra40", "esp35",
            "jpx500", "jp225", "hk50", "aus200"}
LaterIndices == {"jpxjpy", "hkxhkd"}
Oil == {"wtiusd", "usoil", "ukoil", "xtiusd", "xbrusd"}
Gas == {"natgas", "xngusd"}

\* What calculate_mt5_lot knows and get_mt5_pip_info does not.
OnlySized == HkdQuoted \cup Roubles \cup LaterCoins \cup LaterIndices

CrossOf(symbol) == {c \in DOMAIN Crosses : symbol \in Crosses[c]}
CrossRate(symbol, rates) == rates[CHOOSE c \in CrossOf(symbol) : TRUE]
QuoteOf(symbol) == IF symbol = "usdchf" THEN "chf" ELSE "cad"

\* A pip's size and what it earns a lot; in another currency, what that is at a rate.
Earns(size, value) == [size |-> size, value |-> value]
Pip(size, units) == Earns(size, Times(size, units))
At(rate, pip) == [pip EXCEPT !.value = Over(@, rate)]
Point == Frac(1, 10000)
Tenth == Frac(1, 1000)
Cent == Frac(1, 100)

\* calculate_mt5_lot's table.
SizedPip(symbol, price, rates) ==
    CASE symbol \in YenQuoted -> At(price, Pip(Cent, ForexLot))
      [] symbol \in DollarQuoted -> Earns(Point, Whole(10))
      [] symbol \in DollarBased -> At(rates[QuoteOf(symbol)], At(price, Pip(Point, ForexLot)))
      [] CrossOf(symbol) # {} -> At(CrossRate(symbol, rates), Pip(Point, ForexLot))
      [] symbol \in HkdQuoted -> At(rates["hkd"], Pip(Point, ForexLot))
      [] symbol \in Approximated \cup Roubles -> At(price, Pip(Tenth, ForexLot))
      [] symbol = "xauusd" -> Pip(Cent, GoldLot)
      [] symbol = "xagusd" -> Pip(Tenth, SilverLot)
      [] symbol \in {"xptusd", "xpdusd"} -> Pip(Cent, PlatinumLot)
      [] symbol \in Coins \cup LaterCoins \cup Indices \cup LaterIndices -> Earns(Whole(1), Whole(1))
      [] symbol \in Oil -> Earns(Cent, Whole(10))
      [] symbol \in Gas -> Earns(Tenth, Whole(10))
      [] OTHER -> Earns(Point, Whole(10))

\* get_mt5_pip_info's, written out a second time.
PipInfo(symbol, price, rates) ==
    CASE symbol \in YenQuoted -> At(price, Pip(Cent, ForexLot))
      [] symbol \in DollarQuoted -> Earns(Point, Whole(10))
      [] symbol \in DollarBased -> At(rates[QuoteOf(symbol)], At(price, Pip(Point, ForexLot)))
      [] CrossOf(symbol) # {} -> At(CrossRate(symbol, rates), Pip(Point, ForexLot))
      [] symbol \in Approximated -> At(price, Pip(Tenth, ForexLot))
      [] symbol = "xauusd" -> Pip(Cent, GoldLot)
      [] symbol = "xagusd" -> Pip(Tenth, SilverLot)
      [] symbol \in {"xptusd", "xpdusd"} -> Pip(Cent, PlatinumLot)
      [] symbol \in Coins \cup Indices -> Earns(Whole(1), Whole(1))
      [] symbol \in Oil -> Earns(Cent, Whole(10))
      [] symbol \in Gas -> Earns(Tenth, Whole(10))
      [] OTHER -> Earns(Point, Whole(10))

\* What a lot of that earns per unit of price.
PerPrice(pip) == Over(pip.value, pip.size)

CalculateLot(symbol, risk, distance, price, rates) ==
    LET pip == SizedPip(symbol, price, rates)
    IN  Over(risk, Times(Over(distance, pip.size), pip.value))

\* round_lot with its defaults: hundredths of a lot, from 0.01 to 100.
RoundLot(lot) == LET steps == Rounded(Times(lot, Whole(100)))
                 IN  Frac(IF steps < 1 THEN 1 ELSE IF steps > 10000 THEN 10000 ELSE steps, 100)

-----------------------------------------------------------------------------
(* The size of a position *)

config == setup.config

\* _DEFAULT_USD_RATES, of the currencies the symbols here are quoted in.
DefaultRates == [chf |-> Frac(88, 100), cad |-> Frac(135, 100), aud |-> Frac(3, 2), nzd |-> Frac(17, 10),
                 gbp |-> Frac(3, 4), hkd |-> Frac(785, 100)]

-----------------------------------------------------------------------------
(* compute_position_params *)

Signal == [dir : {1, -1}, symbol : setup.symbols, price : setup.prices, stop : setup.stops,
           multiplier : {Whole(1), Frac(1, 2)}]

FillPrice(s) == IF s.dir = 1 THEN Plus(s.price, config.spread) ELSE Minus(s.price, config.spread)
StopPrice(s) == IF s.dir = 1 THEN Minus(s.price, s.stop) ELSE Plus(s.price, s.stop)
StopDistance(s) == Distance(FillPrice(s), StopPrice(s))

\* What is at risk, when the lot is not fixed.
RiskAmount(s) ==
    LET base == IF config.compound THEN wallet ELSE Whole(setup.initial)
    IN  Times(s.multiplier, IF config.sizing = "risk_percent" THEN Times(base, config.amount)
                            ELSE config.amount)

Fee(lots, notional) == CASE config.feeType = "per_lot" -> Times(lots, config.fee)
                         [] config.feeType = "fixed" -> config.fee
                         [] OTHER -> Times(Whole(2), Times(notional, config.fee))

\* An exchange: the size is in units of the asset, the margin what leverage leaves to pay.
OnExchange(s, size) ==
    LET notional == Times(size, FillPrice(s))
    IN  [size |-> size, ppu |-> size, risk |-> Times(size, StopDistance(s)),
         margin |-> Over(notional, Whole(config.leverage)), fee |-> Fee(size, notional)]

\* MetaTrader: what a price unit earns is the risk over the distance, whatever the lots
\* were rounded to; the margin is the risk.
OnMetaTrader(lots, risk, ppu) ==
    [size |-> lots, ppu |-> ppu, risk |-> risk, margin |-> risk, fee |-> Fee(lots, risk)]

\* Variant: a stop beyond what the margin pays for is not refused.
WithinMarginAlways(s) == TRUE

\* The stop must not take more than the margin.
WithinMargin(s) == Below(Times(Over(StopDistance(s), FillPrice(s)), Whole(config.leverage)), Whole(1))

Sized(s) ==
    LET risk == RiskAmount(s)
        lots == Times(config.amount, s.multiplier)
        fixedPpu == Times(lots, PerPrice(PipInfo(s.symbol, FillPrice(s), DefaultRates)))
    IN  CASE config.sizing = "fixed_lot" /\ config.venue = "exchange" -> OnExchange(s, lots)
          [] config.sizing = "fixed_lot" -> OnMetaTrader(lots, Times(fixedPpu, StopDistance(s)), fixedPpu)
          [] config.venue = "metatrader" ->
                 OnMetaTrader(RoundLot(CalculateLot(s.symbol, risk, StopDistance(s), FillPrice(s), DefaultRates)),
                              risk, Over(risk, StopDistance(s)))
          [] OTHER -> OnExchange(s, Over(risk, StopDistance(s)))

CanSize(s) == /\ Below(Whole(0), StopDistance(s))
              /\ config.sizing = "fixed_lot" \/ Below(Whole(0), RiskAmount(s))
              /\ config.venue = "exchange" /\ config.sizing # "fixed_lot" => WithinMargin(s)

Affords(params) == AtMost(Plus(params.margin, params.fee), wallet)

-----------------------------------------------------------------------------
(* The wallet *)

Enter ==
    \E s \in Signal :
        /\ entered < setup.entries /\ CanSize(s)
        /\ Affords(Sized(s))
        /\ wallet' = Minus(wallet, Plus(Sized(s).margin, Sized(s).fee))
        /\ held' = Append(held, [params |-> Sized(s), distance |-> StopDistance(s)])
        /\ entered' = entered + 1
        /\ UNCHANGED setup

\* The oldest position is closed at its stop (make_closed_trade).
StoppedOut ==
    /\ held # <<>>
    /\ LET p == Head(held)
       IN  wallet' = Plus(wallet, Minus(p.params.margin, Times(p.params.ppu, p.distance)))
    /\ held' = Tail(held)
    /\ UNCHANGED <<setup, entered>>

Init == /\ setup \in Setups
        /\ wallet = Whole(setup.initial) /\ held = <<>> /\ entered = 0

Next == Enter \/ StoppedOut

Spec == Init /\ [][Next]_vars

-----------------------------------------------------------------------------
(* Properties *)

\* Whatever is entered and stopped out, in any order, no debt is left: a stop never takes
\* more than the margin locked for it, and what is locked or charged was there.  A fixed
\* size on an exchange has no such check and is left out (README).
StopsLeaveNoDebt ==
    config.venue = "metatrader" \/ config.sizing # "fixed_lot" => AtMost(Whole(0), wallet)

\* The two tables of the lot module agree: the lots calculate_mt5_lot gives for a risk, as
\* a fixed lot, put that same risk on the stop, for every symbol both tables list.
TablesAgree ==
    \A symbol \in setup.symbols \ OnlySized, price \in setup.prices, stop \in setup.stops :
        LET lots == CalculateLot(symbol, Whole(10), stop, price, DefaultRates)
        IN  Times(lots, Times(stop, PerPrice(PipInfo(symbol, price, DefaultRates)))) = Whole(10)

\* _lot.py: "The lot size is calculated so that hitting the stop-loss costs exactly
\* risk_amount in the account (USD) currency."  With the true rate in the table, a lot of a
\* dollar-based pair loses 100 000 units of its quote currency per unit of price, at price
\* units to the dollar.
LotCostsRisk ==
    \A symbol \in setup.symbols \cap DollarBased, price \in setup.prices, stop \in setup.stops :
        LET lots == CalculateLot(symbol, Whole(10), stop, price, [chf |-> price, cad |-> price])
        IN  Over(Times(Times(lots, ForexLot), stop), price) = Whole(10)
=============================================================================
