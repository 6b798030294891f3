----------------------------- MODULE Indicators ------------------------------
(***************************************************************************)
(* indicator/: every indicator is computed twice.  The constructor fills   *)
(* the result columns from the whole source (_compute, pandas); update()   *)
(* appends one bar and its values from a small state that the first call   *)
(* builds by replaying the stored history.                                 *)
(*                                                                         *)
(* Values are exact fractions <<num, den>>; <<0, 0>> is NaN and <<1, 0>>   *)
(* infinity, so that a division follows IEEE.  A deviation is kept as its  *)
(* variance, and the guards against rounding have nothing to do.           *)
(***************************************************************************)
EXTENDS Integers, Sequences, FiniteSets

Seqs == INSTANCE SequencesExt

CONSTANTS Setups,   \* the indicators: `class`, its parameters, and the bars it meets
          Slack,    \* bound: bars the constructor is given beyond the least it needs
          MaxBars   \* bound on the length of the source

VARIABLES setup,    \* the indicator's class and parameters
          source,   \* the stored input series, one bar per index
          result,   \* column -> series
          stream    \* NoStream, or the streaming state

vars == <<setup, source, result, stream>>

NoStream == <<>>

-----------------------------------------------------------------------------
(* Arithmetic *)

RECURSIVE Gcd(_, _)
Gcd(a, b) == IF b = 0 THEN a ELSE Gcd(b, a % b)
Magnitude(a) == IF a < 0 THEN -a ELSE a

NaN == <<0, 0>>
Divided(n, d, g) == IF g = 0 THEN NaN ELSE <<n \div g, d \div g>>
Fraction(n, d) ==
    LET s == IF d < 0 THEN -1 ELSE 1 IN Divided(s * n, s * d, Gcd(Magnitude(n), Magnitude(d)))
Product(a, b) == Fraction(a[1] * b[1], a[2] * b[2])
Sum(x, y, g) == Fraction(x[1] * (y[2] \div g) + y[1] * (x[2] \div g), x[2] * (y[2] \div g))

Num(n) == <<n, 1>>
IsNaN(x) == x = NaN

\* Crosswise first, so that the products stay small.
x (/) y == IF IsNaN(x) \/ IsNaN(y) THEN NaN ELSE Product(Fraction(x[1], y[1]), Fraction(y[2], x[2]))
x (.) y == IF IsNaN(x) \/ IsNaN(y) THEN NaN ELSE Product(Fraction(x[1], y[2]), Fraction(y[1], x[2]))
x (+) y == IF IsNaN(x) \/ IsNaN(y) \/ (x[2] = 0 /\ y[2] = 0) THEN NaN ELSE Sum(x, y, Gcd(x[2], y[2]))
Minus(x) == <<-x[1], x[2]>>
x (-) y == x (+) Minus(y)
Below(x, y) == /\ ~IsNaN(x) /\ ~IsNaN(y)
               /\ x[1] * y[2] < y[1] * x[2]
AtMost(x, y) == Below(x, y) \/ (x = y /\ ~IsNaN(x))
Higher(x, y) == IF Below(x, y) THEN y ELSE x
Lower(x, y) == IF Below(y, x) THEN y ELSE x
Total(xs) == Seqs!FoldLeft(LAMBDA a, b : a (+) b, Num(0), xs)
Half(x) == x (/) Num(2)

RECURSIVE Power(_, _)
Power(x, n) == IF n = 0 THEN Num(1) ELSE x (.) Power(x, n - 1)

-----------------------------------------------------------------------------
(* The batch helpers: a column from a column *)

Observed(xs, i) == {j \in 1..i : ~IsNaN(xs[j])}
LastOf(S) == CHOOSE j \in S : \A k \in S : k <= j

\* series.ewm(alpha, min_periods, adjust=False).mean(): after a gap the old average
\* counts (1 - alpha) to the length of the gap.
EwmColumn(alpha, least, xs) ==
    LET mean[i \in 0..Len(xs)] ==
            IF Observed(xs, i) = {} THEN NaN
            ELSE IF IsNaN(xs[i]) THEN mean[i - 1]
            ELSE IF Observed(xs, i - 1) = {} THEN xs[i]
            ELSE LET j == LastOf(Observed(xs, i - 1))
                     w == Power(Num(1) (-) alpha, i - j)
                 IN  ((w (.) mean[j]) (+) (alpha (.) xs[i])) (/) (w (+) alpha)
    IN  [i \in DOMAIN xs |-> IF Cardinality(Observed(xs, i)) >= least THEN mean[i] ELSE NaN]

Weighted(w) ==
    LET n == Len(w)
    IN  Total([i \in 1..n |-> Num(i) (.) w[i]]) (/) Fraction(n * (n + 1), 2)

Aggregate(type, w) ==
    CASE type = "mean" -> Total(w) (/) Num(Len(w))
      [] type = "sum"  -> Total(w)
      [] type = "max"  -> Seqs!FoldLeft(Higher, w[1], w)
      [] type = "min"  -> Seqs!FoldLeft(Lower, w[1], w)
      [] type = "wma"  -> Weighted(w)

\* series.rolling(n, min_periods=n)
RollingColumn(type, n, xs) ==
    [i \in DOMAIN xs |->
        IF i < n \/ \E j \in (i - n + 1)..i : IsNaN(xs[j])
        THEN NaN
        ELSE Aggregate(type, SubSeq(xs, i - n + 1, i))]

MaColumn(type, n, xs) ==
    CASE type = "EMA"  -> EwmColumn(Fraction(2, n + 1), n, xs)
      [] type = "SMMA" -> EwmColumn(Fraction(1, n), n, xs)
      [] type = "SMA"  -> RollingColumn("mean", n, xs)
      [] type = "WMA"  -> RollingColumn("wma", n, xs)

Both(Op(_, _), xs, ys) == [i \in DOMAIN xs |-> Op(xs[i], ys[i])]
Shift(xs, k) == [i \in DOMAIN xs |-> IF i - k \in DOMAIN xs THEN xs[i - k] ELSE NaN]
Column(bars, field) == [i \in DOMAIN bars |-> bars[i][field]]

-----------------------------------------------------------------------------
(* The streaming states: `out` is what the last push returned *)

EwmState(alpha, least) ==
    [type |-> "ewm", alpha |-> alpha, least |-> least, avg |-> NaN, weight |-> Num(1),
     obs |-> 0, out |-> NaN]

\* Variant: a missing value does not age the average.
PushEwmIgnoringGaps(s, x) ==
    LET avg == IF IsNaN(x) THEN s.avg
               ELSE IF IsNaN(s.avg) THEN x
               ELSE ((Num(1) (-) s.alpha) (.) s.avg) (+) (s.alpha (.) x)
        obs == IF IsNaN(x) THEN s.obs ELSE s.obs + 1
    IN  [s EXCEPT !.avg = avg, !.obs = obs, !.out = IF obs >= s.least THEN avg ELSE NaN]

PushEwm(s, x) ==
    LET aged == IF IsNaN(s.avg) THEN s.weight ELSE s.weight (.) (Num(1) (-) s.alpha)
        avg  == IF IsNaN(x) THEN s.avg
                ELSE IF IsNaN(s.avg) THEN x
                ELSE ((aged (.) s.avg) (+) (s.alpha (.) x)) (/) (aged (+) s.alpha)
        obs  == IF IsNaN(x) THEN s.obs ELSE s.obs + 1
    IN  [s EXCEPT !.avg = avg, !.weight = IF IsNaN(x) THEN aged ELSE Num(1), !.obs = obs,
                  !.out = IF obs >= s.least THEN avg ELSE NaN]

WindowState(n, type) == [type |-> type, n |-> n, values |-> <<>>, out |-> NaN]

PushWindow(s, x) ==
    LET grown  == Append(s.values, x)
        values == IF Len(grown) > s.n THEN Tail(grown) ELSE grown
    IN  [s EXCEPT !.values = values,
                  !.out = IF Len(values) < s.n \/ \E j \in DOMAIN values : IsNaN(values[j])
                          THEN NaN ELSE Aggregate(s.type, values)]

Push(s, x) == IF s.type = "ewm" THEN PushEwm(s, x) ELSE PushWindow(s, x)

MaState(type, n) ==
    CASE type = "EMA"  -> EwmState(Fraction(2, n + 1), n)
      [] type = "SMMA" -> EwmState(Fraction(1, n), n)
      [] type = "SMA"  -> WindowState(n, "mean")
      [] type = "WMA"  -> WindowState(n, "wma")

-----------------------------------------------------------------------------
(* The classes.  XLines: the columns of the constructor.  XPush: the state after one *)
(* bar.  XNew: the values that update() appends.                                     *)

Pushed(st, name, x) == [st EXCEPT ![name] = Push(@, x)]

\* SMA, EMA, WMA, SMMA
MaLines(p, bars) == [line |-> MaColumn(p.type, p.n, Column(bars, "c"))]
MaPush(p, st, b) == Pushed(st, "ma", b.c)
MaNew(p, st) == [line |-> st.ma.out]

Double(e1, e2) == (Num(2) (.) e1) (-) e2
Triple(e1, e2, e3) == ((Num(3) (.) e1) (-) (Num(3) (.) e2)) (+) e3

DemaLines(p, bars) ==
    LET e1 == MaColumn("EMA", p.n, Column(bars, "c"))
    IN  [line |-> Both(Double, e1, MaColumn("EMA", p.n, e1))]
DemaPush(p, st, b) ==
    LET first == Pushed(st, "e1", b.c) IN Pushed(first, "e2", first.e1.out)
DemaNew(p, st) == [line |-> Double(st.e1.out, st.e2.out)]

TemaLines(p, bars) ==
    LET e1 == MaColumn("EMA", p.n, Column(bars, "c"))
        e2 == MaColumn("EMA", p.n, e1)
        e3 == MaColumn("EMA", p.n, e2)
    IN  [line |-> [i \in DOMAIN bars |-> Triple(e1[i], e2[i], e3[i])]]
TemaPush(p, st, b) ==
    LET second == DemaPush(p, st, b) IN Pushed(second, "e3", second.e2.out)
TemaNew(p, st) == [line |-> Triple(st.e1.out, st.e2.out, st.e3.out)]

HalfLength(n) == IF n < 2 THEN 1 ELSE n \div 2
RootLength(n) == CHOOSE r \in 1..n : (2 * r - 1) * (2 * r - 1) < 4 * n /\ 4 * n < (2 * r + 1) * (2 * r + 1)

HullLines(p, bars) ==
    LET c   == Column(bars, "c")
        raw == Both(Double, RollingColumn("wma", HalfLength(p.n), c), RollingColumn("wma", p.n, c))
    IN  [line |-> RollingColumn("wma", RootLength(p.n), raw)]
HullPush(p, st, b) ==
    LET both == Pushed(Pushed(st, "half", b.c), "full", b.c)
    IN  Pushed(both, "root", Double(both.half.out, both.full.out))
HullNew(p, st) == [line |-> st.root.out]

VwmaLines(p, bars) ==
    LET v  == Column(bars, "v")
        pv == Both((.), Column(bars, "c"), v)
    IN  [line |-> Both((/), RollingColumn("sum", p.n, pv), RollingColumn("sum", p.n, v))]
VwmaPush(p, st, b) == Pushed(Pushed(st, "pv", b.c (.) b.v), "vol", b.v)
VwmaNew(p, st) == [line |-> st.pv.out (/) st.vol.out]

\* Anchor "none": pandas skips a missing value in a running total; "session" adds it, and
\* nothing ever resets the totals.
Typical(b) == ((b.h (+) b.l) (+) b.c) (/) Num(3)
CumSum(xs) == [i \in DOMAIN xs |->
    IF IsNaN(xs[i]) THEN NaN ELSE Total(SelectSeq(SubSeq(xs, 1, i), LAMBDA x : ~IsNaN(x)))]
Variance(pv2, vol, mean) == (pv2 (/) vol) (-) (mean (.) mean)
AtLeastZero(x) == IF Below(Num(0), x) THEN x ELSE Num(0)

VwapLines(p, bars) ==
    LET pv  == [i \in DOMAIN bars |-> Typical(bars[i]) (.) bars[i].v]
        pv2 == [i \in DOMAIN bars |-> pv[i] (.) Typical(bars[i])]
        vol == Column(bars, "v")
        Upto(xs, i) == IF p.anchor = "none" THEN CumSum(xs)[i] ELSE Total(SubSeq(xs, 1, i))
        empty(i) == p.anchor = "session" /\ Upto(vol, i) = Num(0)
        mean == [i \in DOMAIN bars |-> IF empty(i) THEN NaN ELSE Upto(pv, i) (/) Upto(vol, i)]
        var(i) == Variance(Upto(pv2, i), Upto(vol, i), mean[i])
    IN  [line |-> mean,
         var  |-> [i \in DOMAIN bars |-> IF empty(i) THEN NaN
                                         ELSE IF p.anchor = "none" THEN var(i)
                                         ELSE AtLeastZero(var(i))]]

VwapPush(p, st, b) ==
    LET pv == Typical(b) (.) b.v
        keep(sum, x) == IF p.anchor = "none" /\ IsNaN(x) THEN sum ELSE sum (+) x
        sums == [pv  |-> keep(st.sums.pv, pv), vol |-> keep(st.sums.vol, b.v),
                 pv2 |-> keep(st.sums.pv2, pv (.) Typical(b))]
        read(sum, x) == IF p.anchor = "none" /\ IsNaN(x) THEN NaN ELSE sum
        vol  == read(sums.vol, b.v)
        mean == read(sums.pv, pv) (/) vol
        var  == Variance(read(sums.pv2, pv), vol, mean)
    IN  [sums |-> sums,
         out  |-> IF p.anchor = "none" THEN [line |-> mean, var |-> var]
                  ELSE IF vol = Num(0) THEN [line |-> NaN, var |-> NaN]
                  ELSE [line |-> mean, var |-> AtLeastZero(var)]]
VwapNew(p, st) == st.out

Gain(change) == IF IsNaN(change) THEN NaN ELSE Higher(change, Num(0))
RsiOf(gain, loss) == Num(100) (-) (Num(100) (/) (Num(1) (+) (gain (/) loss)))

RsiLines(p, bars) ==
    LET c      == Column(bars, "c")
        change == Both((-), c, Shift(c, 1))
        gain   == MaColumn("SMMA", p.n, [i \in DOMAIN c |-> Gain(change[i])])
        loss   == MaColumn("SMMA", p.n, [i \in DOMAIN c |-> Gain(Minus(change[i]))])
        rsi    == Both(RsiOf, gain, loss)
    IN  [line |-> rsi, ma |-> MaColumn(p.type, p.m, rsi)]
RsiPush(p, st, b) ==
    LET change == b.c (-) st.prev
        fed == Pushed(Pushed([st EXCEPT !.prev = b.c], "gain", Gain(change)), "loss", Gain(Minus(change)))
    IN  Pushed(fed, "ma", RsiOf(fed.gain.out, fed.loss.out))
RsiNew(p, st) == [line |-> RsiOf(st.gain.out, st.loss.out), ma |-> st.ma.out]

\* Missing differences are skipped: the first range is high - low.
TrueRange(h, l, prev) ==
    LET apart(x) == Higher(x, Minus(x))
        valid == SelectSeq(<<h (-) l, apart(h (-) prev), apart(l (-) prev)>>, LAMBDA x : ~IsNaN(x))
    IN  IF valid = <<>> THEN NaN ELSE Aggregate("max", valid)

AtrLines(p, bars) ==
    LET prev == Shift(Column(bars, "c"), 1)
        tr   == [i \in DOMAIN bars |-> TrueRange(bars[i].h, bars[i].l, prev[i])]
    IN  [tr |-> tr, line |-> MaColumn("SMMA", p.n, tr)]
AtrPush(p, st, b) ==
    LET tr == TrueRange(b.h, b.l, st.prev)
    IN  Pushed([st EXCEPT !.prev = b.c, !.tr = tr], "ma", tr)
AtrNew(p, st) == [tr |-> st.tr, line |-> st.ma.out]

MacdLines(p, bars) ==
    LET c      == Column(bars, "c")
        line   == Both((-), MaColumn(p.type, p.fast, c), MaColumn(p.type, p.slow, c))
        signal == MaColumn(p.sigtype, p.signal, line)
    IN  [line |-> line, signal |-> signal, hist |-> Both((-), line, signal)]
MacdPush(p, st, b) ==
    LET both == Pushed(Pushed(st, "fast", b.c), "slow", b.c)
    IN  Pushed(both, "signal", both.fast.out (-) both.slow.out)
MacdNew(p, st) ==
    LET line == st.fast.out (-) st.slow.out
    IN  [line |-> line, signal |-> st.signal.out, hist |-> line (-) st.signal.out]

\* The clouds are read from the last `shift` raw spans, and stand past the last bar.
Middle(highs, lows, n) ==
    Both(LAMBDA a, b : Half(a (+) b), RollingColumn("max", n, highs), RollingColumn("min", n, lows))
LastRaw(p, xs) == SubSeq(xs, Len(xs) - p.shift + 1, Len(xs))

IchimokuLines(p, bars) ==
    LET highs  == Column(bars, "h")
        lows   == Column(bars, "l")
        tenkan == Middle(highs, lows, p.tenkan)
        kijun  == Middle(highs, lows, p.kijun)
        rawA   == Both(LAMBDA a, b : Half(a (+) b), tenkan, kijun)
        rawB   == Middle(highs, lows, p.senkou)
    IN  [tenkan |-> tenkan, kijun |-> kijun, rawA |-> rawA, rawB |-> rawB,
         senkouA |-> Shift(rawA, p.shift), senkouB |-> Shift(rawB, p.shift),
         chikou |-> Shift(Column(bars, "c"), -p.shift),
         cloudA |-> LastRaw(p, rawA), cloudB |-> LastRaw(p, rawB)]

Donchian == {"tenkan", "kijun", "senkou"}
IchimokuPush(p, st, b) ==
    [hh |-> [k \in Donchian |-> Push(st.hh[k], b.h)], ll |-> [k \in Donchian |-> Push(st.ll[k], b.l)]]

IchimokuAppended(p, r, st, b) ==
    LET now  == Len(r.rawA) + 1
        mid(k) == Half(st.hh[k].out (+) st.ll[k].out)
        rawA == Append(r.rawA, Half(mid("tenkan") (+) mid("kijun")))
        rawB == Append(r.rawB, mid("senkou"))
        back(xs) == IF now > p.shift THEN xs[now - p.shift] ELSE NaN
        chikou == IF now > p.shift THEN [r.chikou EXCEPT ![now - p.shift] = b.c] ELSE r.chikou
    IN  [tenkan |-> Append(r.tenkan, mid("tenkan")), kijun |-> Append(r.kijun, mid("kijun")),
         rawA |-> rawA, rawB |-> rawB,
         senkouA |-> Append(r.senkouA, back(r.rawA)), senkouB |-> Append(r.senkouB, back(r.rawB)),
         chikou |-> Append(chikou, NaN),
         cloudA |-> LastRaw(p, rawA), cloudB |-> LastRaw(p, rawB)]

-----------------------------------------------------------------------------
(* One indicator object *)

\* _check_length, and what the displaced cloud of Ichimoku needs.
Least(p) ==
    CASE p.class \in {"MA", "HullMA", "VWMA"} -> p.n
      [] p.class = "DEMA" -> 2 * p.n - 1
      [] p.class = "TEMA" -> 3 * p.n - 2
      [] p.class \in {"RSI", "ATR"} -> p.n + 1
      [] p.class = "MACD" -> p.slow + p.signal - 1
      [] p.class = "Ichimoku" -> CHOOSE n \in {p.tenkan, p.kijun, p.senkou, p.shift} :
                                     \A m \in {p.tenkan, p.kijun, p.senkou, p.shift} : m <= n
      [] p.class = "VWAP" -> 1

Computed(p, bars) ==
    CASE p.class = "MA"       -> MaLines(p, bars)
      [] p.class = "DEMA"     -> DemaLines(p, bars)
      [] p.class = "TEMA"     -> TemaLines(p, bars)
      [] p.class = "HullMA"   -> HullLines(p, bars)
      [] p.class = "VWMA"     -> VwmaLines(p, bars)
      [] p.class = "VWAP"     -> VwapLines(p, bars)
      [] p.class = "RSI"      -> RsiLines(p, bars)
      [] p.class = "ATR"      -> AtrLines(p, bars)
      [] p.class = "MACD"     -> MacdLines(p, bars)
      [] p.class = "Ichimoku" -> IchimokuLines(p, bars)

Fresh(p) ==
    LET ema == EwmState(Fraction(2, p.n + 1), p.n)
        rma == EwmState(Fraction(1, p.n), p.n)
        sum == WindowState(p.n, "sum")
    IN  CASE p.class = "MA"   -> [ma |-> MaState(p.type, p.n)]
          [] p.class = "DEMA" -> [e1 |-> ema, e2 |-> ema]
          [] p.class = "TEMA" -> [e1 |-> ema, e2 |-> ema, e3 |-> ema]
          [] p.class = "HullMA" -> [half |-> WindowState(HalfLength(p.n), "wma"),
                                    full |-> WindowState(p.n, "wma"),
                                    root |-> WindowState(RootLength(p.n), "wma")]
          [] p.class = "VWMA" -> [pv |-> sum, vol |-> sum]
          [] p.class = "VWAP" -> [sums |-> [pv |-> Num(0), vol |-> Num(0), pv2 |-> Num(0)],
                                  out |-> NoStream]
          [] p.class = "RSI"  -> [prev |-> NaN, gain |-> rma, loss |-> rma, ma |-> MaState(p.type, p.m)]
          [] p.class = "ATR"  -> [prev |-> NaN, tr |-> NaN, ma |-> rma]
          [] p.class = "MACD" -> [fast |-> MaState(p.type, p.fast), slow |-> MaState(p.type, p.slow),
                                  signal |-> MaState(p.sigtype, p.signal)]
          [] p.class = "Ichimoku" -> [hh |-> [k \in Donchian |-> WindowState(p[k], "max")],
                                      ll |-> [k \in Donchian |-> WindowState(p[k], "min")]]

PushBar(p, st, b) ==
    CASE p.class = "MA"       -> MaPush(p, st, b)
      [] p.class = "DEMA"     -> DemaPush(p, st, b)
      [] p.class = "TEMA"     -> TemaPush(p, st, b)
      [] p.class = "HullMA"   -> HullPush(p, st, b)
      [] p.class = "VWMA"     -> VwmaPush(p, st, b)
      [] p.class = "VWAP"     -> VwapPush(p, st, b)
      [] p.class = "RSI"      -> RsiPush(p, st, b)
      [] p.class = "ATR"      -> AtrPush(p, st, b)
      [] p.class = "MACD"     -> MacdPush(p, st, b)
      [] p.class = "Ichimoku" -> IchimokuPush(p, st, b)

New(p, st) ==
    CASE p.class = "MA"     -> MaNew(p, st)
      [] p.class = "DEMA"   -> DemaNew(p, st)
      [] p.class = "TEMA"   -> TemaNew(p, st)
      [] p.class = "HullMA" -> HullNew(p, st)
      [] p.class = "VWMA"   -> VwmaNew(p, st)
      [] p.class = "VWAP"   -> VwapNew(p, st)
      [] p.class = "RSI"    -> RsiNew(p, st)
      [] p.class = "ATR"    -> AtrNew(p, st)
      [] p.class = "MACD"   -> MacdNew(p, st)

\* _append_results
Appended(p, r, st, b) ==
    IF p.class = "Ichimoku" THEN IchimokuAppended(p, r, st, b)
    ELSE [k \in DOMAIN r |-> Append(r[k], New(p, st)[k])]

Replayed(p, bars) == Seqs!FoldLeft(LAMBDA st, b : PushBar(p, st, b), Fresh(p), bars)

Init ==
    /\ setup \in Setups
    /\ source \in UNION {[1..n -> setup.bars] : n \in Least(setup)..(Least(setup) + Slack)}
    /\ result = Computed(setup, source)
    /\ stream = NoStream

Update(b) ==
    /\ Len(source) < MaxBars
    /\ stream' = PushBar(setup, IF stream = NoStream THEN Replayed(setup, source) ELSE stream, b)
    /\ result' = Appended(setup, result, stream', b)
    /\ source' = Append(source, b)
    /\ UNCHANGED setup

Next == \E b \in setup.bars : Update(b)

Spec == Init /\ [][Next]_vars

-----------------------------------------------------------------------------
(* Every bar's values are the ones a new indicator on the whole source would have,   *)
(* whatever was built at once and whatever was streamed, through missing values: the *)
(* live trader's columns (update()) are the backtest's (_compute).                   *)
StreamIsBatch == result = Computed(setup, source)
=============================================================================
