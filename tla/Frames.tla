------------------------------- MODULE Frames --------------------------------
(***************************************************************************)
(* data/converter.py: detecting the timeframe of a table of candles and    *)
(* resampling it to a longer one.                                          *)
(*                                                                         *)
(* A source row is [t |-> its open time, v |-> which data it carries].     *)
(* A candle is [t, rows]: open, high, low, close and the sums are          *)
(* functions of the rows it was made of, taken in order.  A timeframe is   *)
(* its length; only lengths that divide a day (buckets are then multiples  *)
(* of the length) and calendar months are modelled.                        *)
(***************************************************************************)
EXTENDS Integers, Sequences, FiniteSets, SequencesExt, FiniteSetsExt

CONSTANTS Lengths,  \* the fixed timeframes
          Sampled   \* how many gaps the detection looks at

Times(rows) == [i \in DOMAIN rows |-> rows[i].t]
Ordered(S) == SortSeq(FoldSet(LAMBDA r, acc : Append(acc, r), <<>>, S), LAMBDA a, b : a.t < b.t)

-----------------------------------------------------------------------------
(* detect_timeframe *)

Gaps(rows) ==
    LET n == Min({Len(rows) - 1, Sampled}) IN [i \in 1..n |-> rows[i + 1].t - rows[i].t]

Count(seq, x) == Cardinality({i \in DOMAIN seq : seq[i] = x})

\* The most common gap; among equals the iteration order of a set decides.
CommonGaps(rows) ==
    {g \in Range(Gaps(rows)) : \A h \in Range(Gaps(rows)) : Count(Gaps(rows), h) <= Count(Gaps(rows), g)}

\* What the detection may answer; none: it raises.
Detected(rows) == IF Len(rows) < 2 THEN {} ELSE CommonGaps(rows) \cap Lengths

\* validate_conversion
CanConvert(from, to) == from < to /\ to % from = 0

-----------------------------------------------------------------------------
(* resample_ohlcv *)

Bucket(t, length) == (t \div length) * length

CandleOf(b, rows, length) == [t |-> b, rows |-> SelectSeq(rows, LAMBDA r : Bucket(r.t, length) = b)]

Candles(rows, length) ==
    LET opens == {Bucket(r.t, length) : r \in Range(rows)}
    IN  Ordered({CandleOf(b, rows, length) : b \in opens})

\* _drop_incomplete_groups: a candle is kept for the number of its rows.
Complete(candles, from, to) == SelectSeq(candles, LAMBDA c : Len(c.rows) = to \div from)

Resampled(rows, from, to, drop) ==
    IF drop THEN Complete(Candles(rows, to), from, to) ELSE Candles(rows, to)

\* _drop_incomplete_months; `starts` are the first days of the months.
MonthOf(t, starts) == Max({s \in starts : s <= t})
MonthCandles(rows, starts) ==
    LET spanned == {s \in starts : \E r \in Range(rows) : s >= MonthOf(r.t, starts)
                                      /\ \E q \in Range(rows) : s <= q.t}
        in(s)   == SelectSeq(rows, LAMBDA r : MonthOf(r.t, starts) = s)
        sharing(n) == Cardinality({s \in spanned : Len(in(s)) = n})
        counts  == {Len(in(s)) : s \in spanned}
        mode    == Min({n \in counts : \A m \in counts : sharing(m) <= sharing(n)})
    IN  Ordered({[t |-> s, rows |-> in(s)] : s \in {s \in spanned : Len(in(s)) >= Max({1, mode - 1})}})

\* The rows a table of candles has when it is itself resampled.
Flattened(candles) ==
    FoldLeft(LAMBDA acc, c : Append(acc, [t |-> c.t, v |-> c.rows]), <<>>, candles)
=============================================================================
