--------------------------- MODULE TimeframeChart ----------------------------
(***************************************************************************)
(* visual/chart.py: a chart holds its data at the source timeframe and     *)
(* shows it at that one or resampled to a longer one, with a rolling       *)
(* window, indicators of two kinds and rows streamed into it.              *)
(*                                                                         *)
(* A chart is a record:                                                    *)
(*   raw      _raw_df, the rows as loaded                                  *)
(*   source   _source_df, the rows the resampler works on                  *)
(*   length   _source_tf                                                   *)
(*   display  _display_tf, or Source                                       *)
(*   frame    df, the candles the indicators are computed on               *)
(*   bars     _bars, what the browser is given                             *)
(*   limit    _candle_count_limit, or NoLimit                              *)
(*   lines    _indicators: [need, data, full, approx]; `need` candles for  *)
(*            one that is built from a spec, Given for finished points     *)
(* A point is [t, of]: where it is drawn, and the candle it is the value   *)
(* of.                                                                     *)
(***************************************************************************)
EXTENDS Frames

Source == 0
NoLimit == 0
Given == 0
NoPoints == <<>>

Newest(bars, limit) ==
    IF limit = NoLimit \/ Len(bars) <= limit THEN bars
    ELSE SubSeq(bars, Len(bars) - limit + 1, Len(bars))

\* The rows as candles of their own timeframe.
AsCandles(rows) == [i \in DOMAIN rows |-> [t |-> rows[i].t, rows |-> <<rows[i]>>]]

-----------------------------------------------------------------------------
(* Indicators across a timeframe change *)

\* The values of an indicator that needs `need` candles; none when there are too few.
Exact(need, frame) ==
    IF Len(frame) < need THEN NoPoints
    ELSE [i \in 1..(Len(frame) - need + 1) |->
             [t |-> frame[i + need - 1].t, of |-> frame[i + need - 1].t]]

DownsamplePoints(points, length) ==
    LET opens == {Bucket(p.t, length) : p \in Range(points)}
        last(b) == points[Max({i \in DOMAIN points : Bucket(points[i].t, length) = b})]
    IN  Ordered({[t |-> b, of |-> last(b).of] : b \in opens})

\* Thinning starts from the points as first supplied.
Downsampled(line, bars, display) ==
    LET full == IF line.full = NoPoints THEN line.data ELSE line.full
        thin == SelectSeq(DownsamplePoints(full, display),
                          LAMBDA p : bars = <<>> \/ p.t >= bars[1].t)
    IN  [line EXCEPT !.full = full, !.approx = display # Source,
                     !.data = IF display = Source THEN full ELSE thin]

Recomputed(line, frame, bars, display) ==
    IF line.need # Given /\ Exact(line.need, frame) # NoPoints
    THEN [line EXCEPT !.data = Exact(line.need, frame), !.full = NoPoints, !.approx = FALSE]
    ELSE Downsampled(line, bars, display)

-----------------------------------------------------------------------------
(* set_data, set_timeframe, stream *)

\* A leading bucket the data covers in part claims an open it never had.
WithoutPartialFirst(candles, source) ==
    IF Len(candles) >= 2 /\ candles[1].t < source[1].t THEN Tail(candles) ELSE candles

Shown(ch, frame, display) ==
    LET bars == Newest(frame, ch.limit)
    IN  [ch EXCEPT !.frame = frame, !.bars = bars, !.display = display,
                   !.lines = [k \in DOMAIN @ |-> Recomputed(@[k], frame, bars, display)]]

Loaded(rows, length, limit, lines) ==
    LET frame == AsCandles(rows)
    IN  [raw |-> rows, source |-> rows, length |-> length, display |-> Source,
         frame |-> frame, bars |-> Newest(frame, limit), limit |-> limit, lines |-> lines]

\* The resampler detects the timeframe again, in a source that has grown, and refuses
\* when it finds another one, or none.
Resamples(ch) == Len(ch.source) > 1 /\ ch.length \in CommonGaps(ch.source)
Refuses(ch) == Len(ch.source) < 2 \/ CommonGaps(ch.source) # {ch.length}

Rebuilt(ch, tf) ==
    IF tf \in {Source, ch.length} THEN Shown(ch, AsCandles(ch.raw), Source)
    ELSE Shown(ch, WithoutPartialFirst(Resampled(ch.source, ch.length, tf, FALSE), ch.source), tf)

\* What the selector offers.
Offered(ch) == {ch.length} \cup {tf \in Lengths : CanConvert(ch.length, tf)}

\* The same candle, revised, or the next one.
Put(bars, bar) ==
    IF bars # <<>> /\ Last(bars).t = bar.t THEN [bars EXCEPT ![Len(bars)] = bar]
    ELSE Append(bars, bar)

\* Variant: a revision of the last row is stored beside it.
FoldedTwice(ch, row) ==
    LET source == Append(ch.source, row)
    IN  [source |-> source,
         bar |-> CandleOf(Bucket(row.t, ch.display), source, ch.display)]

\* _fold_source_bar: every source row since the bucket's open.
Folded(ch, row) ==
    LET source == Put(ch.source, row)
        open   == Bucket(row.t, ch.display)
    IN  [source |-> source,
         bar |-> [t |-> open, rows |-> SelectSeq(source, LAMBDA r : r.t >= open)]]

\* A streamed row reaches the source only while another timeframe is shown.
Streamed(ch, row) ==
    LET fold == IF ch.display = Source
                THEN [source |-> ch.source, bar |-> AsCandles(<<row>>)[1]]
                ELSE Folded(ch, row)
    IN  [chart |-> [ch EXCEPT !.source = fold.source, !.bars = Newest(Put(@, fold.bar), ch.limit)],
         bar   |-> fold.bar]

-----------------------------------------------------------------------------
(* What the browser is sent *)

InitOf(ch) ==
    [type |-> "init", bars |-> ch.bars, display |-> ch.display, length |-> ch.length,
     limit |-> ch.limit, offered |-> Offered(ch),
     lines |-> [k \in DOMAIN ch.lines |-> ch.lines[k].data]]

StreamOf(bar) == [type |-> "stream", bar |-> bar]
Refusal == [type |-> "timeframe_error"]

\* source_bars: what a forming candle is built from, nothing at the source timeframe.
ReplayDataOf(ch) ==
    [type |-> "replay_data", step |-> ch.length,
     rows |-> IF ch.display = Source THEN <<>>
              ELSE SelectSeq(ch.source, LAMBDA r : ch.bars = <<>> \/ r.t >= ch.bars[1].t)]

-----------------------------------------------------------------------------
(* At a longer timeframe a chart shows the newest candles of the rows it was given,    *)
(* complete or forming, each row once, however they came: loaded, streamed or revised. *)
(* Only a first candle that the data covers in part may be missing.                    *)
ChartIsData(ch) ==
    ch.display # Source =>
        /\ \A i \in 2..Len(ch.source) : ch.source[i - 1].t < ch.source[i].t
        /\ \E candles \in {Candles(ch.source, ch.display),
                        WithoutPartialFirst(Candles(ch.source, ch.display), ch.source)} :
              ch.bars = Newest(candles, ch.limit)

\* At the source timeframe a given line is as it was given; at a longer one every candle
\* from the first shown has the last value inside it.  A computed line has a value for
\* every candle that had enough before it, or is a thinned one.
LineIsExact(ch, line) == line.data = Exact(line.need, ch.frame)
LineIsThin(ch, line, given) ==
    LET points == IF ch.display = Source THEN given ELSE DownsamplePoints(given, ch.display)
    IN  /\ IsSuffix(line.data, points)
        /\ \A p \in Range(points) : p.t >= ch.bars[1].t => p \in Range(line.data)
=============================================================================
