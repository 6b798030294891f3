----------------------------- MODULE Conversion ------------------------------
(***************************************************************************)
(* data/normalizer.py and the Converter of data/converter.py: a table of   *)
(* candles as somebody exported it is put into the library's form, and     *)
(* tables are converted to longer timeframes, one out of another.          *)
(*                                                                         *)
(* The rows of an export have no order that survives (it is sorted, and    *)
(* the sort is not stable), so an export is a set of rows.                 *)
(***************************************************************************)
EXTENDS Frames

CONSTANTS Exports,    \* what may be handed in: [rows, start, end]
          Finest,     \* the timeframe the data really has
          MonthStarts, \* the first instants of the calendar's months
          Threshold,  \* _MS_THRESHOLD: smaller stamps are seconds
          Kilo        \* milliseconds in a second

VARIABLES export,     \* the source of the Normalizer, its start and end
          frame,      \* what normalize() returned; Nothing before
          tables      \* route of timeframes -> what the last conversion along it saved

vars == <<export, frame, tables>>

Nothing == <<>>
NoBound == -1
NoHint == 0
Month == 0
Unsaved == [from |-> NoHint, candles |-> <<>>]

-----------------------------------------------------------------------------
(* Normalizer *)

\* _convert_timestamps: one unit for the whole column, told from its greatest stamp.
InMs(stamp, greatest) == IF greatest < Threshold THEN stamp * Kilo ELSE stamp
Converted(rows) ==
    LET greatest == Max({r.t : r \in rows})
    IN  {[r EXCEPT !.t = InMs(@, greatest)] : r \in rows}

\* _normalizer_to_ms: each bound is told on its own.
BoundMs(value) == IF value < Threshold THEN value * Kilo ELSE value
Within(rows, start, end) ==
    {r \in rows : /\ start # NoBound => BoundMs(start) <= r.t
                  /\ end # NoBound => r.t <= BoundMs(end)}

\* Variant: the rows are only sorted.
FinalizedKeepingAll(rows) == {Ordered(rows)}

\* _finalize: of several rows with one stamp any may be the one kept.
Finalized(rows) ==
    LET repeated == {r \in rows : \E q \in rows \ {r} : q.t = r.t}
        one(S) == \A r \in repeated : Cardinality({k \in S : k.t = r.t}) = 1
    IN  {Ordered(S \cup (rows \ repeated)) : S \in {S \in SUBSET repeated : one(S)}}

Normalize ==
    LET kept == Within(Converted(export.rows), export.start, export.end)
    IN  /\ frame = Nothing
        /\ kept # {}
        /\ frame' \in Finalized(kept)
        /\ UNCHANGED <<export, tables>>

-----------------------------------------------------------------------------
(* Converter *)

\* What convert() saves, with the timeframe it took the rows to be of; nothing when it
\* raises: no timeframe can be told, or another one than the caller's, no multiple, or no
\* complete candle.
Saved(rows, hint, to) ==
    LET taken == {from \in Detected(rows) : hint \in {NoHint, from} /\ CanConvert(from, to)}
    IN  {saved \in {[from |-> from, candles |-> Resampled(rows, from, to, TRUE)] : from \in taken} :
            saved.candles # <<>>}

\* The caller may say which timeframe the data has.
ConvertData(to) ==
    \E hint \in {NoHint, Finest} : \E saved \in Saved(frame, hint, to) :
        /\ tables' = [tables EXCEPT ![<<to>>] = saved]
        /\ UNCHANGED <<export, frame>>

\* A converted table is the source of the next conversion.
ConvertAgain(by, to) ==
    \E hint \in {NoHint, by} : \E saved \in Saved(Flattened(tables[<<by>>].candles), hint, to) :
        /\ tables' = [tables EXCEPT ![<<by, to>>] = saved]
        /\ UNCHANGED <<export, frame>>

\* Any timeframe can be made into months.
ConvertToMonths ==
    \E hint \in {NoHint, Finest} : \E from \in Detected(frame) :
        /\ hint \in {NoHint, from}
        /\ MonthCandles(frame, MonthStarts) # <<>>
        /\ tables' = [tables EXCEPT ![<<Month>>] =
                         [from |-> from, candles |-> MonthCandles(frame, MonthStarts)]]
        /\ UNCHANGED <<export, frame>>

Routes == {<<to>> : to \in Lengths \cup {Month}} \cup {<<by, to>> : by, to \in Lengths}

Init ==
    /\ export \in Exports
    /\ frame = Nothing
    /\ tables = [route \in Routes |-> Unsaved]

Next ==
    \/ Normalize
    \/ \E to \in Lengths : ConvertData(to)
    \/ \E by, to \in Lengths : ConvertAgain(by, to)
    \/ ConvertToMonths

Spec == Init /\ [][Next]_vars

-----------------------------------------------------------------------------
(* The source rows behind a candle, through any number of conversions. *)
Rows(c, route) == IF Len(route) = 1 THEN c.rows
                  ELSE FoldLeft(LAMBDA acc, r : acc \o r.v, <<>>, c.rows)

\* The source was taken for what it is; without a hint a table with holes may not be.
Told(route) ==
    IF Len(route) = 1 THEN tables[route].from = Finest
    ELSE tables[<<route[1]>>].from = Finest /\ tables[route].from = route[1]
Made(route) == tables[route].candles

(* A candle that a conversion kept is made of every source candle of its span, each    *)
(* once and in order, whatever the export repeated, lost or had in disorder, and       *)
(* whether it was made at once or out of candles made before.                          *)
CandlesAreWhole ==
    \A route \in Routes \ {<<Month>>} : Told(route) =>
        \A i \in DOMAIN Made(route) :
            LET c == Made(route)[i]
            IN  Times(Rows(c, route))
                    = [j \in 1..(route[Len(route)] \div Finest) |-> c.t + (j - 1) * Finest]

(* Two routes to a timeframe that both save something save the same candles. *)
RoutesAgree ==
    \A by, to \in Lengths :
        (Told(<<to>>) /\ Told(<<by, to>>)) => Times(Made(<<to>>)) = Times(Made(<<by, to>>))

(* What a conversion leaves out is missing in the data, what it keeps is all of it. *)
ConversionIsExact == CandlesAreWhole /\ RoutesAgree

(* The docstring of _drop_incomplete_months: only partially collected months are dropped. *)
WholeMonth(s, next) == \A t \in s..(next - 1) : t % Finest = 0 => \E i \in DOMAIN frame : frame[i].t = t
MonthsKept ==
    Told(<<Month>>) =>
        \A s, next \in MonthStarts :
            (s < next /\ MonthStarts \cap s..next = {s, next} /\ WholeMonth(s, next))
                => \E i \in DOMAIN Made(<<Month>>) : Made(<<Month>>)[i].t = s
=============================================================================
