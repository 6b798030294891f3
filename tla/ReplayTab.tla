------------------------------ MODULE ReplayTab ------------------------------
(***************************************************************************)
(* visual/static/index.html: a chart in a browser, alone in its tab or a   *)
(* frame of a page, and its bar replay: one cursor in time, the candles    *)
(* that closed by then, the one it stands in built from the source rows.   *)
(*                                                                         *)
(* A tab is a record:                                                      *)
(*   bars, display, length, limit, lines   what the last init brought and  *)
(*            the stream added (indMeta.full)                              *)
(*   pending  the timeframe it has asked for and not been answered         *)
(*   screen, drawn   what its series hold: candles, and points per line    *)
(*   src, step, armed       the answer to replay_arm                       *)
(*   active, picking, start, cursor, k, shown   the replay's own           *)
(* Time 0 is before every candle.                                          *)
(***************************************************************************)
EXTENDS TimeframeChart

NoTime == 0
NoStep == 0
Uncounted == -1

TfOf(tab) == IF tab.display = Source THEN tab.length ELSE tab.display
StepOf(tab) == IF tab.step = NoStep THEN TfOf(tab) ELSE tab.step

-----------------------------------------------------------------------------
(* What the replay shows *)

Clamped(t, low, high) == Max({low, Min({high, t})})

\* replayBounds: the close of the first candle and of the last.
BoundsOf(tab) ==
    IF tab.bars = <<>> THEN [first |-> 0, last |-> 0]
    ELSE [first |-> tab.bars[1].t + TfOf(tab), last |-> Last(tab.bars).t + TfOf(tab)]

CountClosed(tab, T) == Cardinality({i \in DOMAIN tab.bars : tab.bars[i].t + TfOf(tab) <= T})

\* Variant: the row that opens at the cursor is taken in.
FormingPastCursor(tab, T) ==
    LET k    == CountClosed(tab, T)
        open == tab.bars[k + 1].t
        rows == SelectSeq(tab.src, LAMBDA r : r.t >= open /\ r.t <= T)
    IN  IF k = Len(tab.bars) \/ T <= open \/ rows = <<>> THEN <<>> ELSE <<[t |-> open, rows |-> rows]>>

\* buildForming: one candle, or none.
Forming(tab, T) ==
    LET k    == CountClosed(tab, T)
        open == tab.bars[k + 1].t
        rows == SelectSeq(tab.src, LAMBDA r : r.t >= open /\ r.t < T)
    IN  IF k = Len(tab.bars) \/ T <= open \/ rows = <<>> THEN <<>> ELSE <<[t |-> open, rows |-> rows]>>

\* Lines end at the last closed candle; what runs past the data keeps its lead.
Cut(points, tab, k) ==
    LET end   == IF tab.bars = <<>> THEN 0 ELSE Last(tab.bars).t
        ahead == IF points = <<>> THEN 0 ELSE Max({0, Last(points).t - end})
    IN  IF k = 0 THEN <<>> ELSE SelectSeq(points, LAMBDA p : p.t <= tab.bars[k].t + ahead)

\* replayRender: everything again, or only the candle that forms.
Rendered(tab, full) ==
    LET k       == CountClosed(tab, tab.cursor)
        forming == Forming(tab, tab.cursor)
        shown   == SubSeq(tab.bars, 1, k) \o forming
    IN  IF full \/ k # tab.k
        THEN [tab EXCEPT !.k = k, !.shown = shown, !.screen = shown,
                         !.drawn = [n \in DOMAIN tab.lines |-> Cut(tab.lines[n], tab, k)]]
        ELSE IF forming = <<>> THEN tab
        ELSE [tab EXCEPT !.screen = Put(@, forming[1]),
                         !.shown = IF @ = <<>> THEN @ ELSE [@ EXCEPT ![Len(@)] = forming[1]]]

\* replaySeek
Sought(tab, t, full) ==
    IF ~tab.active THEN tab
    ELSE Rendered([tab EXCEPT !.cursor = Clamped(t, BoundsOf(tab).first, BoundsOf(tab).last)], full)

-----------------------------------------------------------------------------
(* What the server sends *)

\* enforceCandleLimit
Windowed(tab) ==
    LET bars   == Newest(tab.bars, tab.limit)
        from(points) == SelectSeq(points, LAMBDA p : p.t >= bars[1].t)
    IN  IF bars = tab.bars THEN tab
        ELSE [tab EXCEPT !.bars = bars, !.screen = bars, !.drawn = [n \in DOMAIN @ |-> from(@[n])]]

\* An init resets the chart; a replay is cut again at its cursor.
Reset(tab, msg) ==
    LET fresh == [tab EXCEPT !.bars = msg.bars, !.display = msg.display, !.length = msg.length,
                             !.limit = msg.limit, !.lines = msg.lines, !.pending = FALSE,
                             !.screen = msg.bars, !.drawn = msg.lines]
    IN  Sought([Windowed(fresh) EXCEPT !.k = IF tab.active THEN Uncounted ELSE @], tab.cursor, TRUE)

\* streamBar: during a replay a candle is only recorded.
Added(tab, bar) ==
    LET bars == Put(tab.bars, bar)
    IN  IF tab.active THEN [tab EXCEPT !.bars = bars]
        ELSE Windowed([tab EXCEPT !.bars = bars, !.screen = Put(@, bar)])

Received(tab, msg) ==
    CASE msg.type = "init"            -> Reset(tab, msg)
      [] msg.type = "stream"          -> Added(tab, msg.bar)
      [] msg.type = "replay_data"     -> [tab EXCEPT !.src = msg.rows, !.step = msg.step, !.armed = TRUE]
      [] msg.type = "timeframe_error" -> [tab EXCEPT !.pending = FALSE]

-----------------------------------------------------------------------------
(* The chart's own controls, and the page's *)

\* What is asked of the server: only what is coarser than its data needs source rows.
ArmRequest(tab) == IF tab.display # Source /\ ~tab.armed THEN <<[type |-> "replay_arm"]>> ELSE <<>>

\* replayBegin, replayPageArm
Picking(tab) == [tab EXCEPT !.picking = TRUE]

\* replayPick: the candle that was clicked is complete.
Picked(tab, t) ==
    Sought([tab EXCEPT !.picking = FALSE, !.active = TRUE, !.start = t + TfOf(tab)], t + TfOf(tab), TRUE)

Stepped(tab, dir) == Sought(tab, tab.cursor + dir * StepOf(tab), FALSE)
Restarted(tab) == Sought(tab, tab.start, TRUE)

\* replayPageCursor
Driven(tab, t) ==
    IF tab.active THEN Sought([tab EXCEPT !.picking = FALSE], t, FALSE)
    ELSE Sought([tab EXCEPT !.picking = FALSE, !.active = TRUE, !.start = t], t, TRUE)

\* replayExit
Left(tab) ==
    LET out == Windowed([tab EXCEPT !.active = FALSE, !.picking = FALSE, !.cursor = NoTime,
                                    !.k = Uncounted, !.shown = <<>>])
    IN  [out EXCEPT !.screen = out.bars, !.drawn = out.lines]

\* replayInfo
InfoOf(tab) == [first |-> BoundsOf(tab).first, last |-> BoundsOf(tab).last, step |-> StepOf(tab)]

Opened(ch) ==
    Reset([bars |-> <<>>, display |-> Source, length |-> ch.length, limit |-> NoLimit, lines |-> <<>>,
           pending |-> FALSE, screen |-> <<>>, drawn |-> <<>>, src |-> <<>>, step |-> NoStep,
           armed |-> FALSE, active |-> FALSE, picking |-> FALSE, start |-> NoTime, cursor |-> NoTime,
           k |-> Uncounted, shown |-> <<>>], InitOf(ch))

-----------------------------------------------------------------------------
(* What was known at the cursor: the candles that closed, and of the one it stands in  *)
(* the rows before it that the tab was given.  The newest candle may have grown since.  *)
KnownThen(tab) ==
    LET T      == tab.cursor
        closed == SelectSeq(tab.bars, LAMBDA b : b.t + TfOf(tab) <= T)
        given(b) == {r.t : r \in Range(b.rows)} \cap {r.t : r \in Range(tab.src)} \cap 1..T - 1
        inside == {b \in Range(tab.bars) : b.t < T /\ T < b.t + TfOf(tab) /\ given(b) # {}}
    IN  /\ Times(SubSeq(tab.screen, 1, Len(closed))) = Times(closed)
        /\ \A i \in DOMAIN closed : IsPrefix(Times(tab.screen[i].rows), Times(closed[i].rows))
        /\ Len(tab.screen) = Len(closed) + Cardinality(inside)
        /\ \A b \in inside : Last(tab.screen).t = b.t /\ Range(Times(Last(tab.screen).rows)) = given(b)

\* No point of a candle that has not closed.
LinesKnown(tab) ==
    \A n \in DOMAIN tab.drawn : \A p \in Range(tab.drawn[n]) : p.of + tab.length <= tab.cursor
=============================================================================
