----------------------------- MODULE ReplayPage ------------------------------
(***************************************************************************)
(* Charts in a browser: one in its own tab, or several as the frames of a  *)
(* ChartPage (visual/_page.py, visual/static/page.html) whose shell owns   *)
(* the cursor of the replay.  Each chart has a WebSocket to the program    *)
(* (visual/server.py), and each frame a line of messages to the shell and  *)
(* one from it; all three keep their order.                                *)
(*                                                                         *)
(* A program may stream rows into a chart; other changes during a replay   *)
(* (a new indicator, a new window, drawings) are left out, and so are the  *)
(* play button, which is Step on a timer, and a connection that is lost.   *)
(***************************************************************************)
EXTENDS ReplayTab

CONSTANT Setups  \* [charts, page, feed, acts]: the charts, whether they share a page,
                 \* rows to stream into the first, what the user may do

VARIABLES
    setup,
    charts,   \* the Chart objects
    tabs,     \* what the browser has of each
    up, down, \* its WebSocket
    toFrame,  \* the shell's messages to each frame
    toShell,  \* the frames' messages to the shell
    shell,    \* the shell's replay
    feed,     \* rows still to come
    acts,     \* what the user may still do
    refit     \* the charts that changed timeframe since their cursor moved

wires == <<up, down, toFrame, toShell>>
vars == <<setup, charts, tabs, wires, shell, feed, acts, refit>>

Views == DOMAIN charts
NoBound == 0
InShell == [active |-> FALSE, picking |-> FALSE, cursor |-> NoTime, start |-> NoTime,
            step |-> NoStep, first |-> NoBound, last |-> NoBound]
Minute == 1

Send(queues, c, msg) == [queues EXCEPT ![c] = Append(@, msg)]
SendAll(queues, msgs) == [c \in Views |-> queues[c] \o msgs]
Sends(queues, c, msgs) == [queues EXCEPT ![c] = @ \o msgs]

-----------------------------------------------------------------------------
(* The program *)

\* stream(): the next row, or the newest again.
Stream ==
    LET ch == charts[1]
        newest == Last(Last(ch.bars).rows)
    IN  /\ feed > 0
        /\ feed' = feed - 1
        /\ \E row \in {[t |-> newest.t + ch.length, v |-> 1], [newest EXCEPT !.v = @ + 1]} :
              LET out == Streamed(ch, row)
              IN  /\ charts' = [charts EXCEPT ![1] = out.chart]
                  /\ down' = Send(down, 1, StreamOf(out.bar))
        /\ UNCHANGED <<setup, tabs, up, toFrame, toShell, shell, acts, refit>>

\* _handle_browser_message
Serve(c) ==
    /\ up[c] # <<>>
    /\ up' = [up EXCEPT ![c] = Tail(@)]
    /\ LET msg == Head(up[c])
       IN  \/ /\ msg.type = "replay_arm"
              /\ down' = Send(down, c, ReplayDataOf(charts[c]))
              /\ UNCHANGED charts
           \/ /\ msg.type = "set_timeframe"
              /\ msg.tf \in {Source, charts[c].length} \/ Resamples(charts[c])
              /\ charts' = [charts EXCEPT ![c] = Rebuilt(@, msg.tf)]
              /\ down' = Send(down, c, InitOf(Rebuilt(charts[c], msg.tf)))
           \/ /\ msg.type = "set_timeframe"
              /\ msg.tf \notin {Source, charts[c].length}
              /\ Refuses(charts[c])
              /\ down' = Send(down, c, Refusal)
              /\ UNCHANGED charts
    /\ UNCHANGED <<setup, tabs, toFrame, toShell, shell, feed, acts, refit>>

-----------------------------------------------------------------------------
(* A chart's page *)

\* handleMsg
Deliver(c) ==
    /\ down[c] # <<>>
    /\ down' = [down EXCEPT ![c] = Tail(@)]
    /\ tabs' = [tabs EXCEPT ![c] = Received(@, Head(down[c]))]
    /\ refit' = IF Head(down[c]).type = "init" THEN refit \cup {c} ELSE refit
    /\ UNCHANGED <<setup, charts, up, toFrame, toShell, shell, feed, acts>>

\* The user does something to one chart; `msgs` is what the chart asks of the program.
Uses(c, tab, msgs) ==
    /\ acts > 0
    /\ acts' = acts - 1
    /\ tabs' = [tabs EXCEPT ![c] = tab]
    /\ up' = Sends(up, c, msgs)
    /\ UNCHANGED <<setup, charts, down, toFrame, toShell, shell, feed, refit>>

SelectTimeframe(c, tf) ==
    /\ tf \in Offered(charts[c])
    /\ tf # TfOf(tabs[c])
    /\ Uses(c, [tabs[c] EXCEPT !.pending = TRUE],
            <<[type |-> "set_timeframe", tf |-> IF tf = tabs[c].length THEN Source ELSE tf]>>)

Alone == ~setup.page

Begin(c) ==
    /\ Alone
    /\ ~tabs[c].active /\ ~tabs[c].picking
    /\ Uses(c, Picking(tabs[c]), ArmRequest(tabs[c]))

Pick(c, t) ==
    /\ Alone
    /\ tabs[c].picking
    /\ Uses(c, Picked(tabs[c], t), <<>>)

Step(c, dir) ==
    /\ Alone
    /\ tabs[c].active
    /\ Uses(c, Stepped(tabs[c], dir), <<>>)

ToStart(c) ==
    /\ Alone
    /\ tabs[c].active
    /\ Uses(c, Restarted(tabs[c]), <<>>)

Exit(c) ==
    /\ Alone
    /\ tabs[c].active \/ tabs[c].picking
    /\ Uses(c, Left(tabs[c]), <<>>)

-----------------------------------------------------------------------------
(* A frame of a page *)

\* A click on a candle while the frame is picking is only reported.
Click(c, t) ==
    /\ setup.page
    /\ tabs[c].picking
    /\ acts > 0
    /\ acts' = acts - 1
    /\ toShell' = Append(toShell, [type |-> "replay-pick", t |-> t])
    /\ UNCHANGED <<setup, charts, tabs, up, down, toFrame, shell, feed, refit>>

FromShell(c) ==
    /\ toFrame[c] # <<>>
    /\ toFrame' = [toFrame EXCEPT ![c] = Tail(@)]
    /\ LET msg == Head(toFrame[c])
           tab == tabs[c]
       IN  /\ tabs' = [tabs EXCEPT ![c] =
                 CASE msg.type = "replay-arm"    -> Picking(tab)
                   [] msg.type = "replay-cursor" -> Driven(tab, msg.t)
                   [] msg.type = "replay-exit"   -> Left(tab)
                   [] msg.type = "replay-info"   -> tab]
           /\ up' = IF msg.type = "replay-arm" THEN Sends(up, c, ArmRequest(tab)) ELSE up
           /\ toShell' = IF msg.type = "replay-info"
                         THEN Append(toShell, [type |-> "replay-info", of |-> InfoOf(tab)]) ELSE toShell
           /\ refit' = IF msg.type = "replay-info" THEN refit ELSE refit \ {c}
    /\ UNCHANGED <<setup, charts, down, shell, feed, acts>>

-----------------------------------------------------------------------------
(* The shell *)

\* replaySeek: within what every chart has, when that is known.
MovedTo(sh, t) ==
    LET low  == IF sh.first = NoBound THEN t ELSE Max({sh.first, t})
    IN  [sh EXCEPT !.cursor = IF sh.last = NoBound THEN low ELSE Min({sh.last, low})]

CursorOf(sh) == <<[type |-> "replay-cursor", t |-> sh.cursor]>>

Directs(sh, msgs) ==
    /\ setup.page
    /\ acts > 0
    /\ acts' = acts - 1
    /\ shell' = sh
    /\ toFrame' = SendAll(toFrame, msgs)
    /\ UNCHANGED <<setup, charts, tabs, up, down, toShell, feed, refit>>

\* The extents are asked for and forgotten.
PageBegin ==
    /\ ~shell.active /\ ~shell.picking
    /\ Directs([shell EXCEPT !.picking = TRUE, !.step = NoStep, !.first = NoBound, !.last = NoBound],
               <<[type |-> "replay-arm"], [type |-> "replay-info"]>>)

PageStep(dir) ==
    LET moved == MovedTo(shell, shell.cursor + dir * (IF shell.step = NoStep THEN Minute ELSE shell.step))
    IN  shell.active /\ Directs(moved, CursorOf(moved))

PageToStart ==
    LET moved == MovedTo(shell, shell.start) IN shell.active /\ Directs(moved, CursorOf(moved))

PageExit ==
    /\ shell.active \/ shell.picking
    /\ Directs([shell EXCEPT !.active = FALSE, !.picking = FALSE, !.cursor = NoTime],
               <<[type |-> "replay-exit"]>>)

\* noteReplayInfo, replayPickedAt
Noted(sh, of) ==
    [sh EXCEPT !.step  = IF @ = NoStep THEN of.step ELSE Min({@, of.step}),
               !.first = IF @ = NoBound THEN of.first ELSE Max({@, of.first}),
               !.last  = IF @ = NoBound THEN of.last ELSE Min({@, of.last})]

ShellReceives ==
    /\ toShell # <<>>
    /\ toShell' = Tail(toShell)
    /\ LET msg == Head(toShell)
       IN  \/ /\ msg.type = "replay-info"
              /\ shell' = Noted(shell, msg.of)
              /\ UNCHANGED toFrame
           \/ /\ msg.type = "replay-pick"
              /\ ~shell.picking
              /\ UNCHANGED <<shell, toFrame>>
           \/ /\ msg.type = "replay-pick"
              /\ shell.picking
              /\ shell' = MovedTo([shell EXCEPT !.picking = FALSE, !.active = TRUE, !.start = msg.t], msg.t)
              /\ toFrame' = SendAll(toFrame, CursorOf(shell'))
    /\ UNCHANGED <<setup, charts, tabs, up, down, feed, acts, refit>>

-----------------------------------------------------------------------------
Init ==
    /\ setup \in Setups
    /\ charts = setup.charts
    /\ tabs = [c \in Views |-> Opened(charts[c])]
    /\ up = [c \in Views |-> <<>>]
    /\ down = [c \in Views |-> <<>>]
    /\ toFrame = [c \in Views |-> <<>>]
    /\ toShell = <<>>
    /\ shell = InShell
    /\ feed = setup.feed
    /\ acts = setup.acts
    /\ refit = {}

OnChart(c) ==
    \/ Serve(c)
    \/ Deliver(c)
    \/ \E tf \in Lengths : SelectTimeframe(c, tf)
    \/ Begin(c)
    \/ \E b \in Range(tabs[c].screen) : Pick(c, b.t) \/ Click(c, b.t)
    \/ \E dir \in {-1, 1} : Step(c, dir)
    \/ ToStart(c)
    \/ Exit(c)
    \/ FromShell(c)

Next ==
    \/ Stream
    \/ \E c \in Views : OnChart(c)
    \/ PageBegin
    \/ \E dir \in {-1, 1} : PageStep(dir)
    \/ PageToStart
    \/ PageExit
    \/ ShellReceives

Spec == Init /\ [][Next]_vars

-----------------------------------------------------------------------------
Quiet == \A c \in Views : up[c] = <<>> /\ down[c] = <<>> /\ toFrame[c] = <<>>
Settled == Quiet /\ toShell = <<>>

(* Whatever was loaded, streamed, revised and shown at whichever timeframes since, a   *)
(* chart at a longer timeframe shows its source rows, and its lines are those of its   *)
(* candles, or the given points thinned.                                               *)
TimeframesKeepData ==
    \A c \in Views :
        LET ch == charts[c]
            line(n) == setup.charts[c].lines[n]
            given(n) == IF line(n).full = NoPoints THEN line(n).data ELSE line(n).full
        IN  /\ ChartIsData(ch)
            /\ \A n \in DOMAIN ch.lines :
                  IF ch.lines[n].need = Given THEN LineIsThin(ch, ch.lines[n], given(n))
                  ELSE Len(ch.frame) < ch.lines[n].need \/ LineIsExact(ch, ch.lines[n])

(* A replay that moves on, starts or is fitted to another timeframe shows what was     *)
(* known at its cursor and nothing later, on every chart that follows it.  A step back *)
(* that only reaches the open of the forming candle is the exception.                  *)
BackOnOpen(c) ==
    /\ tabs[c].active /\ tabs'[c].cursor < tabs[c].cursor
    /\ \E b \in Range(tabs[c].bars) : b.t = tabs'[c].cursor
Moves(c) == tabs'[c].active /\ <<tabs'[c].cursor, tabs'[c].screen>> # <<tabs[c].cursor, tabs[c].screen>>
MovesShowThePast ==
    \A c \in Views : Moves(c) /\ ~BackOnOpen(c) => KnownThen(tabs'[c]) /\ LinesKnown(tabs'[c])
ReplayForgets == [][MovesShowThePast]_vars

(* Once no message is under way every frame of the page is at the shell's cursor, or as *)
(* near as its own candles reach, and none replays when the shell does not.             *)
PageTogether ==
    (setup.page /\ Settled) =>
        \A c \in Views \ refit :
            LET at == BoundsOf(tabs[c])
            IN  /\ tabs[c].active = shell.active
                /\ shell.active => tabs[c].cursor = Clamped(shell.cursor, at.first, at.last)

(* After a replay every tab shows the candles of its chart.                            *)
LeavingRestores ==
    \A c \in Views :
        (up[c] = <<>> /\ down[c] = <<>> /\ ~tabs[c].active) => tabs[c].screen = charts[c].bars

(* README.md: the chart forgets everything after the candle that was clicked.          *)
NoFuture ==
    \A c \in Views : tabs[c].active =>
        \A b \in Range(tabs[c].screen) : \A r \in Range(b.rows) : r.t + tabs[c].length <= tabs[c].cursor

(* README.md: a page is stepped by the finest source timeframe on it.                  *)
StepIsFinest ==
    (shell.active /\ Settled /\ shell.step # NoStep) => shell.step = Min({charts[c].length : c \in Views})

(* index.html, scaleBars: the candles the price scale currently holds.                 *)
ShownIsScreen == \A c \in Views : tabs[c].active => tabs[c].shown = tabs[c].screen
=============================================================================
