------------------------------- MODULE Alerts -------------------------------
(***************************************************************************)
(* Price alerts (notify/_alerts.py) on the notifier of Messages: watch()   *)
(* on threads of their own, the price streams that the alerts on a symbol  *)
(* share, the broker's stream threads, cancel().                           *)
(*                                                                         *)
(* One broker, symbol and timeframe, so one stream at a time is shared.    *)
(* A band is in units of the price.  Alerts on a move over a window, the   *)
(* watchdog that only prints, and pictures are left out.                   *)
(***************************************************************************)
EXTENDS Messages

VARIABLES
    price,   \* the market's price
    left,    \* candles the broker still streams
    alert,   \* each alert
    streams, \* every _PriceStream made, in order
    shared,  \* the one in _streams, 0: none
    fails,   \* openings that still fail
    heard,   \* history: each alert's prices, from the one it started at
    firings  \* history: the places in heard where each alert's sides fired

alertVars == <<price, left, alert, streams, shared, fails, heard, firings>>
allVars == <<msgVars, alertVars>>

Alerts == DOMAIN setup.watches
Side == {"above", "below"}
Prices == 1..3
Sides(a) == {side \in Side : setup.watches[a][side] /= 0}

\* _Edge
Past(a, side, at) ==
    LET level == setup.watches[a][side]
    IN  IF side = "above" THEN at >= level ELSE at <= level
Back(a, side, at) ==
    LET w == setup.watches[a]
    IN  IF side = "above" THEN IF w.rearm > 0 THEN at <= w.above - w.rearm ELSE at < w.above
        ELSE IF w.rearm > 0 THEN at >= w.below + w.rearm ELSE at > w.below

-----------------------------------------------------------------------------
(* watch, on a thread of the program *)

Edges(a) == [side \in Sides(a) |-> [beyond |-> Past(a, side, price), armed |-> TRUE]]

Unasked == [at |-> "idle", state |-> "none", edges |-> <<>>, joined |-> 0, stream |-> 0, ending |-> 0]
NewStream == [alerts |-> <<>>, up |-> "opening", handle |-> FALSE, stopped |-> FALSE, todo |-> <<>>]
Others(b, alerts) == SelectSeq(alerts, LAMBDA other : other /= b)

\* The price is asked for; the alert is armed before it hears anything.
Watch(a) ==
    /\ alert[a].at = "idle"
    /\ alert' = [alert EXCEPT ![a] = [@ EXCEPT !.at = "asked", !.state = "armed", !.edges = Edges(a)]]
    /\ heard' = [heard EXCEPT ![a] = <<price>>]
    /\ UNCHANGED <<price, left, streams, shared, fails, firings>>

\* _subscribe, under _streams_lock
Join(a) ==
    /\ alert[a].at = "asked"
    /\ LET fresh == shared = 0
           all == IF fresh THEN Append(streams, NewStream) ELSE streams
           s == IF fresh THEN Len(all) ELSE shared
       IN  /\ streams' = [all EXCEPT ![s].alerts = Append(@, a)]
           /\ shared' = s
           /\ alert' = [alert EXCEPT ![a] = [@ EXCEPT !.at = IF fresh THEN "opening" ELSE "joined",
                                                      !.joined = s]]
    /\ UNCHANGED <<price, left, fails, heard, firings>>

Open(a) ==
    /\ alert[a].at = "opening"
    /\ streams' = [streams EXCEPT ![alert[a].joined].up = "up"]
    /\ alert' = [alert EXCEPT ![a].at = "opened"]
    /\ UNCHANGED <<price, left, shared, fails, heard, firings>>

OpenFails(a) ==
    LET s == alert[a].joined IN
    /\ alert[a].at = "opening" /\ fails > 0
    /\ fails' = fails - 1
    /\ streams' = [streams EXCEPT ![s].alerts = Others(a, @), ![s].up = "failed", ![s].stopped = TRUE]
    /\ shared' = IF shared = s THEN 0 ELSE shared
    /\ alert' = [alert EXCEPT ![a].at = "raised", ![a].state = "cancelled"]
    /\ UNCHANGED <<price, left, heard, firings>>

\* The handle is kept, and stopped at once when the alerts ended while it opened.
Opened(a) ==
    LET s == alert[a].joined IN
    /\ alert[a].at = "opened"
    /\ streams' = [streams EXCEPT ![s].handle = TRUE,
                                  ![s].up = IF streams[s].stopped THEN "stopping" ELSE @]
    /\ alert' = [alert EXCEPT ![a].at = "joined"]
    /\ UNCHANGED <<price, left, shared, fails, heard, firings>>

\* unsubscribe: the last alert to leave stops the stream, from a thread of its own.
Unsubscribe(a, s) ==
    LET rest == Others(a, streams[s].alerts)
        last == rest = <<>> /\ ~streams[s].stopped
    IN  /\ streams' = [streams EXCEPT ![s].alerts = rest, ![s].stopped = @ \/ last,
                                      ![s].up = IF last /\ streams[s].handle THEN "stopping" ELSE @]
        /\ shared' = IF last /\ shared = s THEN 0 ELSE shared

Keep(a) ==
    /\ alert[a].at = "joined"
    /\ alert' = [alert EXCEPT ![a].at = "kept", ![a].stream = alert[a].joined]
    /\ UNCHANGED <<price, left, streams, shared, fails, heard, firings>>

\* Variant: an alert that ended before its stream was kept stays on it.
ReturnAnyhow(a) ==
    /\ alert[a].at = "kept"
    /\ alert' = [alert EXCEPT ![a].at = "done"]
    /\ UNCHANGED <<price, left, streams, shared, fails, heard, firings>>

\* A candle that came while the stream opened may have ended the alert.
Return(a) ==
    /\ alert[a].at = "kept"
    /\ alert' = [alert EXCEPT ![a].at = "done"]
    /\ IF alert[a].state = "armed" THEN UNCHANGED <<streams, shared>>
       ELSE Unsubscribe(a, alert[a].joined)
    /\ UNCHANGED <<price, left, fails, heard, firings>>

-----------------------------------------------------------------------------
(* The broker's streams, and what ends an alert *)

Running(s) == streams[s].up \in {"up", "stopping"}
Between(s) == \A a \in Alerts : alert[a].ending /= s
ByUser == -1

\* _PriceStream._on_candle: to the alerts it has now, one after the other.
Candle(s) ==
    /\ Running(s) /\ streams[s].todo = <<>> /\ Between(s) /\ left > 0
    /\ left' = left - 1
    /\ price' \in Prices
    /\ streams' = [streams EXCEPT ![s].todo = streams[s].alerts]
    /\ UNCHANGED <<alert, shared, fails, heard, firings>>

\* Unheard of while nothing is streamed.
Move ==
    /\ left > 0 /\ \A s \in DOMAIN streams : ~Running(s)
    /\ left' = left - 1
    /\ price' \in Prices \ {price}
    /\ UNCHANGED <<alert, streams, shared, fails, heard, firings>>

\* _check
Rearmed(a, side) == alert[a].edges[side].armed \/ Back(a, side, price)
Crossed(a) ==
    {side \in Sides(a) : Rearmed(a, side) /\ Past(a, side, price) /\ ~alert[a].edges[side].beyond}
Checked(a) ==
    [side \in Sides(a) |-> [beyond |-> Past(a, side, price),
                            armed |-> Rearmed(a, side) /\ side \notin Crossed(a)]]

\* Alert._on_candle
Hear(s) ==
    /\ Running(s) /\ streams[s].todo /= <<>> /\ Between(s)
    /\ LET a == Head(streams[s].todo)
           fires == alert[a].state = "armed" /\ Crossed(a) /= {}
           ends == fires /\ ~setup.watches[a].repeat
       IN  /\ alert' = [alert EXCEPT ![a] = [@ EXCEPT
                            !.edges = IF alert[a].state = "armed" THEN Checked(a) ELSE @,
                            !.state = IF ends THEN "fired" ELSE @,
                            !.ending = IF ends THEN s ELSE @]]
           /\ heard' = IF alert[a].state = "armed" THEN [heard EXCEPT ![a] = Append(@, price)] ELSE heard
           /\ firings' = IF fires THEN [firings EXCEPT ![a] = @ \cup {<<Len(heard[a]) + 1, side>> : side \in Crossed(a)}]
                         ELSE firings
           /\ IF fires THEN PostOne(Event("alert", 0, a)) ELSE UNCHANGED <<inbox, posted>>
    /\ streams' = [streams EXCEPT ![s].todo = Tail(@)]
    /\ UNCHANGED <<price, left, shared, fails>>

Cancel(a) ==
    /\ alert[a].at = "done" /\ alert[a].state = "armed"
    /\ alert' = [alert EXCEPT ![a].state = "cancelled", ![a].ending = ByUser]
    /\ UNCHANGED <<price, left, streams, shared, fails, heard, firings>>

\* _end
End(a) ==
    /\ alert[a].ending /= 0
    /\ alert' = [alert EXCEPT ![a].ending = 0, ![a].stream = 0]
    /\ IF alert[a].stream = 0 THEN UNCHANGED <<streams, shared>>
       ELSE Unsubscribe(a, alert[a].stream)
    /\ UNCHANGED <<price, left, fails, heard, firings>>

\* The handle's stop joins the stream's thread.
StreamEnds(s) ==
    /\ streams[s].up = "stopping" /\ streams[s].todo = <<>> /\ Between(s)
    /\ streams' = [streams EXCEPT ![s].up = "down"]
    /\ UNCHANGED <<price, left, alert, shared, fails, heard, firings>>

AlertInit ==
    /\ price \in (IF Alerts = {} THEN {1} ELSE Prices) /\ left = setup.prices /\ fails = setup.opens
    /\ alert = [a \in Alerts |-> Unasked] /\ streams = <<>> /\ shared = 0
    /\ heard = [a \in Alerts |-> <<>>] /\ firings = [a \in Alerts |-> {}]

AlertStep ==
    \/ Move
    \/ \E a \in Alerts : Watch(a) \/ Join(a) \/ Open(a) \/ OpenFails(a) \/ Opened(a) \/ Keep(a)
                         \/ Return(a) \/ Cancel(a) \/ End(a)
    \/ \E s \in DOMAIN streams : Candle(s) \/ StreamEnds(s)

Init == MsgInit /\ AlertInit
Next ==
    \/ MsgNext /\ UNCHANGED alertVars
    \/ AlertStep /\ UNCHANGED msgVars
    \/ (\E s \in DOMAIN streams : Hear(s)) /\ UNCHANGED <<setup, day, trading, due, adapter, out>>
Spec == Init /\ [][Next]_allVars

-----------------------------------------------------------------------------
(* Properties *)

CrossesAt(a, side, i) ==
    i > 1 /\ Past(a, side, heard[a][i]) /\ ~Past(a, side, heard[a][i - 1])
\* It has gone back by the band since an earlier firing.
FreshAt(a, side, i) ==
    \A f \in 1..(i - 1) : <<f, side>> \in firings[a] =>
        \E j \in (f + 1)..(i - 1) : Back(a, side, heard[a][j])
FiresRight(a) ==
    \A i \in DOMAIN heard[a], side \in Sides(a) :
        <<i, side>> \in firings[a] <=> CrossesAt(a, side, i) /\ FreshAt(a, side, i)

\* The one that opens a stream may fail; what joined it meanwhile is not told.
Listened(a) ==
    alert[a].at = "done" /\ alert[a].state = "armed" =>
        LET s == streams[alert[a].stream]
        IN  (a \in Range(s.alerts) /\ ~s.stopped /\ s.up \in {"opening", "up"}) \/ s.up = "failed"
NoneForgotten(s) ==
    s.stopped \/ \E a \in Range(s.alerts) :
        alert[a].state = "armed" \/ alert[a].ending /= 0 \/ alert[a].at /= "done"

\* "the alert fires when it crosses again": on every crossing of a level that it hears and
\* on nothing else, again only after the price went back by the band, once if it does not
\* repeat; an armed alert is on a stream that runs, and one that no alert needs is stopped.
AlertsFire ==
    /\ \A a \in Alerts :
        /\ FiresRight(a) /\ Listened(a)
        /\ setup.watches[a].repeat \/ Cardinality(firings[a]) <= 1
        /\ Cardinality({i \in DOMAIN posted : posted[i].kind = "alert" /\ posted[i].n = a})
              = Cardinality(firings[a])
    /\ \A s \in DOMAIN streams : NoneForgotten(streams[s])
=============================================================================
