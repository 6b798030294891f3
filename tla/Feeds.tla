-------------------------------- MODULE Feeds --------------------------------
(***************************************************************************)
(* The feeds a connector hands out (broker/_stream.py): candles polled     *)
(* from a MetaTrader terminal (metatrader/_client.py), and candles or      *)
(* account events pushed over a Binance socket, with the listen key that   *)
(* keeps the account's socket alive (exchange/binance/_ws.py).             *)
(*                                                                         *)
(* One subscription.  A row is one emission of candle n: forming, in one   *)
(* of two versions, or closed, which it is when candle n + 1 opens.  An    *)
(* account event is a row that is always closed.  Waits between tries are  *)
(* left out: a wait ends.  No callback outlasts stop()'s join (5 s).       *)
(***************************************************************************)
EXTENDS Integers, Sequences, SequencesExt, FiniteSets

CONSTANT Setups   \* the scenarios to explore: the transport, and bounds

Setup == [kind       : {"poll", "candles", "account"},
          closedOnly : BOOLEAN,     \* closed_only, or an account's events
          tail       : Nat \ {0},   \* _CANDLE_TAIL_COUNT
          life       : Nat,         \* keepalives a listen key outlives
          items      : Nat,         \* bound: candles or events
          faults     : [{"raise", "drop", "refuse", "keepalive", "stop"} -> Nat]]

VARIABLES
    setup,    \* the scenario, fixed at the start
    newest,   \* the candle that is forming, or the event next to happen
    version,  \* of that candle
    link,     \* the socket: "down" or "up"; the poller is always "up"
    unheard,  \* rows sent on this connection and not yet received
    inHand,   \* rows the thread took in this turn and has yet to emit
    state,    \* _make_candle_poller's: the last closed candle emitted, and the forming row
    key,      \* keepalives the listen key still outlives, 0 when it is dead
    stopped,  \* _stop_event
    budget,   \* what the bounds leave
    given,    \* history: the rows the callback was called with
    start,    \* history: the candle that was forming when the subscription took hold
    silent    \* history: candles that closed while nothing could hear of them
vars == <<setup, newest, version, link, unheard, inHand, state, key, stopped, budget, given, start,
          silent>>

None == -1
Polls == setup.kind = "poll"
Spend(what) == budget[what] > 0 /\ budget' = [budget EXCEPT ![what] = @ - 1]
Row(n, v) == [n |-> n, version |-> v]
Closed(n) == Row(n, "closed")
Forming(n, v) == Row(n, IF v = 0 THEN "early" ELSE "late")
IsClosed(row) == row.version = "closed"
ClosedIn(rows) == {r.n : r \in {q \in ToSet(rows) : IsClosed(q)}}

-----------------------------------------------------------------------------
(* The venue *)

\* An open socket is told; what a closed one misses is never sent.
Tell(row) ==
    /\ unheard' = (IF ~Polls /\ link = "up" THEN Append(unheard, row) ELSE unheard)
    /\ silent' = (IF ~Polls /\ link # "up" /\ IsClosed(row) THEN silent \cup {row.n} ELSE silent)

\* A candle closes and the next opens, or an event happens.
Happen == /\ newest < setup.items
          /\ newest' = newest + 1 /\ version' = 0
          /\ Tell(Closed(newest))
          /\ UNCHANGED <<setup, link, inHand, state, key, stopped, budget, given, start>>

\* The forming candle changes.
Revise == /\ setup.kind # "account" /\ version = 0 /\ version' = 1
          /\ Tell(Forming(newest, 1))
          /\ UNCHANGED <<setup, newest, link, inHand, state, key, stopped, budget, given, start>>

\* The socket goes down: what was on its way is lost.
Cut == /\ link' = "down" /\ unheard' = <<>>
       /\ silent' = silent \cup ClosedIn(unheard)

-----------------------------------------------------------------------------
(* start_ws_stream *)

Open == /\ setup.kind = "account" => key > 0
        /\ link' = "up" /\ start' = IF start = None THEN newest ELSE start
        /\ UNCHANGED budget
Refused == \/ Spend("refuse")
           \/ setup.kind = "account" /\ key = 0 /\ UNCHANGED budget   \* a dead key, for ever

\* Variant: a connection that is refused ends the thread.
ConnectOnce ==
    /\ ~Polls /\ link = "down" /\ inHand = <<>> /\ ~stopped
    /\ Open \/ (Refused /\ link' = "over" /\ UNCHANGED start)
    /\ UNCHANGED <<setup, newest, version, unheard, inHand, state, key, stopped, given, silent>>

\* A refused connection is tried again.
Connect ==
    /\ ~Polls /\ link = "down" /\ inHand = <<>> /\ ~stopped
    /\ Open \/ (Refused /\ UNCHANGED <<link, start>>)
    /\ UNCHANGED <<setup, newest, version, unheard, inHand, state, key, stopped, given, silent>>

\* One message; stream_candles drops a forming row unless it is asked for.
Receive ==
    /\ ~Polls /\ link = "up" /\ unheard # <<>> /\ inHand = <<>> /\ ~stopped
    /\ LET row == Head(unheard)
       IN  inHand' = IF setup.closedOnly /\ ~IsClosed(row) THEN <<>> ELSE <<row>>
    /\ unheard' = Tail(unheard)
    /\ UNCHANGED <<setup, newest, version, link, state, key, stopped, budget, given, start, silent>>

Drop == /\ ~Polls /\ link = "up" /\ inHand = <<>> /\ Spend("drop") /\ Cut
        /\ UNCHANGED <<setup, newest, version, inHand, state, key, stopped, given, start>>

-----------------------------------------------------------------------------
(* start_poll_stream with _make_candle_poller *)

\* Variant: the baseline of the first poll is the forming candle itself.
BaselineAtNewest == IF state.closed = None THEN newest ELSE state.closed

\* What was closed when the subscription starts never fires.
Baseline == IF state.closed = None THEN newest - 1 ELSE state.closed

\* The tail's rows that are to be emitted: the closed ones after the last, in order, then
\* the forming one if it changed.
InTail(n) == newest - setup.tail < n
News == LET first == IF InTail(Baseline + 1) THEN Baseline + 1 ELSE newest - setup.tail + 1
            forming == Forming(newest, version)
        IN  [i \in 1..(newest - first) |-> Closed(first + i - 1)]
            \o (IF setup.closedOnly \/ forming = state.forming THEN <<>> ELSE <<forming>>)

Poll ==
    /\ Polls /\ inHand = <<>> /\ ~stopped
    /\ News # <<>> \/ state.closed = None     \* any other poll changes nothing
    /\ inHand' = News
    /\ state' = [state EXCEPT !.closed = Baseline]
    /\ start' = IF start = None THEN newest ELSE start
    /\ silent' = silent \cup {n \in (Baseline + 1)..(newest - 1) : ~InTail(n)}
    /\ UNCHANGED <<setup, newest, version, link, unheard, key, stopped, budget, given>>

-----------------------------------------------------------------------------
(* What both do with a row, and the end *)

Remembered(row) == IF IsClosed(row) THEN [state EXCEPT !.closed = row.n] ELSE [state EXCEPT !.forming = row]

\* The callback is called; when it raises the rest of the poll is left to the next one.
Emit ==
    /\ inHand # <<>>
    /\ given' = Append(given, Head(inHand))
    /\ state' = IF Polls THEN Remembered(Head(inHand)) ELSE state
    /\ \/ inHand' = Tail(inHand) /\ UNCHANGED budget
       \/ Spend("raise") /\ inHand' = <<>>
    /\ UNCHANGED <<setup, newest, version, link, unheard, key, stopped, start, silent>>

\* Stream.stop, UserDataStream.stop: no turn begins after it; the key is deleted.
Stop == /\ ~stopped /\ Spend("stop") /\ stopped' = TRUE
        /\ IF Polls THEN UNCHANGED <<link, unheard, silent>> ELSE Cut
        /\ key' = 0
        /\ UNCHANGED <<setup, newest, version, inHand, state, given, start>>

-----------------------------------------------------------------------------
(* UserDataStream._keepalive_loop *)

\* PUT with the key it was started with; an error is swallowed.  The venue closes the
\* socket of a key that dies, and no other key is ever asked for.
Keepalive ==
    /\ setup.kind = "account" /\ key > 0 /\ ~stopped
    /\ \/ key < setup.life /\ key' = setup.life /\ UNCHANGED budget
       \/ Spend("keepalive") /\ key' = key - 1
    /\ IF key' = 0 /\ link = "up" THEN inHand = <<>> /\ Cut ELSE UNCHANGED <<link, unheard, silent>>
    /\ UNCHANGED <<setup, newest, version, inHand, state, stopped, given, start>>

-----------------------------------------------------------------------------
Init == /\ setup \in Setups
        /\ newest = 1 /\ version = 0
        /\ link = IF Polls THEN "up" ELSE "down"
        /\ unheard = <<>> /\ inHand = <<>>
        /\ state = [closed |-> None, forming |-> Row(None, "early")]
        /\ key = IF setup.kind = "account" THEN setup.life ELSE 0
        /\ stopped = FALSE /\ budget = setup.faults
        /\ given = <<>> /\ start = None /\ silent = {}

Work == Connect \/ Receive \/ Poll \/ Emit
Next == Happen \/ Revise \/ Drop \/ Work \/ Stop \/ Keepalive

\* Each daemon thread keeps turning its loop; nothing else need happen.
Spec == Init /\ [][Next]_vars /\ WF_vars(Work)

-----------------------------------------------------------------------------
(* Properties *)

Before(a, b) == a.n < b.n \/ (a.n = b.n /\ ~IsClosed(a))

\* stream_candles: closed candles fire exactly once, in order, and nothing is said of a candle
\* after its close or of an earlier one; no candle that closed since the subscription is
\* passed over, except those that closed where the feed could not hear of them (the socket
\* was down, or a poll came more than a tail later).
OnceInOrder ==
    /\ \A i, j \in DOMAIN given : i < j => Before(given[i], given[j])
    /\ LET told == ClosedIn(given)
       IN  \A n \in told : (start..n) \subseteq told \cup silent

\* However often it is refused or broken, a feed is up again and again with every candle that
\* closed after the subscription given to the callback, unless it was out of hearing, or the
\* feed was stopped or lost its key: no refusal, break or raising callback ends a feed
\* (_stream.py: "never kill the feed").
Ended == stopped \/ (setup.kind = "account" /\ key = 0)
Due(n) == start # None /\ start <= n /\ n < newest
UpToDate == link = "up" /\ \A n \in 1..newest : Due(n) => n \in ClosedIn(given) \cup silent
FeedLives == []<>(Ended \/ UpToDate)
=============================================================================
