---------------------------- MODULE CandleStream ----------------------------
(***************************************************************************)
(* What the candle-close scheduler promises to the worker that calls it,   *)
(* without boundaries, fetches, retries or give-ups: the bars a venue      *)
(* prints are handed over once, in order, only when final, and a bar the   *)
(* worker is told to step past is a bar the venue never printed.           *)
(*                                                                         *)
(* A bar is named by its open time; bars lie on the grid 0, Tf, 2Tf, ...   *)
(***************************************************************************)
EXTENDS Integers

CONSTANTS Tf,        \* length of a candle, in clock ticks
          MaxTime    \* bound: no bar opens later

NoBar == -1          \* Python's None for a bar's open time

Bars == {k * Tf : k \in 0..(MaxTime \div Tf)}

VARIABLES now,       \* the venue clock
          printed,   \* bars the venue's candle endpoint shows by now
          horizon,   \* every bar up to here is settled: handed over or never printed
          handed     \* bars given to the worker

vars == <<now, printed, horizon, handed>>

Init ==
    /\ now \in 0..MaxTime
    /\ printed \in SUBSET {b \in Bars : b <= now}
    /\ horizon \in {NoBar} \cup {b \in printed : b + Tf <= now}
    /\ handed = {}

Tick == now' = now + 1 /\ UNCHANGED <<printed, horizon, handed>>

\* Venues print bars in order: once a newer bar shows, an older one never will.
PrintBar(b) ==
    /\ b <= now
    /\ \A c \in printed : c < b
    /\ printed' = printed \cup {b}
    /\ UNCHANGED <<now, horizon, handed>>

\* The stream starts behind a final bar; history is never handed over.
Anchor(b) ==
    /\ horizon = NoBar
    /\ b \in printed /\ b + Tf <= now
    /\ horizon' = b
    /\ UNCHANGED <<now, printed, handed>>

\* Settle everything up to a final grid point h: whatever printed there is handed over.
HandOver(h) ==
    /\ horizon /= NoBar
    /\ horizon < h /\ h + Tf <= now
    /\ horizon' = h
    /\ handed' = handed \cup {b \in printed : horizon < b /\ b <= h}
    /\ UNCHANGED <<now, printed>>

Next ==
    \/ Tick
    \/ \E b \in Bars : PrintBar(b) \/ Anchor(b) \/ HandOver(b)

Spec == Init /\ [][Next]_vars
=============================================================================
