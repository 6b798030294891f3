--------------------------- MODULE CandleScheduler ---------------------------
(***************************************************************************)
(* CandleCloseScheduler.wait_next_close (trader/_scheduler.py), called in  *)
(* a loop by a pair worker's scheduler thread, against a venue that prints *)
(* bars in order but possibly late or never, a candle endpoint that may    *)
(* fail, a caller that may come back late, and a stop event.               *)
(*                                                                         *)
(* Times are venue-clock ticks: a clock offset shifts both sides of every  *)
(* comparison the same way and is left out.  Retry waits are abstracted to *)
(* "some time passes"; the deadline that ends them is kept.                *)
(***************************************************************************)
EXTENDS Integers, FiniteSets, FiniteSetsExt

CONSTANTS
    Tf,            \* candle length in ticks
    TailCount,     \* _tail_count: rows of one tail fetch
    FetchTimeout,  \* _fetch_timeout: retry budget of one boundary, in ticks
    Stall,         \* how long after the deadline the last answer may still arrive
    Prompt,        \* TRUE: every fetch round ends in the grid interval it was fired in
    OutageEnd,     \* fetches fail only before this time
    MaxTime        \* bound: outside a fetch round the venue clock stops here

ASSUME TfAssumption == Tf \in Nat \ {0}
ASSUME TailCountAssumption == TailCount \in Nat \ {0}
ASSUME FetchTimeoutAssumption == FetchTimeout \in Nat \ {0}
ASSUME StallAssumption == Stall \in Nat
ASSUME PromptAssumption == Prompt \in BOOLEAN
ASSUME OutageEndAssumption == OutageEnd \in Nat
ASSUME MaxTimeAssumption == MaxTime \in Nat /\ Tf <= MaxTime   \* the bound leaves room for a candle

NoBar == -1

\* Open times of the bars that can print: multiples of Tf.
Bars == {k * Tf : k \in 0..(MaxTime \div Tf)}
OnGrid(b) == b \in Nat /\ \E k \in 0..b : b = k * Tf

VARIABLES
    now,          \* venue clock
    printed,      \* bars the candle endpoint shows, the forming one included
    stop,         \* the shared stop event
    pc,           \* where wait_next_close stands
    processed,    \* _processed_open_ms: newest handled bar, NoBar before the baseline
    deferUntil,   \* _defer_until_ms
    firedAt,      \* when the current wait ended
    collected,    \* bars gathered by the current fetch round
    earlier,      \* history: every bar returned before the last SchedulerTick
    tick          \* the bars of the last SchedulerTick

venueVars == <<now, printed>>
given == <<earlier, tick>>
roundVars == <<firedAt, collected>>
vars == <<now, printed, stop, pc, processed, deferUntil, firedAt, collected, earlier, tick>>

delivered == earlier \cup tick

PC == {"start", "waiting", "collecting", "judging", "stopped", "failed"}

-----------------------------------------------------------------------------
(* Boundary arithmetic *)

IsFinal(b, t) == t >= b + Tf

NextBoundary(b) == b + 2 * Tf

NewestOpened(b, t) == b + ((t - b) \div Tf) * Tf         \* variant: the forming bar

\* Newest final grid point at time t on the grid anchored at b.
NewestFinal(b, t) == b + ((t - b - Tf) \div Tf) * Tf

\* Smallest grid point strictly after t.
NextGridAfter(b, t) == b + ((t - b) \div Tf + 1) * Tf

Boundary == IF deferUntil > NextBoundary(processed) THEN deferUntil ELSE NextBoundary(processed)
Expected == NewestFinal(processed, firedAt)
Missed   == (Expected - processed) \div Tf
Deadline == firedAt + FetchTimeout

-----------------------------------------------------------------------------
(* The venue's candle endpoint *)

TailRows == {b \in printed : Cardinality({c \in printed : c > b}) < TailCount}

RangeRows == {b \in printed : processed + Tf <= b}

TailOnlyRows == TailRows    \* variant: no ranged gap fetch

Rows == IF Missed >= TailCount THEN RangeRows ELSE TailRows

-----------------------------------------------------------------------------
Init ==
    /\ now \in 0..Tf
    /\ printed \in SUBSET {b \in Bars : b <= now}
    /\ stop = FALSE
    /\ processed \in {NoBar} \cup {b \in printed : IsFinal(b, now)}
    /\ pc = IF processed = NoBar THEN "start" ELSE "waiting"
    /\ deferUntil = 0
    /\ firedAt = 0
    /\ collected = {}
    /\ earlier = {}
    /\ tick = {}

Tick ==
    /\ now < MaxTime \/ pc \in {"collecting", "judging"}
    /\ pc \in {"collecting", "judging"} => now < Deadline + Stall
    /\ now' = now + 1
    /\ UNCHANGED <<printed, stop, pc, processed, deferUntil, roundVars, given>>

\* The venue prints bar b: in order, not before it opens, however late.
PrintBar(b) ==
    /\ b <= now
    /\ \A c \in printed : c < b
    /\ printed' = printed \cup {b}
    /\ UNCHANGED <<now, stop, pc, processed, deferUntil, roundVars, given>>

SetStop ==
    /\ ~stop
    /\ stop' = TRUE
    /\ UNCHANGED <<venueVars, pc, processed, deferUntil, roundVars, given>>

\* Every loop of the scheduler looks at the event and returns None.
ReturnNone ==
    /\ stop
    /\ pc \in {"start", "waiting", "collecting", "judging"}
    /\ pc' = "stopped"
    /\ UNCHANGED <<venueVars, stop, processed, deferUntil, roundVars, given>>

\* First wait without a seed: anchor on the newest final row, or raise ValueError.
InitBaseline ==
    /\ pc = "start"
    /\ LET finals == {b \in TailRows : IsFinal(b, now)}
       IN  IF finals = {}
           THEN pc' = "failed" /\ UNCHANGED processed
           ELSE pc' = "waiting" /\ processed' = Max(finals)
    /\ UNCHANGED <<venueVars, stop, deferUntil, roundVars, given>>

\* _sleep_until returned: the boundary has passed, on time or late.
Fire ==
    /\ pc = "waiting"
    /\ now >= Boundary
    /\ Prompt => (now + FetchTimeout + Stall) \div Tf = now \div Tf
    /\ pc' = "collecting"
    /\ firedAt' = now
    /\ collected' = {}
    /\ UNCHANGED <<venueVars, stop, processed, deferUntil, given>>

\* The end of wait_next_close: move the mark, set the deferral, return the tick.
Settle(bars, mark, defer) ==
    /\ processed' = mark
    /\ deferUntil' = defer
    /\ earlier' = earlier \cup tick
    /\ tick' = bars
    /\ collected' = {}
    /\ pc' = "waiting"

\* Variants of ReturnTick: an incomplete tick that leaves the mark, that does not
\* defer, that steps past the missing bar.
ReturnTickKeepsMark(bars, complete) ==
    LET mark == IF complete THEN Expected ELSE processed
    IN  Settle(bars, mark, IF complete THEN 0 ELSE NextGridAfter(mark, now))
ReturnTickNoDefer(bars, complete) ==
    Settle(bars, IF bars /= {} THEN Max(bars) ELSE IF complete THEN Expected ELSE processed, 0)
ReturnTickSkips(bars, complete) ==
    LET mark == IF bars /= {} THEN Max(bars) ELSE Expected
    IN  Settle(bars, mark, IF complete THEN 0 ELSE NextGridAfter(mark, now))

\* After _collect_closed: the mark follows the newest bar collected, or the
\* expected one when its absence is proven; an incomplete tick defers.
ReturnTick(bars, complete) ==
    LET mark == IF bars /= {} THEN Max(bars)
                ELSE IF complete THEN Expected ELSE processed
    IN  Settle(bars, mark, IF complete THEN 0 ELSE NextGridAfter(mark, now))

\* One pass of _collect_closed's loop: a fetch answers.  The expected bar, or a
\* newer one (so the expected one had no trades), settles the round.
Fetch ==
    /\ pc = "collecting"
    /\ LET bars    == collected \cup {b \in Rows : processed < b /\ b <= Expected}
           settled == Expected \in bars \/ \E b \in Rows : b > Expected
       IN  IF settled
           THEN ReturnTick(bars, TRUE)
           ELSE /\ collected' = bars
                /\ pc' = "judging"
                /\ UNCHANGED <<processed, deferUntil, given>>
    /\ UNCHANGED <<venueVars, stop, firedAt>>

\* One bad fetch must not kill the loop.
FetchFails ==
    /\ pc = "collecting"
    /\ now < OutageEnd
    /\ pc' = "judging"
    /\ UNCHANGED <<venueVars, stop, processed, deferUntil, roundVars, given>>

\* The expected bar is still missing: give up at the deadline, else retry.
Judge ==
    /\ pc = "judging"
    /\ IF now >= Deadline
       THEN ReturnTick(collected, FALSE)
       ELSE pc' = "collecting" /\ UNCHANGED <<processed, deferUntil, collected, given>>
    /\ UNCHANGED <<venueVars, stop, firedAt>>

FetchFailsAtStart ==
    /\ now < OutageEnd
    /\ pc = "start"
    /\ pc' = "failed"
    /\ UNCHANGED <<venueVars, stop, processed, deferUntil, roundVars, given>>

Next ==
    \/ Tick
    \/ \E b \in Bars : PrintBar(b)
    \/ SetStop \/ ReturnNone
    \/ InitBaseline \/ FetchFailsAtStart
    \/ Fire \/ Fetch \/ FetchFails \/ Judge

\* Time passes, and the scheduler thread is scheduled: its sleep ends at the
\* boundary and a fetch that does not raise answers.
Fairness ==
    /\ WF_vars(Tick)
    /\ WF_vars(ReturnNone \/ InitBaseline \/ Fire \/ Fetch \/ Judge)

Spec == Init /\ [][Next]_vars
FairSpec == Spec /\ Fairness

-----------------------------------------------------------------------------
(* Properties *)

TypeOK ==
    /\ now \in Nat
    /\ printed \in SUBSET Bars
    /\ stop \in BOOLEAN
    /\ pc \in PC
    /\ processed = NoBar \/ OnGrid(processed)
    /\ deferUntil \in Nat
    /\ firedAt \in Nat
    /\ collected \in SUBSET Bars
    /\ earlier \in SUBSET Bars
    /\ tick \in SUBSET Bars

\* "Never early (a candle is only final at its close)": a bar the strategy is
\* evaluated on was final when the boundary fired, whatever the retries saw since.
OnlyFinalBars == \A b \in delivered : IsFinal(b, firedAt)

\* A tick never repeats a bar and never goes back behind an earlier one, across
\* retries, give-ups and gap-fills.
OnlyNewerBars == \A a \in earlier, b \in tick : a < b

\* A give-up does not spin: the next fire lies at a grid point in the future.
GiveUpDefers ==
    [][pc = "judging" /\ pc' = "waiting" => Boundary' > now']_vars

\* The scheduler implements the candle stream: while every fetch round ends in the
\* interval it was fired in, each tick hands over every bar that printed behind the
\* new mark, so no late or gap-filled bar is ever stepped over.
Stream == INSTANCE CandleStream WITH horizon <- processed, handed <- delivered
StreamSpec == Stream!Spec

\* "A late bar is recovered by the next tick's gap-fill": a bar printed while enough
\* time is left for one round to give up and the next to fire is handed over.
BarRecovered ==
    \A b \in Bars :
        (/\ pc \notin {"start", "failed"}
         /\ b \in printed /\ processed < b
         /\ now + FetchTimeout + Stall + 3 * Tf <= MaxTime)
        ~> (b \in delivered \/ stop)
=============================================================================
