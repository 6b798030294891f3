----------------------------- MODULE Collector ------------------------------
(***************************************************************************)
(* The candle files of the data package: Collector.collect                 *)
(* (data/collector.py) on a CSVHandler (data/storage/csv_handler.py), run  *)
(* again and again over one range of one venue.                            *)
(*                                                                         *)
(* A candle is its place on the timeframe's grid; `now` is the one that    *)
(* is forming.  Calendar months, whose grid is uneven, are left out, and   *)
(* so are the values of a row but for whether they are the candle's final  *)
(* ones, those it had while it formed ("part"), or cut off by a crash.     *)
(***************************************************************************)
EXTENDS Integers, Sequences, FiniteSets, FiniteSetsExt, SequencesExt, Functions

CONSTANT Setups   \* the scenarios to explore

Fault == {"fetch", "crash"}
Setup == [listed : SUBSET Nat,       \* the candles the venue ever has
          from   : Nat,              \* starttime
          to     : Nat,              \* endtime, when it comes before the present
          batch  : Nat \ {0},        \* BATCH, the venue's limit of rows per request
          start  : Nat,              \* the present at the first collect
          last   : Nat,              \* bound: the last candle
          faults : [Fault -> Nat]]   \* bounds: requests that fail, crashes

VARIABLES
    setup,  \* the scenario, fixed at the start
    now,    \* the forming candle
    file,   \* candle -> what its row holds
    gaps,   \* the ranges a running collect() has yet to fetch, the first from its cursor on
    rows,   \* the rows it fetched
    busy,   \* collect() is running
    budget  \* faults still to come

vars == <<setup, now, file, gaps, rows, busy, budget>>

Cut == -1   \* the timestamp of a row that was cut off inside its timestamp
Lower(a, b) == IF a <= b THEN a ELSE b
End == Lower(setup.to, now)

-----------------------------------------------------------------------------
(* find_gaps *)

\* Variant: the end of the range is left out.
MissingBeforeEnd == (setup.from..(End - 1)) \ DOMAIN file

Missing == (setup.from..End) \ DOMAIN file

\* _group_into_ranges: the maximal runs of what is missing, in order.
FirstOf == {c \in Missing : c - 1 \notin Missing}
RunFrom(c) == <<c, Max({d \in Missing : c..d \subseteq Missing})>>
FindGaps == [k \in 1..Cardinality(FirstOf) |-> RunFrom(SetToSortSeq(FirstOf, <)[k])]

-----------------------------------------------------------------------------
(* collect *)

\* load, find_gaps; without a file the whole range is one gap.
Begin ==
    /\ ~busy /\ setup.from < End
    /\ busy' = TRUE
    /\ gaps' = IF DOMAIN file = {} THEN <<<<setup.from, End>>>> ELSE FindGaps
    /\ rows' = << >>
    /\ UNCHANGED <<setup, now, file, budget>>

Row(c) == IF c = now THEN "part" ELSE "final"
Answer(a, b) == {c \in a..b : c \in setup.listed /\ c <= now}

\* One request of _fetch_with_progress: fewer rows than it may have end the gap, else the
\* cursor moves behind the last of them.
FetchBatch ==
    /\ busy /\ gaps /= <<>>
    /\ LET cursor == gaps[1][1]
           end == gaps[1][2]
           chunk == Answer(cursor, Lower(cursor + setup.batch - 1, end))
           done == Cardinality(chunk) < setup.batch \/ Max(chunk) + 1 > end
       IN  /\ rows' = [c \in chunk |-> Row(c)] @@ rows
           /\ gaps' = IF done THEN Tail(gaps) ELSE <<<<Max(chunk) + 1, end>>>> \o Tail(gaps)
    /\ UNCHANGED <<setup, now, file, busy, budget>>

\* A request that raises ends collect(): what it fetched is not saved.
FetchFails ==
    /\ busy /\ gaps /= <<>> /\ budget.fetch > 0
    /\ budget' = [budget EXCEPT !.fetch = @ - 1]
    /\ gaps' = <<>> /\ rows' = << >> /\ busy' = FALSE
    /\ UNCHANGED <<setup, now, file>>

\* merge_and_save: of two rows with one timestamp the file's own is kept.
Merged == file @@ rows

Save ==
    /\ busy /\ gaps = <<>>
    /\ file' = Merged
    /\ rows' = << >> /\ busy' = FALSE
    /\ UNCHANGED <<setup, now, gaps, budget>>

\* The program dies while the file is written over: some first rows of it remain, and
\* maybe a piece of the next one.
CrashInSave ==
    /\ busy /\ gaps = <<>> /\ rows /= << >> /\ budget.crash > 0
    /\ budget' = [budget EXCEPT !.crash = @ - 1]
    /\ \E c \in DOMAIN Merged :
          LET kept == Restrict(Merged, {d \in DOMAIN Merged : d < c})
          IN  file' \in {kept, kept @@ (c :> "cut"), kept @@ (Cut :> "cut")}
    /\ rows' = << >> /\ busy' = FALSE
    /\ UNCHANGED <<setup, now, gaps>>

Tick ==
    /\ now < setup.last
    /\ now' = now + 1
    /\ UNCHANGED <<setup, file, gaps, rows, busy, budget>>

Init ==
    /\ setup \in Setups /\ budget = setup.faults
    /\ now = setup.start
    /\ file = << >> /\ gaps = <<>> /\ rows = << >> /\ busy = FALSE

Collect == Begin \/ FetchBatch \/ Save

Next == Collect \/ FetchFails \/ CrashInSave \/ Tick

\* A running collect() goes on, and the user runs it again.
Spec == Init /\ [][Next]_vars /\ WF_vars(Collect)

-----------------------------------------------------------------------------
(* Properties *)

\* The candle comes after a hole of the venue as long as a request.
BehindHole(c) ==
    \E a \in setup.from..(c - setup.batch) : (a..(a + setup.batch - 1)) \cap setup.listed = {}

\* "Fetch each missing range from the exchange": collecting again and again, over failing
\* requests and a torn file, brings every candle the venue has, from the listing on and
\* through its holes.  Behind a hole as long as a request nothing is ever asked for.
Complete == ~busy /\ \A c \in (setup.from..End) \cap setup.listed : BehindHole(c) \/ c \in DOMAIN file
Collected == []<>Complete
=============================================================================
