--------------------------- MODULE TraderSession ----------------------------
(***************************************************************************)
(* The life of a live session: Trader.run, its stops and what is left when *)
(* it returns (trader/_trader.py), with the journal file every pair writes *)
(* (TraderStateJournal, trader/_state.py).                                 *)
(*                                                                         *)
(* One pair is traded on the main thread; several pairs each on a consumer *)
(* thread of their own, which main joins.  A thread's work is a list of    *)
(* tasks, each one call or assignment another thread can come between.     *)
(* What an item decides is PairWorker's; here it enters, exits or neither. *)
(***************************************************************************)
EXTENDS Integers, Sequences, FiniteSets, SequencesExt, FiniteSetsExt

CONSTANT Setups \* the scenarios to explore

Fault == {"refuse", "disk", "start", "signal", "kill", "crash", "poll", "halt"}
Setup == [pairs    : Nat \ {0},
          closeAll : BOOLEAN,       \* on_stop = "close_all"
          trades   : Nat,           \* bound: positions ever opened
          sessions : Nat,           \* bound: calls of Trader.run
          messages : Nat,           \* bound: chat commands (Commands)
          clock    : Nat,           \* bound: the time (Commands)
          writes   : SUBSET (STRING \X STRING),  \* who may write what (Commands)
          faults   : [Fault -> Nat]]

ASSUME SetupsAssumption == Setups \subseteq Setup

VARIABLES
    setup,    \* the scenario, fixed at the start
    session,  \* sessions begun so far
    where,    \* of main: "off", "seeding", "starting", "running", "stopping", "returned"
    at,       \* the pair that main starts or shuts down
    jobs,     \* what each thread has left to do of its item or shutdown
    ended,    \* the pairs whose run_loop has returned
    halted,   \* the pairs whose stop_event is set
    reason,   \* _stop_reason
    how,      \* main came to its shutdown: "joined", "aborted" (a failed start), "interrupted"
    held,     \* the venue: each pair's open positions
    tracked,  \* each pair's engine._trades
    data,     \* the journal in memory
    written,  \* _written: the text last written
    file,     \* the journal file
    said,     \* the STOP events of the session: each pair's reason and positions left
    asked,    \* the stops asked for in this session, in order
    started,  \* the pairs whose worker has started, or failed to
    foreign,  \* positions that the session met and its journal did not know
    nextId,   \* the next position's number
    budget    \* faults still to come

traderVars == <<setup, session, where, at, jobs, ended, halted, reason, how, held, tracked,
                data, written, file, said, asked, started, foreign, nextId, budget>>

Pairs == 1..setup.pairs
Main == 0
Threads == Pairs \cup {Main}
None == "none"
Empty == [p \in Pairs |-> {}]
\* run_loop of pair p: the main thread's, or a consumer's.
Consumer(p) == IF setup.pairs = 1 THEN Main ELSE p

Task(op, p, arg) == [op |-> op, p |-> p, arg |-> arg]
Doing(a, op) == jobs[a] /= <<>> /\ Head(jobs[a]).op = op
It(a) == Head(jobs[a]).p
Arg(a) == Head(jobs[a]).arg
Then(a, more) == jobs' = [jobs EXCEPT ![a] = more \o Tail(@)]

Spend(what) == budget[what] > 0 /\ budget' = [budget EXCEPT ![what] = @ - 1]
Spent(what) == setup.faults[what] - budget[what]

-----------------------------------------------------------------------------
(* What a thread does: entries, closes, the journal *)

InThread == UNCHANGED <<setup, session, where, at, ended, halted, reason, how, said, asked,
                        started, foreign>>

\* _venue.open: the position exists before open_position tracks it.
Open(a) ==
    /\ Doing(a, "open")
    /\ nextId' = nextId + 1
    /\ \/ /\ held' = [held EXCEPT ![It(a)] = @ \cup {nextId}]
          /\ Then(a, <<Task("track", It(a), nextId)>>)
          /\ UNCHANGED budget
       \/ Spend("refuse") /\ Then(a, <<>>) /\ UNCHANGED held
    /\ InThread /\ UNCHANGED <<tracked, data, written, file>>

Track(a) ==
    /\ Doing(a, "track")
    /\ tracked' = [tracked EXCEPT ![It(a)] = @ \cup {Arg(a)}]
    /\ Then(a, <<>>)
    /\ InThread /\ UNCHANGED <<held, data, written, file, nextId, budget>>

Kept(a) == Arg(a)
Unvisited(a) == tracked[It(a)] \ (Kept(a) \cup {t \in tracked[It(a)] : t \notin held[It(a)]})

\* force_close: one market close per trade; one that is refused stays tracked.
CloseOne(a) ==
    /\ Doing(a, "flatten") /\ Unvisited(a) /= {}
    /\ LET p == It(a)
           t == Min(Unvisited(a))
       IN  \/ held' = [held EXCEPT ![p] = @ \ {t}] /\ UNCHANGED <<jobs, budget>>
           \/ /\ Spend("refuse")
              /\ Then(a, <<Task("flatten", p, Kept(a) \cup {t})>>)
              /\ UNCHANGED held
    /\ InThread /\ UNCHANGED <<tracked, data, written, file, nextId>>

Flattened(a) ==
    /\ Doing(a, "flatten") /\ Unvisited(a) = {}
    /\ tracked' = [tracked EXCEPT ![It(a)] = Kept(a)]
    /\ Then(a, <<>>)
    /\ InThread /\ UNCHANGED <<held, data, written, file, nextId, budget>>

\* build_pair_state, outside the journal's lock.
Build(a) ==
    /\ Doing(a, "build")
    /\ Then(a, <<Task("write", It(a), tracked[It(a)])>>)
    /\ InThread /\ UNCHANGED <<held, tracked, data, written, file, nextId, budget>>

\* write_pair: a temporary file takes the old one's place, or the old one stays.
Write(a) ==
    /\ Doing(a, "write")
    /\ data' = [data EXCEPT ![It(a)] = Arg(a)]
    /\ IF data' = written THEN UNCHANGED <<written, file, budget>>
       ELSE \/ written' = data' /\ file' = data' /\ UNCHANGED budget
            \/ Spend("disk") /\ UNCHANGED <<written, file>>
    /\ Then(a, <<>>)
    /\ InThread /\ UNCHANGED <<held, tracked, nextId>>

FlushState(p) == <<Task("build", p, {})>>

-----------------------------------------------------------------------------
(* run_loop *)

Idle(p) == where = "running" /\ p \notin ended /\ jobs[Consumer(p)] = <<>>

Item(p) ==
    /\ Idle(p) /\ p \notin halted
    /\ \E work \in {<<>>, <<Task("flatten", p, {})>>, <<Task("open", p, {})>>} :
           /\ work /= <<>> =>
                  IF work[1].op = "open" THEN nextId <= setup.trades ELSE tracked[p] /= {}
           /\ work = <<>> => Spent("disk") > 0     \* an item that changes nothing flushes too
           /\ jobs' = [jobs EXCEPT ![Consumer(p)] = work \o FlushState(p)]
    /\ UNCHANGED <<setup, session, where, at, ended, halted, reason, how, held, tracked,
                   data, written, file, said, asked, started, foreign, nextId, budget>>

LoopEnds(p) ==
    /\ Idle(p) /\ p \in halted
    /\ ended' = ended \cup {p}
    /\ UNCHANGED <<setup, session, where, at, jobs, halted, reason, how, held, tracked,
                   data, written, file, said, asked, started, foreign, nextId, budget>>

-----------------------------------------------------------------------------
(* Stops *)

\* Variant: only the first pair is told.
RequestStopOne(why) ==
    /\ reason' = IF reason = None THEN why ELSE reason
    /\ halted' = halted \cup {1}
    /\ asked' = Append(asked, why)

\* _request_stop: "the first reason given is the one the STOP event says".
RequestStop(why) ==
    /\ reason' = IF reason = None THEN why ELSE reason
    /\ halted' = Pairs
    /\ asked' = Append(asked, why)

Alive == where \in {"seeding", "starting", "running", "stopping"}

\* The kill-switch file, watched once the session runs.
KillSwitch ==
    /\ where = "running" /\ Spend("kill")
    /\ RequestStop("kill switch")
    /\ UNCHANGED <<setup, session, where, at, jobs, ended, how, held, tracked, data, written,
                   file, said, started, foreign, nextId>>

\* The first signal asks for a stop; a second one is a KeyboardInterrupt in main: out of
\* the item of a single pair, out of the joins of several, or out of the shutdown.
Signal ==
    /\ where = "running" /\ Spend("signal") /\ "signal" \notin Range(asked)
    /\ RequestStop("signal")
    /\ UNCHANGED <<setup, session, where, at, jobs, ended, how, held, tracked, data, written,
                   file, said, started, foreign, nextId>>

Interrupt ==
    /\ where = "running" /\ "signal" \in Range(asked) /\ Spend("signal")
    /\ where' = "stopping" /\ at' = 0
    /\ jobs' = [jobs EXCEPT ![Main] = <<>>]
    /\ halted' = Pairs /\ how' = "interrupted"
    /\ UNCHANGED <<setup, session, ended, reason, held, tracked, data, written, file,
                   said, asked, started, foreign, nextId>>

ForceQuit ==
    /\ where = "stopping" /\ "signal" \in Range(asked) /\ Spend("signal")
    /\ where' = "off"
    /\ jobs' = [a \in Threads |-> <<>>]
    /\ UNCHANGED <<setup, session, at, ended, halted, reason, how, held, tracked, data,
                   written, file, said, asked, started, foreign, nextId>>

-----------------------------------------------------------------------------
(* Trader.run *)

\* Threads of a session before this one have ended (they are joined for five seconds).
Run ==
    /\ where \in {"off", "returned"} /\ session < setup.sessions
    /\ \A a \in Threads : jobs[a] = <<>>
    /\ session' = session + 1
    /\ where' = "seeding" /\ at' = 1
    /\ ended' = {} /\ halted' = {} /\ reason' = None /\ how' = "joined"
    /\ said' = <<>> /\ asked' = <<>> /\ started' = {} /\ foreign' = {}
    /\ tracked' = Empty
    /\ data' = file /\ written' = file
    /\ UNCHANGED <<setup, jobs, held, file, nextId, budget>>

Seed ==
    /\ where = "seeding"
    /\ where' = "starting"
    /\ UNCHANGED <<setup, session, at, jobs, ended, halted, reason, how, held, tracked, data,
                   written, file, said, asked, started, foreign, nextId, budget>>

\* worker.start: what the journal and the venue both know is adopted.
StartWorker ==
    /\ where = "starting" /\ jobs[Main] = <<>> /\ at <= setup.pairs
    /\ started' = started \cup {at}
    /\ tracked' = [tracked EXCEPT ![at] = data[at] \cap held[at]]
    /\ foreign' = foreign \cup (held[at] \ data[at])
    /\ jobs' = [jobs EXCEPT ![Main] = FlushState(at)]
    /\ at' = at + 1
    /\ UNCHANGED <<setup, session, where, ended, halted, reason, how, held, data, written,
                   file, said, asked, nextId, budget>>

AllStarted ==
    /\ where = "starting" /\ jobs[Main] = <<>> /\ at > setup.pairs
    /\ where' = "running"
    /\ UNCHANGED <<setup, session, at, jobs, ended, halted, reason, how, held, tracked, data,
                   written, file, said, asked, started, foreign, nextId, budget>>

\* A seed fails, or a worker's start: before anything is adopted (set_leverage, the
\* balance, a venue read), or after (a feed). The workers started so far, this one
\* included, are shut down and never flattened.
StartFails ==
    /\ where \in {"seeding", "starting"} /\ jobs[Main] = <<>> /\ Spend("start")
    /\ where' = "stopping" /\ at' = 0
    /\ how' = "aborted"
    /\ started' = IF where = "starting" /\ at <= setup.pairs THEN started \cup {at} ELSE started
    /\ UNCHANGED <<setup, session, jobs, ended, halted, reason, held, tracked, data, written, file,
                   said, asked, foreign, nextId>>

\* Variant: the joins end with the first pair.
JoinedOne ==
    /\ where = "running" /\ 1 \in ended
    /\ where' = "stopping" /\ at' = 0
    /\ UNCHANGED <<setup, session, jobs, ended, halted, reason, how, held, tracked, data,
                   written, file, said, asked, started, foreign, nextId, budget>>

\* run_loop has returned, or every consumer thread has ended.
Joined ==
    /\ where = "running" /\ ended = Pairs
    /\ where' = "stopping" /\ at' = 0
    /\ UNCHANGED <<setup, session, jobs, ended, halted, reason, how, held, tracked, data,
                   written, file, said, asked, started, foreign, nextId, budget>>

\* worker.shutdown, one pair after the other.
ShutDown ==
    /\ where = "stopping" /\ jobs[Main] = <<>> /\ at < Cardinality(started)
    /\ at' = at + 1
    /\ halted' = halted \cup {at'}
    /\ jobs' = [jobs EXCEPT ![Main] =
                    (IF setup.closeAll /\ how /= "aborted" THEN <<Task("flatten", at', {})>> ELSE <<>>)
                    \o FlushState(at')]
    /\ UNCHANGED <<setup, session, where, ended, reason, how, held, tracked, data, written,
                   file, said, asked, started, foreign, nextId, budget>>

Why == IF how = "aborted" THEN "crash" ELSE IF reason = None THEN "stop()" ELSE reason

\* _announce_stop, and run returns: its daemon threads end with the program.
Return ==
    /\ where = "stopping" /\ jobs[Main] = <<>> /\ at = Cardinality(started)
    /\ said' = [p \in Pairs |-> [reason |-> Why, open |-> Cardinality(tracked[p])]]
    /\ where' = "returned"
    /\ UNCHANGED <<setup, session, at, jobs, ended, halted, reason, how, held, tracked, data,
                   written, file, asked, started, foreign, nextId, budget>>

Crash ==
    /\ Alive /\ Spend("crash")
    /\ where' = "off"
    /\ jobs' = [a \in Threads |-> <<>>]
    /\ UNCHANGED <<setup, session, at, ended, halted, reason, how, held, tracked, data,
                   written, file, said, asked, started, foreign, nextId>>

TraderInit ==
    /\ setup \in Setups /\ budget = setup.faults
    /\ session = 0 /\ where = "off" /\ at = 0
    /\ jobs = [a \in Threads |-> <<>>]
    /\ ended = {} /\ halted = {} /\ reason = None /\ how = "joined"
    /\ held = Empty /\ tracked = Empty /\ data = Empty /\ written = Empty /\ file = Empty
    /\ said = <<>> /\ asked = <<>> /\ started = {} /\ foreign = {} /\ nextId = 1

Work(a) == Open(a) \/ Track(a) \/ CloseOne(a) \/ Flattened(a) \/ Build(a) \/ Write(a)
MainSteps == Seed \/ StartWorker \/ AllStarted \/ Joined \/ ShutDown

-----------------------------------------------------------------------------
(* Properties *)

Ours(p) == held[p] \ foreign

\* When run returns, not interrupted a second time and not out of a failed start, every
\* position it leaves open is tracked and in the journal (in the file too, unless the disk
\* failed), on_stop="close_all" has left only what the venue refused to close, and each
\* pair's one STOP gives the first reason asked for and "what is really left".
Accounted ==
    where = "returned" /\ how = "joined" =>
        \A p \in Pairs :
            /\ tracked[p] = Ours(p) /\ data[p] = tracked[p]
            /\ Spent("disk") = 0 => file[p] = tracked[p]
            /\ setup.closeAll => Cardinality(tracked[p]) <= Spent("refuse")
            /\ said[p] = [reason |-> IF asked = <<>> THEN "stop()" ELSE Head(asked),
                          open |-> Cardinality(Ours(p))]

\* "A failure while seeding/starting aborts the start: ... positions kept protected": what
\* the journal knew of open positions it still knows.
FailedStartForgetsNothing ==
    where = "returned" /\ how = "aborted" /\ Spent("disk") = 0 =>
        \A p \in Pairs : \A t \in held[p] : t \in file[p] \/ t \in foreign

\* Whoever asks for a stop, and whatever every pair is doing or starting then, run comes to
\* its end: no pair's loop misses it.
StopEnds == asked /= <<>> ~> ~Alive
=============================================================================
