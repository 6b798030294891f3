------------------------------ MODULE Commands ------------------------------
(***************************************************************************)
(* /stop from a chat: the listener that reads a bot's updates              *)
(* (notify/_commands.py, Listener) beside the live session it can stop.    *)
(*                                                                         *)
(* Telegram keeps an update until a request carries an offset beyond it.   *)
(* A notifier that is closed pauses its listener: the thread of that       *)
(* generation may still have a request out when the next session's begins. *)
(* All messages are of one chat; a step of the clock takes longer than     *)
(* CONFIRM_SECONDS.                                                        *)
(***************************************************************************)
EXTENDS TraderSession

VARIABLES
    clock,      \* the time
    inbox,      \* the updates that Telegram keeps, in order
    offset,     \* _offset, one past the newest update read
    generation, \* _generation
    listening,  \* _running
    pending,    \* _pending: who may confirm, in which chat, until when
    threads,    \* the listener's threads by generation: what each is doing
    off,        \* _off: Telegram refused for good
    handled,    \* the commands handled, in order, with the session they stopped
    crashed,    \* when the program last went down
    sent        \* messages sent so far

cmdVars == <<clock, inbox, offset, generation, listening, pending, threads, off, handled, crashed,
             sent>>
vars == <<traderVars, cmdVars>>

Commanders == {"ada", "bob"}
Confirm == 0                             \* CONFIRM_SECONDS, in steps of the clock
Nobody == <<>>

Numbers == {u.id : u \in Range(inbox)}
AliveThread(g) == listening /\ g = generation
Put(g, t) == threads' = [threads EXCEPT ![g] = t]
Gone == [at |-> "gone", batch |-> <<>>, since |-> 0]

-----------------------------------------------------------------------------
(* The trader's session and the listener's lifetime *)

\* listen, resume: before the seeds.
Begin ==
    /\ Run
    /\ clock > crashed                   \* a program takes longer than a second to start
    /\ IF off THEN UNCHANGED <<generation, listening, threads>>
       ELSE /\ generation' = generation + 1 /\ listening' = TRUE
            /\ threads' = Append(threads, [at |-> "asking", batch |-> <<>>, since |-> clock])
    /\ UNCHANGED <<clock, inbox, offset, pending, off, handled, crashed, sent>>

\* Variant: a pause keeps what waits to be confirmed.
PauseKeeps == listening' = FALSE /\ generation' = generation + 1 /\ UNCHANGED pending
\* pause, by the close of the notifier.
Pause == listening' = FALSE /\ generation' = generation + 1 /\ pending' = Nobody

\* unlisten and close, after the STOP events.
Finish ==
    /\ Return
    /\ Pause
    /\ threads' = Append(threads, Gone)  \* the generation of a pause has no thread
    /\ UNCHANGED <<clock, inbox, offset, off, handled, crashed, sent>>

\* The program ends: a new one knows no offset.
ProgramEnds ==
    /\ Crash \/ ForceQuit
    /\ Pause
    /\ threads' = [g \in 1..(generation + 1) |-> Gone]
    /\ offset' = 0 /\ crashed' = clock /\ off' = FALSE
    /\ UNCHANGED <<clock, inbox, handled, sent>>

-----------------------------------------------------------------------------
(* The listener's thread *)

ThreadStep == UNCHANGED <<clock, inbox, listening, generation, off, crashed, sent>>

\* getUpdates: the offset confirms every update before it.
Ask(g) ==
    /\ threads[g].at = "asking" /\ AliveThread(g)
    /\ \E n \in 0..Len(inbox) :            \* they are numbered in order
           /\ \A k \in 1..Len(inbox) : inbox[k].id < offset <=> k <= n
           /\ inbox' = SubSeq(inbox, n + 1, Len(inbox))
    /\ Put(g, [threads[g] EXCEPT !.at = "out", !.batch = <<>>])
    /\ UNCHANGED <<traderVars, clock, offset, listening, generation, pending, off, handled, crashed,
                   sent>>

Leave(g) ==
    /\ threads[g].at = "asking" /\ ~AliveThread(g)
    /\ Put(g, Gone)
    /\ ThreadStep /\ UNCHANGED <<traderVars, offset, pending, handled>>

\* "close() came while the request was out: nothing it read counts".
Answer(g) ==
    /\ threads[g].at = "out" /\ inbox /= <<>>
    /\ IF AliveThread(g)
       THEN /\ Put(g, [threads[g] EXCEPT !.at = "reading", !.batch = inbox])
            /\ offset' = Max(Numbers) + 1
       ELSE Put(g, Gone) /\ UNCHANGED offset
    /\ ThreadStep /\ UNCHANGED <<traderVars, pending, handled>>

NothingElse == UNCHANGED <<setup, session, where, at, jobs, ended, halted, reason, how, held,
                           tracked, data, written, file, said, asked, started, foreign, nextId>>

\* The answer is lost: the same offset is asked for again.
NoAnswer(g) ==
    /\ threads[g].at = "out" /\ Spend("poll")
    /\ Put(g, IF AliveThread(g) THEN [threads[g] EXCEPT !.at = "asking"] ELSE Gone)
    /\ ThreadStep /\ NothingElse /\ UNCHANGED <<offset, pending, handled>>

\* _halt: a token that is rejected, or a webhook, keeps commands off.
Rejected(g) ==
    /\ threads[g].at = "out" /\ Spend("halt")
    /\ IF AliveThread(g)
       THEN Pause /\ off' = TRUE /\ threads' = Append([threads EXCEPT ![g] = Gone], Gone)
       ELSE Put(g, Gone) /\ UNCHANGED <<listening, generation, pending, off>>
    /\ NothingElse /\ UNCHANGED <<clock, inbox, offset, handled, crashed, sent>>

-----------------------------------------------------------------------------
(* Commands *)

Listed == where \in {"seeding", "starting", "running", "stopping"}   \* listen ... unlisten

Confirmed(u) == pending /= Nobody /\ pending.person = u.person /\ clock <= pending.until

Handled(u, stops) == Append(handled, [id |-> u.id, what |-> u.what, person |-> u.person,
                                      at |-> clock, session |-> session, stops |-> stops])

\* Who is no commander is refused; /status and the like read and answer.
Other(u) ==
    /\ u.person \notin Commanders \/ u.what \notin {"stop", "confirm"}
    /\ handled' = Handled(u, FALSE)
    /\ UNCHANGED <<traderVars, pending>>

\* _stop of "/stop CONFIRM"
ConfirmStop(u) ==
    /\ u.person \in Commanders /\ u.what = "confirm"
    /\ pending' = IF Confirmed(u) \/ (pending /= Nobody /\ clock > pending.until)
                  THEN Nobody ELSE pending
    /\ IF Confirmed(u) /\ Listed
       THEN /\ RequestStop("telegram")
            /\ handled' = Handled(u, TRUE)
            /\ UNCHANGED <<setup, session, where, at, jobs, ended, how, held, tracked, data,
                           written, file, said, started, foreign, nextId, budget>>
       ELSE handled' = Handled(u, FALSE) /\ UNCHANGED traderVars

\* _stop: live trading asks to confirm.
AskStop(u) ==
    /\ u.person \in Commanders /\ u.what = "stop"
    /\ pending' = IF Listed THEN [person |-> u.person, until |-> clock + Confirm]
                  ELSE pending
    /\ handled' = Handled(u, FALSE)
    /\ UNCHANGED traderVars

\* _read: what was sent before this thread started is skipped, each of the others handled
\* while its generation lasts.
Read(g) ==
    /\ threads[g].at = "reading" /\ threads[g].batch /= <<>>
    /\ LET u == Head(threads[g].batch)
       IN  IF u.date < threads[g].since
           THEN /\ Put(g, [threads[g] EXCEPT !.batch = Tail(@)])
                /\ UNCHANGED <<traderVars, pending, handled>>
           ELSE IF ~AliveThread(g)
           THEN Put(g, Gone) /\ UNCHANGED <<traderVars, pending, handled>>
           ELSE /\ Put(g, [threads[g] EXCEPT !.batch = Tail(@)])
                /\ ConfirmStop(u) \/ AskStop(u) \/ Other(u)
    /\ ThreadStep /\ UNCHANGED offset

ReadAll(g) ==
    /\ threads[g].at = "reading" /\ threads[g].batch = <<>>
    /\ Put(g, [threads[g] EXCEPT !.at = "asking"])
    /\ ThreadStep /\ UNCHANGED <<traderVars, offset, pending, handled>>

-----------------------------------------------------------------------------
(* The world *)

\* Somebody writes: <<who, what>>.
Message ==
    /\ sent < setup.messages
    /\ sent' = sent + 1
    /\ \E w \in setup.writes :
           inbox' = Append(inbox, [id |-> sent + 1, person |-> w[1], what |-> w[2], date |-> clock])
    /\ UNCHANGED <<traderVars, clock, offset, generation, listening, pending, threads, off, handled,
                   crashed>>

Minute ==
    /\ clock < setup.clock
    /\ clock' = clock + 1
    /\ UNCHANGED <<traderVars, inbox, offset, generation, listening, pending, threads, off, handled,
                   crashed, sent>>

Init ==
    /\ TraderInit
    /\ clock = 1 /\ inbox = <<>> /\ offset = 0 /\ generation = 0 /\ listening = FALSE
    /\ pending = Nobody /\ threads = <<>> /\ handled = <<>> /\ crashed = 0
    /\ sent = 0 /\ off = FALSE

Listener(g) == Ask(g) \/ Leave(g) \/ Answer(g) \/ NoAnswer(g) \/ Rejected(g) \/ Read(g) \/ ReadAll(g)

\* The trader's own steps leave the listener alone.
TraderStep ==
    /\ \/ \E a \in Threads : Work(a)
       \/ \E p \in Pairs : Item(p) \/ LoopEnds(p)
       \/ MainSteps \/ StartFails \/ KillSwitch \/ Signal \/ Interrupt
    /\ UNCHANGED cmdVars

Next ==
    \/ TraderStep \/ Begin \/ Finish \/ ProgramEnds
    \/ \E g \in DOMAIN threads : Listener(g)
    \/ Message \/ Minute

Spec == Init /\ [][Next]_vars

MostPairs == Max({s.pairs : s \in Setups})
\* Every thread of the trader runs, and venue calls return.
FairSpec ==
    /\ Spec
    /\ \A a \in 0..MostPairs : WF_vars(a \in Threads /\ Work(a) /\ UNCHANGED cmdVars)
    /\ \A p \in 1..MostPairs : WF_vars(p \in Pairs /\ LoopEnds(p) /\ UNCHANGED cmdVars)
    /\ WF_vars(MainSteps /\ UNCHANGED cmdVars) /\ WF_vars(Finish)

-----------------------------------------------------------------------------
(* Properties *)

\* A command is handled once, however requests fail and generations overlap; and a session
\* is stopped from a chat only by a CONFIRM that follows, within its time, a /stop of the
\* same commander to the same session, with no other /stop and no stop between.
ConfirmedOnce ==
    \A k \in DOMAIN handled :
        /\ \A i \in 1..(k - 1) : handled[i].id /= handled[k].id
        /\ handled[k].stops =>
               /\ handled[k].person \in Commanders
               /\ \E i \in 1..(k - 1) :
                      /\ handled[i].what = "stop" /\ handled[i].at >= handled[k].at - Confirm
                      /\ handled[i].person = handled[k].person
                      /\ handled[i].session = handled[k].session
                      /\ \A j \in (i + 1)..(k - 1) :
                             /\ ~handled[j].stops
                             /\ handled[j].person \in Commanders => handled[j].what /= "stop"
=============================================================================
