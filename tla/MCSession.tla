----------------------------- MODULE MCSession ------------------------------
(* Instances of the live session and its chat commands for TLC. *)
EXTENDS Commands

NoFaults == [f \in Fault |-> 0]

\* Two pairs on threads of their own, flattened at the end.
Two == [pairs |-> 2, closeAll |-> TRUE, trades |-> 2, sessions |-> 1, messages |-> 0, clock |-> 1,
        writes |-> {}, faults |-> [NoFaults EXCEPT !.refuse = 1, !.signal = 2]]

\* One pair on the main thread, kept over stops, failing writes, a failed start and a crash.
One == [Two EXCEPT !.pairs = 1, !.closeAll = FALSE, !.sessions = 2, !.clock = 2,
                   !.faults = [NoFaults EXCEPT !.kill = 1, !.signal = 1, !.disk = 1, !.start = 1,
                                               !.crash = 1]]

Stops == {"ada", "bob"} \X {"stop", "confirm"}

\* Commands over two sessions of one program, with a poll that fails.
Chatting == [Two EXCEPT !.pairs = 1, !.trades = 0, !.sessions = 2, !.messages = 2, !.clock = 2,
                        !.writes = Stops, !.faults = [NoFaults EXCEPT !.signal = 1, !.poll = 1]]

\* More commands, within the time that one of them may be confirmed.
Crowd == [Two EXCEPT !.pairs = 1, !.trades = 0, !.messages = 3,
                     !.writes = Stops \cup {<<"ada", "status">>, <<"eve", "stop">>, <<"eve", "confirm">>},
                     !.faults = NoFaults]

\* Telegram refuses for good.
Deaf == [Chatting EXCEPT !.messages = 1, !.faults = [NoFaults EXCEPT !.signal = 1, !.halt = 1]]

SessionSetups == {Two, One, Chatting, Crowd, Deaf}
StartSetups == {[One EXCEPT !.faults = [NoFaults EXCEPT !.kill = 1, !.start = 1]]}
=============================================================================
