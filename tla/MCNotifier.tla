----------------------------- MODULE MCNotifier -----------------------------
(* Instances of the notifier for TLC. *)
EXTENDS Notifier

NoFaults == [refused |-> 0, wait |-> 0, lost |-> 0]

\* Texts to two chats, one or both failing for ever, and calls that wait.
Texts == [dests |-> 2, steps |-> <<1, 2>>, pace |-> 1, capacity |-> 2, parts |-> {1}, waits |-> BOOLEAN,
          texts |-> 2, events |-> 0, faults |-> NoFaults, outages |-> 1, closes |-> 0,
          timeouts |-> 0]

\* Long texts to one chat, every answer, and more of them than may wait.
Long == [Texts EXCEPT !.dests = 1, !.parts = {1, 2}, !.texts = 3, !.capacity = 1, !.outages = 0,
                      !.waits = {FALSE}, !.faults = [refused |-> 1, wait |-> 1, lost |-> 1]]

\* A trade's events over a close that delivers everything.
Trade == [Texts EXCEPT !.dests = 1, !.texts = 0, !.events = 3, !.closes = 1,
                       !.faults = [NoFaults EXCEPT !.refused = 1]]

\* A close that runs out of time; the next session starts beside its last request.
Overlap == [Trade EXCEPT !.texts = 1, !.events = 2, !.waits = {FALSE}, !.outages = 0,
                         !.faults = NoFaults, !.timeouts = 1]

NotifierSetups == {Texts, Long, Trade, Overlap}
=============================================================================
