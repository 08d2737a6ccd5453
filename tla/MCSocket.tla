------------------------------- MODULE MCSocket -------------------------------
(* One connection with two turns, and two connections with a reconnect.    *)
EXTENDS SocketProps

Plain == [conns |-> {1}, turns |-> {1}, sessions |-> {1}, events |-> 1, room |-> 2, chats |-> 2,
          limit |-> 0, happens |-> {"lose"}]

Busy      == [Plain EXCEPT !.happens = {"lose", "kill", "refuse"}]
Paired    == [Plain EXCEPT !.turns = {1, 2}, !.events = 0]
Limited   == [Plain EXCEPT !.turns = {1, 2}, !.events = 0, !.chats = 1, !.happens = {"lose", "refuse"}]
Stopped   == [Plain EXCEPT !.happens = {"shutdown", "lose", "news"}]
Rejected  == [Plain EXCEPT !.conns = {1, 2}, !.events = 0, !.limit = 1]
Closing   == [Plain EXCEPT !.conns = {1, 2}, !.happens = {"shutdown"}]
Returning == [Plain EXCEPT !.conns = {1, 2}, !.happens = {"lose", "resume", "age", "sweep"}]
Squeezed  == [Plain EXCEPT !.conns = {1, 2}, !.turns = {1, 2}, !.sessions = {1, 2}, !.events = 0,
                           !.room = 1, !.chats = 1, !.happens = {"lose", "resume"}]

MCSettings == {Busy, Paired, Limited, Stopped, Rejected, Closing, Returning, Squeezed}
=============================================================================
