-------------------------------- MODULE Socket --------------------------------
(***************************************************************************)
(* The WebSocket of the dashboard (internal/api/websocket.go): the hub,    *)
(* each connection with its read pump, write pump and send channel, the    *)
(* chat turns it runs, and the replay of frames after a reconnect.         *)
(*                                                                         *)
(* A step is one channel operation, one critical section, one read or      *)
(* write of the network, or the engine's part of a turn up to its next     *)
(* event.  The client, the network and the engine are external.            *)
(***************************************************************************)
EXTENDS ReplayStore

CONSTANTS
    Conns,          \* connections, 1 .. n, in the order in which they are made
    Requests,       \* chat requests that may be accepted, 1 .. n
    SendBuffer,     \* wsSendBufferSize (256)
    Settings        \* what a behaviour explores: its connections, turns and sessions,
                    \* events of a turn, what may happen; and how much room there is
                    \* for replay buffers (defaultMaxSessions, 10000), for chats
                    \* (wsMaxConcurrentChats, 10) and for connections (the
                    \* configuration's websocket_max_connections, 0 for no limit)

NoRequest == 0
Happenings == {"lose", "kill", "refuse", "news", "resume", "age", "sweep", "shutdown"}

ASSUME SocketAssumption ==
    /\ SendBuffer \in Nat \ {0} /\ Conns \subseteq Nat \ {0}
    /\ \A s \in Settings :
          /\ s.conns \subseteq Conns /\ s.turns \subseteq Requests /\ s.sessions \subseteq Sessions
          /\ s.events \in Nat /\ s.room \in Nat \ {0} /\ s.chats \in Nat \ {0} /\ s.limit \in Nat
          /\ s.happens \subseteq Happenings

VARIABLES
    hub,            \* WSHub.conns
    conn,           \* pumps, network and done channel of each connection
    queue,          \* WSConn.send
    got,            \* frames that reached the client
    chat,           \* the goroutines of accepted chat requests
    shut,           \* WSHub.Shutdown: whether it began, what it has left, where it is
    once,           \* bound: things that happen once and have happened
    dropped,        \* history: frames lost to a full send channel
    crossed,        \* history: sessions with two turns at a time
    said,           \* history: the kinds of frames each turn has sent
    setting

connVars == <<hub, conn, queue, got>>
socketVars == <<connVars, chat, shut, once, dropped, crossed, said, setting, replayVars>>

Closed(c) == conn[c].done
Of(c)   == {t \in setting.turns : chat[t].conn = c}
Live(c) == {t \in Of(c) : chat[t].pc # "gone"}        \* they hold chatSem
SetConn(c, r) == conn' = [conn EXCEPT ![c] = r]
SetChat(t, r) == chat' = [chat EXCEPT ![t] = r]

Frame(t, k, q) == [t |-> t, k |-> k, q |-> q]
Refusal == Frame(NoRequest, "error", 0)

(* connCtx is the parent of the turn's context; the dispatcher has its     *)
(* cancel.                                                                 *)
Cancelled(t) == chat[t].killed \/ Closed(chat[t].conn)

Happens(h) == h \in setting.happens
Once(h) == Happens(h) /\ h \notin once /\ once' = once \union {h}

-----------------------------------------------------------------------------
(* sendJSON.                                                               *)

Full(c) == Len(queue[c]) >= SendBuffer

(* Mutant: only a done frame is protocol-critical. *)
CriticalDone(f) == f.k = "done"

Critical(f) == f.k \in {"done", "error"}

(* Mutant: a critical frame waits for the channel alone. *)
SendJSONPatient(c, f) ==
    \/ /\ ~Full(c) /\ queue' = [queue EXCEPT ![c] = Append(@, f)]
       /\ UNCHANGED dropped
    \/ /\ ~Critical(f) /\ Full(c) /\ dropped' = dropped \union {f}
       /\ UNCHANGED queue

(* Nothing is sent on a connection that closes; a critical frame blocks    *)
(* while the channel is full, any other is dropped.                        *)
SendJSON(c, f) ==
    \/ /\ Closed(c)
       /\ UNCHANGED <<queue, dropped>>
    \/ /\ ~Closed(c) /\ ~Full(c) /\ queue' = [queue EXCEPT ![c] = Append(@, f)]
       /\ UNCHANGED dropped
    \/ /\ ~Closed(c) /\ Full(c) /\ ~Critical(f) /\ dropped' = dropped \union {f}
       /\ UNCHANGED queue

-----------------------------------------------------------------------------
(* A connection.                                                           *)

(* handleWebSocket: a connection the hub has no room for is closed, others *)
(* get their pumps.  A client that reconnects has one connection at a time.*)
Upgrade(c) ==
    /\ c \in setting.conns /\ conn[c].reader = "none"
    /\ \A d \in setting.conns : d < c =>
          conn[d].reader # "none" /\ (Happens("resume") => conn[d].net # "up")
    /\ IF setting.limit > 0 /\ Cardinality(hub) >= setting.limit
       THEN /\ SetConn(c, [conn[c] EXCEPT !.reader = "gone", !.writer = "gone",
                                          !.net = "closed", !.done = TRUE])
            /\ UNCHANGED hub
       ELSE /\ hub' = hub \union {c}
            /\ SetConn(c, [conn[c] EXCEPT !.reader = "read", !.writer = "run", !.net = "up"])
    /\ UNCHANGED <<queue, got, chat, shut, once, dropped, crossed, said, setting, replayVars>>

(* The client or the network goes away; each pump finds out by itself.     *)
Lose(c) ==
    /\ Once("lose") /\ conn[c].net = "up"
    /\ SetConn(c, [conn[c] EXCEPT !.net = "lost"])
    /\ UNCHANGED <<hub, queue, got, chat, shut, dropped, crossed, said, setting, replayVars>>

(* writePump: a frame is written, and reaches the client while the network *)
(* is up; a failed write or ping ends the pump and closes the socket, and  *)
(* so does the done channel.                                               *)
Write(c) ==
    /\ conn[c].writer = "run" /\ conn[c].net # "closed" /\ queue[c] # << >>
    /\ queue' = [queue EXCEPT ![c] = Tail(@)]
    /\ got' = IF conn[c].net = "up" THEN [got EXCEPT ![c] = Append(@, Head(queue[c]))] ELSE got
    /\ UNCHANGED <<hub, conn, chat, shut, once, dropped, crossed, said, setting, replayVars>>

WriteFails(c) ==
    /\ conn[c].writer = "run"
    /\ conn[c].net # "up" \/ Closed(c)
    /\ SetConn(c, [conn[c] EXCEPT !.writer = "gone", !.net = "closed"])
    /\ UNCHANGED <<hub, queue, got, chat, shut, once, dropped, crossed, said, setting, replayVars>>

(* readPump ends: a read fails, Close closes done and with it connCtx, and *)
(* the hub forgets the connection.                                         *)
ReadFails(c) ==
    /\ conn[c].reader = "read" /\ conn[c].net # "up"
    /\ SetConn(c, [conn[c] EXCEPT !.reader = "unregister", !.done = TRUE, !.net = "closed"])
    /\ UNCHANGED <<hub, queue, got, chat, shut, once, dropped, crossed, said, setting, replayVars>>

Unregister(c) ==
    /\ conn[c].reader = "unregister"
    /\ hub' = hub \ {c}
    /\ SetConn(c, [conn[c] EXCEPT !.reader = "gone"])
    /\ UNCHANGED <<queue, got, chat, shut, once, dropped, crossed, said, setting, replayVars>>

(* Frames the read pump answers itself: it blocks while it does.           *)
Reply(c, frames) == SetConn(c, [conn[c] EXCEPT !.reader = "reply", !.reply = frames])
Reading(c) == conn[c].reader = "read" /\ conn[c].net = "up"

SendReply(c) ==
    /\ conn[c].reader = "reply"
    /\ SendJSON(c, Head(conn[c].reply))
    /\ SetConn(c, [conn[c] EXCEPT !.reply = Tail(@),
                                  !.reader = IF Len(conn[c].reply) = 1 THEN "read" ELSE @])
    /\ UNCHANGED <<hub, got, chat, shut, once, crossed, said, setting, replayVars>>

(* An invalid frame, a chat while panicked or for an unknown agent, an     *)
(* approval already decided, a missing scope: an error frame.              *)
Refuse(c) ==
    /\ Reading(c) /\ Once("refuse")
    /\ Reply(c, <<Refusal>>)
    /\ UNCHANGED <<hub, queue, got, chat, shut, dropped, crossed, said, setting, replayVars>>

(* A frame for every client (Broadcast), here for one of them.             *)
Broadcast(c) ==
    /\ c \in hub /\ Once("news")
    /\ SendJSON(c, Frame(NoRequest, "news", 0))
    /\ UNCHANGED <<hub, conn, got, chat, shut, crossed, said, setting, replayVars>>

-----------------------------------------------------------------------------
(* handleChatRequest.                                                      *)

(* The last numbered frame of a session a client has, on its latest        *)
(* connection that received any: what it names when it reconnects.         *)
Heard(c, s) ==
    Picked(got[c], {i \in DOMAIN got[c] : got[c][i].q > 0 /\ chat[got[c][i].t].session = s})
Source(c, s) == LET heard == {d \in Conns : d < c /\ Heard(d, s) # << >>} IN
    IF heard = {} THEN 0 ELSE CHOOSE d \in heard : \A e \in heard : e <= d

(* A reconnect: the frames after the one named, or an error.               *)
Reconnect(c, s) ==
    LET d == Source(c, s) IN
    /\ Reading(c) /\ Happens("resume") /\ d # 0 /\ Heard(c, s) = << >> /\ conn[d].net # "up"
    /\ Once("resume")
    /\ \E i \in 1 .. Len(ring) + 1 :
          /\ Buffer(s, i, setting.room)
          /\ LET frames == ReplaySince(ring'[i], Last(Heard(d, s)).q)
             IN  Reply(c, IF frames = << >> THEN <<Refusal>> ELSE frames)
    /\ UNCHANGED <<hub, queue, got, chat, shut, dropped, crossed, said, setting>>

(* A chat request beyond the limit is refused, another gets a goroutine    *)
(* under the connection's context.  Sessions are alike: the first request  *)
(* is for the first.                                                       *)
Chat(c, s, t) ==
    /\ Reading(c) /\ s \in setting.sessions /\ s <= t
    /\ chat[t].pc = "none" /\ \A u \in setting.turns : u < t => chat[u].pc # "none"
    /\ IF Cardinality(Live(c)) >= setting.chats
       THEN /\ Once("refuse") /\ Reply(c, <<Refusal>>)
            /\ UNCHANGED <<chat, crossed>>
       ELSE /\ SetChat(t, [chat[t] EXCEPT !.pc = "enter", !.conn = c, !.session = s])
            /\ crossed' = IF \E u \in setting.turns :
                               chat[u].session = s /\ chat[u].pc \notin {"none", "gone"}
                          THEN crossed \union {s} ELSE crossed
            /\ UNCHANGED <<conn, once>>
    /\ UNCHANGED <<hub, queue, got, shut, dropped, said, setting, replayVars>>

StartTurn(t) ==
    /\ chat[t].pc = "enter"
    /\ \E i \in 1 .. Len(ring) + 1 :
          /\ Buffer(chat[t].session, i, setting.room)
          /\ SetChat(t, [chat[t] EXCEPT !.pc = "run", !.buf = i])
    /\ UNCHANGED <<connVars, shut, once, dropped, crossed, said, setting>>

(* A frame of the turn gets the connection's next number and is recorded,  *)
(* before it is sent.                                                      *)
Record(t, k) ==
    LET c == chat[t].conn  f == Frame(t, k, conn[c].seq + 1) IN
    /\ SetConn(c, [conn[c] EXCEPT !.seq = @ + 1])
    /\ Remember(chat[t].buf, f)
    /\ SetChat(t, [chat[t] EXCEPT !.pc = "send", !.frame = f])
    /\ UNCHANGED <<hub, queue, got, shut, once, dropped, crossed, said, setting>>

(* onEvent; and the two frames after the engine's answer.                  *)
Events(t) == Cardinality({n \in 1 .. Len(taken[chat[t].buf]) : taken[chat[t].buf][n].frame.t = t})
Emit(t) == chat[t].pc = "run" /\ Events(t) < setting.events /\ Record(t, "event")
Answer(t) == chat[t].pc \in {"content", "done"} /\ Record(t, chat[t].pc)

After == [event |-> "run", content |-> "done", done |-> "leave", error |-> "leave"]

Send(t) ==
    LET c == chat[t].conn  f == chat[t].frame IN
    /\ chat[t].pc = "send"
    /\ SendJSON(c, f)
    /\ SetChat(t, [chat[t] EXCEPT !.pc = After[f.k]])
    /\ said' = IF queue' # queue THEN [said EXCEPT ![t] = Append(@, f.k)] ELSE said
    /\ UNCHANGED <<hub, conn, got, shut, once, crossed, setting, replayVars>>

(* ChatWithEvents returns an answer or an error, at any point; a cancelled *)
(* turn reports no error.                                                  *)
Return(t) ==
    /\ chat[t].pc = "run"
    /\ \/ SetChat(t, [chat[t] EXCEPT !.pc = "content"])
       \/ SetChat(t, IF Cancelled(t) THEN [chat[t] EXCEPT !.pc = "leave"]
                     ELSE [chat[t] EXCEPT !.pc = "send", !.frame = Frame(t, "error", 0)])
    /\ UNCHANGED <<connVars, shut, once, dropped, crossed, said, setting, replayVars>>

EndTurn(t) ==
    /\ chat[t].pc = "leave"
    /\ SetChat(t, [chat[t] EXCEPT !.pc = "gone"])
    /\ UNCHANGED <<connVars, shut, once, dropped, crossed, said, setting, replayVars>>

(* The dispatcher cancels the turn it was given the cancel of.             *)
Kill(t) ==
    /\ Happens("kill") /\ chat[t].pc \notin {"none", "gone"} /\ ~chat[t].killed
    /\ SetChat(t, [chat[t] EXCEPT !.killed = TRUE])
    /\ UNCHANGED <<connVars, shut, once, dropped, crossed, said, setting, replayVars>>

-----------------------------------------------------------------------------
(* The hub: Shutdown closes what it lists, one by one; the cleanup ticks.  *)

Shutdown ==
    /\ Once("shutdown")
    /\ shut' = [left |-> hub, at |-> 0]
    /\ UNCHANGED <<connVars, chat, dropped, crossed, said, setting, replayVars>>

ShutdownClose(c) ==
    /\ shut.at = 0 /\ c \in shut.left
    /\ shut' = [left |-> shut.left \ {c}, at |-> c]
    /\ SetConn(c, [conn[c] EXCEPT !.done = TRUE, !.net = "closed"])
    /\ UNCHANGED <<hub, queue, got, chat, once, dropped, crossed, said, setting, replayVars>>

ShutdownNext ==
    /\ shut.at # 0
    /\ hub' = hub \ {shut.at}
    /\ shut' = [shut EXCEPT !.at = 0]
    /\ UNCHANGED <<conn, queue, got, chat, once, dropped, crossed, said, setting, replayVars>>

CleanupTick ==
    /\ Happens("sweep") /\ Cleanup
    /\ UNCHANGED <<connVars, chat, shut, once, dropped, crossed, said, setting>>

TimePasses ==
    /\ Once("age") /\ Age
    /\ UNCHANGED <<connVars, chat, shut, dropped, crossed, said, setting>>

-----------------------------------------------------------------------------

SocketInit ==
    /\ setting \in Settings
    /\ hub = {} /\ once = {} /\ dropped = {} /\ crossed = {}
    /\ conn = [c \in Conns |-> [reader |-> "none", writer |-> "none", net |-> "none",
                                done |-> FALSE, seq |-> 0, reply |-> << >>]]
    /\ queue = [c \in Conns |-> << >>] /\ got = [c \in Conns |-> << >>]
    /\ chat = [t \in Requests |-> [pc |-> "none", conn |-> 0, session |-> 0, buf |-> NoBuffer,
                                frame |-> Refusal, killed |-> FALSE]]
    /\ said = [t \in Requests |-> << >>]
    /\ shut = [left |-> {}, at |-> 0]
    /\ ReplayInit

Writer(c) == Write(c) \/ WriteFails(c)
Reader(c) == ReadFails(c) \/ Unregister(c) \/ SendReply(c)
Client(c) == Upgrade(c) \/ Lose(c) \/ Refuse(c) \/ Broadcast(c)
                \/ \E s \in Sessions : Reconnect(c, s) \/ \E t \in setting.turns : Chat(c, s, t)
Goroutine(t) == StartTurn(t) \/ Emit(t) \/ Answer(t) \/ Send(t) \/ Return(t) \/ EndTurn(t)
Stopping == ShutdownNext \/ \E c \in Conns : ShutdownClose(c)

SocketNext ==
    \/ \E c \in Conns : Writer(c) \/ Reader(c) \/ Client(c)
    \/ \E t \in setting.turns : Goroutine(t) \/ Kill(t)
    \/ Stopping \/ Shutdown \/ CleanupTick \/ TimePasses

SocketSpec == SocketInit /\ [][SocketNext]_socketVars

(* Pumps and goroutines go on; a turn ends, since each of its calls does;  *)
(* a read fails at the latest when its deadline passes without a pong.     *)
FairSocket ==
    /\ SocketSpec
    /\ \A c \in Conns : WF_socketVars(Writer(c)) /\ WF_socketVars(Reader(c))
    /\ \A t \in Requests : WF_socketVars(t \in setting.turns /\ Goroutine(t))
    /\ WF_socketVars(Stopping)
=============================================================================
