----------------------------- MODULE SocketProps -----------------------------
(***************************************************************************)
(* What the WebSocket promises its clients, and itself.                    *)
(***************************************************************************)
EXTENDS Socket

(* A chat request is answered by exactly one done or error frame, after    *)
(* everything else the turn had to say: it is never dropped, however full  *)
(* the channel, unless the turn was cancelled or the connection closed     *)
(* (websocket.go sendJSON, handleChatRequest).                             *)
AnsweredOnce ==
    \A t \in Requests :
        /\ \A i \in 1 .. Len(said[t]) - 1 : said[t][i] \notin {"done", "error"}
        /\ chat[t].pc = "gone" /\ ~Cancelled(t) =>
               said[t] # << >> /\ Last(said[t]) \in {"done", "error"}

(* What a reconnecting client gets, together with what it had, is all that *)
(* is still to be had: every frame of the session among the last the       *)
(* buffer took and not expired was received, is replayed or had been lost  *)
(* to a full channel; none comes twice; and they come in order.  It holds  *)
(* while the session was used on one connection (numbers start anew on the *)
(* next) and by one turn at a time (websocket.go handleChatRequest,        *)
(* wsreplay.go).                                                           *)
Kept(i) == {n \in DOMAIN taken[i] : n > Len(taken[i]) - Capacity /\ ~Expired(taken[i][n])}
OneSource(i, d) == \A n \in DOMAIN taken[i] : chat[taken[i][n].frame.t].conn = d
Replay(c) == IF conn'[c].reply = <<Refusal>> THEN << >> ELSE conn'[c].reply

Completes(c, s) ==
    LET i == stored[s]
        d == Source(c, s)
        had == ToSet(Heard(d, s))
        new == Replay(c)
    IN  i # NoBuffer /\ OneSource(i, d) /\ s \notin crossed =>
            /\ {taken[i][n].frame : n \in Kept(i)} \subseteq had \union ToSet(new) \union dropped
            /\ had \intersect ToSet(new) = {}
            /\ \A m, n \in DOMAIN new : m < n => new[m].q < new[n].q

ReplayCompletes == [][\A c \in Conns, s \in Sessions : Reconnect(c, s) => Completes(c, s)]_socketVars

(* A connection whose network is gone is released: its pumps end, the hub  *)
(* forgets it and its turns leave; and every turn ends.  All but one whose *)
(* read pump was blocked in an error reply on a full channel when the      *)
(* write pump gave up: nobody is left to drain it or to close done.        *)
Released(c) == conn[c].reader = "gone" /\ conn[c].writer = "gone" /\ c \notin hub /\ Live(c) = {}
Stuck(c) == /\ conn[c].writer = "gone" /\ ~Closed(c) /\ Full(c)
            /\ conn[c].reader = "reply" /\ Critical(Head(conn[c].reply))

LostIsReleasedOrStuck ==
    \A c \in Conns :
        /\ conn[c].net = "lost" ~> Released(c) \/ Stuck(c)
        /\ Live(c) # {} ~> Live(c) = {} \/ Stuck(c)

(* "All chat goroutines should derive their context from this so they stop *)
(* when the client disconnects" (websocket.go:182): once the network is    *)
(* gone the turns of the connection end.                                   *)
TurnsEndWithClient == \A c \in Conns : conn[c].net = "lost" ~> Live(c) = {}

(* "monotonically increasing per session" (wsframes.go:55): the frames of  *)
(* a session's buffer carry growing numbers.                               *)
NumbersGrow == \A i \in DOMAIN taken : \A m, n \in DOMAIN taken[i] :
    m < n => taken[i][m].frame.q < taken[i][n].frame.q

(* A client that reconnects finds the buffer of the turn that runs.        *)
LiveTurnIsKept == \A t \in Requests :
    chat[t].pc \in {"run", "send"} => stored[chat[t].session] = chat[t].buf
=============================================================================
