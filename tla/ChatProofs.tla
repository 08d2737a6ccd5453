----------------------------- MODULE ChatProofs -----------------------------
(***************************************************************************)
(* The two ways a chat comes in and is ended.  The dispatcher: what /stop  *)
(* and /panic promise, for any messages, chats, agents, callers and calls  *)
(* (KilledForAReason, StopReachesChat).  And the WebSocket: what a client  *)
(* that sent a request is promised, and one that reconnects, for any       *)
(* connections, requests and sizes of its channels and buffers             *)
(* (AnsweredOnce, ReplayCompletes).                                        *)
(***************************************************************************)
EXTENDS DispatcherProps, SocketProps, NaturalsInduction, WellFoundedInduction, TLAPS

TurnType == [pc : TurnPcs, engine : Engines \union {"none"}, gen : Nat]
CallType == [pc : CallPcs, left : SUBSET Engines, engine : Engines \union {"none"},
             chat : Chats \union {"none"}, observed : BOOLEAN, seen : SUBSET Turns]

(* The types of the variables the properties depend on.                    *)
TypeOK ==
    /\ inFlight \in [Chats -> Turns \union {NoTurn}]
    /\ cancels \subseteq Turns /\ timers \subseteq Turns
    /\ dead \subseteq Turns /\ fired \subseteq Turns
    /\ turn \in [Turns -> TurnType]
    /\ stopGen \in [Engines -> Nat]
    /\ call \in [Callers -> CallType]
    /\ fresh \subseteq Turns /\ swept \subseteq Turns

InEngine(t) == turn[t].pc \in {"captured", "running"}

(* A turn under way has an agent, and captured no generation yet to come.  *)
TurnsOK ==
    \A t \in Turns :
        /\ At(t, "spawned") => Origin[t] = "adapter"
        /\ At(t, "spawned") \/ InFlight(t) => turn[t].engine \in Engines
        /\ InEngine(t) => turn[t].gen <= stopGen[turn[t].engine]

(* Whatever is registered, cancelled or untouched is under way, and a      *)
(* timer is never ahead of its turn.                                       *)
TablesOK ==
    /\ \A t \in cancels \union dead \union fresh : InFlight(t)
    /\ \A t \in timers : InFlight(t) \/ At(t, "done")
    /\ \A k \in Chats : inFlight[k] # NoTurn =>
          /\ InFlight(inFlight[k])
          /\ ChatOf[inFlight[k]] = k
          /\ Origin[inFlight[k]] = "adapter"

(* No untouched turn is cancelled or about to be.                          *)
FreshOK ==
    /\ fresh \intersect dead = {}
    /\ fresh \intersect timers = {}
    /\ \A c \in Callers :
          /\ call[c].pc \in StopPcs => fresh \intersect OfChat(call[c].chat) = {}
          /\ call[c].pc \in PanicPcs => fresh = {}

(* A turn that was in its engine when a panic began never captures again,  *)
(* and outlives its generation once the panic has raised its engine's.     *)
Outdated(t) == InEngine(t) => stopGen[turn[t].engine] # turn[t].gen
Past(t)     == turn[t].pc \in {"captured", "running", "over", "done"}

PanicOK ==
    /\ \A c \in Callers :
          /\ call[c].pc \in PanicPcs => \A t \in call[c].seen :
                Past(t) /\ (turn[t].engine \in call[c].left \/ Outdated(t))
          /\ call[c].pc \in {"sweep", "pause", "wait"} => call[c].left = {}
    /\ \A t \in swept : Past(t) /\ Outdated(t)

(* An engine that a stop has asked has fired the handles of the turns that *)
(* ran for the chat.                                                       *)
StopOK ==
    \A c \in Callers : call[c].pc \in StopPcs =>
        /\ call[c].chat \in Chats
        /\ call[c].pc # "ask" => call[c].left = {}
        /\ \A t \in call[c].seen :
              /\ ChatOf[t] = call[c].chat
              /\ turn[t].pc \in {"running", "over", "done"}
              /\ At(t, "running") => \/ turn[t].engine \in call[c].left
                                     \/ t \in fired /\ call[c].observed

DispInv == TypeOK /\ TurnsOK /\ TablesOK /\ FreshOK /\ PanicOK /\ StopOK

(* A turn that moves keeps its engine and generation, a caller that moves  *)
(* what it works on.                                                       *)
LEMMA TurnMoves ==
    ASSUME turn \in [Turns -> TurnType], NEW t \in Turns, NEW p \in TurnPcs, Move(t, p)
    PROVE  /\ turn' \in [Turns -> TurnType]
           /\ \A u \in Turns : u # t => turn'[u] = turn[u]
           /\ turn'[t].pc = p
           /\ turn'[t].engine = turn[t].engine
           /\ turn'[t].gen = turn[t].gen
<1> DEFINE moved == [turn[t] EXCEPT !.pc = p]
<1>1. /\ moved \in TurnType
      /\ moved.pc = p /\ moved.engine = turn[t].engine /\ moved.gen = turn[t].gen
  BY DEF TurnType
<1>2. turn' = [turn EXCEPT ![t] = moved]
  BY DEF Move, TurnType
<1> HIDE DEF moved
<1> QED
  BY <1>1, <1>2

LEMMA CallMoves ==
    ASSUME call \in [Callers -> CallType], NEW c \in Callers, NEW p \in CallPcs,
           call' = [call EXCEPT ![c].pc = p]
    PROVE  /\ call' \in [Callers -> CallType]
           /\ \A d \in Callers : d # c => call'[d] = call[d]
           /\ call'[c].pc = p
           /\ call'[c].left = call[c].left
           /\ call'[c].chat = call[c].chat
           /\ call'[c].observed = call[c].observed
           /\ call'[c].seen = call[c].seen
<1> DEFINE moved == [call[c] EXCEPT !.pc = p]
<1>1. /\ moved \in CallType
      /\ moved.pc = p /\ moved.left = call[c].left /\ moved.chat = call[c].chat
      /\ moved.observed = call[c].observed /\ moved.seen = call[c].seen
  BY DEF CallType
<1>2. call' = [call EXCEPT ![c] = moved]
  BY DEF CallType
<1> HIDE DEF moved
<1> QED
  BY <1>1, <1>2

LEMMA DispatchKeeps ==
    ASSUME DispInv, NEW t \in Turns, Dispatch(t)
    PROVE  DispInv'
<1>1. PICK p \in {"done", "checked"} : Move(t, p) /\ At(t, "new")
  BY DEF Dispatch
<1>2. /\ turn' \in [Turns -> TurnType]
      /\ \A u \in Turns : u # t => turn'[u] = turn[u]
      /\ turn'[t].pc = p
  <2>1. p \in TurnPcs
    BY DEF TurnPcs
  <2> QED
    BY <1>1, <2>1, TurnMoves DEF DispInv, TypeOK
<1>3. /\ call' \in [Callers -> CallType]
      /\ \A d \in Callers : call'[d] = call[d] \/ call'[d].pc = "route"
  <2>1. CASE UNCHANGED call
    BY <2>1 DEF DispInv, TypeOK
  <2>2. CASE call' = [call EXCEPT ![Loop].pc = "route"]
    <3>1. "route" \in CallPcs
      BY DEF CallPcs
    <3> QED
      BY <2>2, <3>1, LoopAssumption, CallMoves DEF DispInv, TypeOK
  <2> QED
    BY <2>1, <2>2 DEF Dispatch
<1>4. UNCHANGED <<stopGen, fired, dead, fresh, swept, timers, cancels, inFlight>>
  BY DEF Dispatch, engineVars, tableVars
<1>5. TypeOK'
  BY <1>2, <1>3, <1>4 DEF DispInv, TypeOK
<1>6. TurnsOK'
  BY <1>1, <1>2, <1>4 DEF DispInv, TurnsOK, At, InEngine, InFlight
<1>7. TablesOK'
  BY <1>1, <1>2, <1>4 DEF DispInv, TypeOK, TablesOK, At, InFlight
<1>8. FreshOK'
  BY <1>3, <1>4 DEF DispInv, FreshOK, StopPcs, PanicPcs, OfChat
<1>9. \A d \in Callers : call'[d].pc \in PanicPcs \union StopPcs => call'[d] = call[d]
  BY <1>3 DEF PanicPcs, StopPcs
<1>10. PanicOK'
  BY <1>1, <1>2, <1>4, <1>9 DEF DispInv, TypeOK, PanicOK, Past, Outdated, InEngine, PanicPcs,
                              At, CallType
<1>11. StopOK'
  BY <1>1, <1>2, <1>4, <1>9 DEF DispInv, TypeOK, StopOK, At, CallType
<1> QED
  BY <1>5, <1>6, <1>7, <1>8, <1>10, <1>11 DEF DispInv

LEMMA RunKeeps ==
    ASSUME DispInv, NEW t \in Turns, Run(t)
    PROVE  DispInv'
<1>1. \/ At(t, "captured") /\ Move(t, "running")
      \/ At(t, "running") /\ Move(t, "over")
  BY DEF Run
<1>2. /\ turn' \in [Turns -> TurnType]
      /\ \A u \in Turns : u # t => turn'[u] = turn[u]
      /\ \/ turn[t].pc = "captured" /\ turn'[t].pc = "running"
         \/ turn[t].pc = "running" /\ turn'[t].pc = "over"
      /\ turn'[t].engine = turn[t].engine
      /\ turn'[t].gen = turn[t].gen
  <2>1. {"running", "over"} \subseteq TurnPcs
    BY DEF TurnPcs
  <2> QED
    BY <1>1, <2>1, TurnMoves DEF DispInv, TypeOK, At
<1>4. UNCHANGED <<call, stopGen, fired, dead, fresh, swept, timers, cancels, inFlight>>
  BY DEF Run, engineVars, tableVars
<1>5. TypeOK'
  BY <1>2, <1>4 DEF DispInv, TypeOK
<1>6. TurnsOK'
  BY <1>2, <1>4 DEF DispInv, TurnsOK, At, InEngine, InFlight
<1>7. TablesOK'
  BY <1>2, <1>4 DEF DispInv, TypeOK, TablesOK, At, InFlight
<1>8. FreshOK'
  BY <1>4 DEF DispInv, FreshOK, OfChat
<1>9. PanicOK'
  BY <1>2, <1>4 DEF DispInv, TypeOK, PanicOK, Past, Outdated, InEngine, CallType
<1>10. StopOK'
  BY <1>2, <1>4 DEF DispInv, TypeOK, StopOK, At, CallType, StopPcs
<1> QED
  BY <1>5, <1>6, <1>7, <1>8, <1>9, <1>10 DEF DispInv

LEMMA StopChatKeeps ==
    ASSUME DispInv, NEW c \in Callers, StopChat(c)
    PROVE  DispInv'
<1>1. PICK k \in Chats :
         /\ call[c].pc = "idle"
         /\ call' = [call EXCEPT ![c] = [IdleCall EXCEPT !.pc = "ask", !.left = Engines, !.chat = k,
                                                  !.seen = Running \intersect OfChat(k)]]
         /\ fresh' = fresh \ OfChat(k)
  BY TurnsAssumption DEF StopChat, Begin
<1> DEFINE asked == [IdleCall EXCEPT !.pc = "ask", !.left = Engines, !.chat = k,
                                     !.seen = Running \intersect OfChat(k)]
<1>2. /\ asked \in CallType
      /\ asked.pc = "ask" /\ asked.left = Engines /\ asked.chat = k
      /\ asked.seen = Running \intersect OfChat(k)
  BY DEF IdleCall, CallType, CallPcs, StopPcs, Running
<1>3. call' = [call EXCEPT ![c] = asked]
  BY <1>1
<1> HIDE DEF asked
<1>4. /\ call' \in [Callers -> CallType]
      /\ \A d \in Callers : d # c => call'[d] = call[d]
      /\ call'[c].pc = "ask" /\ call'[c].left = Engines /\ call'[c].chat = k
      /\ call'[c].seen = Running \intersect OfChat(k)
  BY <1>2, <1>3 DEF DispInv, TypeOK
<1>5. UNCHANGED <<stopGen, fired, turn, dead, swept, timers, cancels, inFlight>>
  BY DEF StopChat, Begin, engineVars, tableVars
<1>6. TypeOK'
  BY <1>1, <1>4, <1>5 DEF DispInv, TypeOK
<1>7. TurnsOK'
  BY <1>5 DEF DispInv, TurnsOK, At, InEngine, InFlight
<1>8. TablesOK'
  BY <1>1, <1>5 DEF DispInv, TablesOK, At, InFlight
<1>9. FreshOK'
  BY <1>1, <1>4, <1>5 DEF DispInv, FreshOK, OfChat, PanicPcs
<1>10. PanicOK'
  <2>1. \A d \in Callers : call'[d].pc \in PanicPcs => call'[d] = call[d]
    BY <1>4 DEF PanicPcs
  <2> QED
    BY <1>4, <1>5, <2>1 DEF DispInv, PanicOK, Past, Outdated, InEngine, PanicPcs
<1>11. StopOK'
  <2>1. \A t \in Running : turn[t].engine \in Engines /\ turn[t].pc = "running"
    BY DEF DispInv, TurnsOK, InFlight, Running, At
  <2> QED
    BY <1>4, <1>5, <2>1 DEF DispInv, TypeOK, StopOK, Running, OfChat, At, CallType
<1> QED
  BY <1>6, <1>7, <1>8, <1>9, <1>10, <1>11 DEF DispInv

LEMMA AskKeeps ==
    ASSUME DispInv, NEW c \in Callers, Ask(c)
    PROVE  DispInv'
<1>1. PICK e \in call[c].left :
         /\ fired' = fired \union Handles(e, call[c].chat)
         /\ call' = [call EXCEPT ![c].left = @ \ {e},
                                 ![c].observed = @ \/ Handles(e, call[c].chat) # {},
                                 ![c].pc = IF call[c].left = {e} THEN "arm" ELSE "ask"]
  BY DEF Ask
<1>2. call[c] \in CallType /\ call[c].pc = "ask"
  BY DEF DispInv, TypeOK, Ask
<1> DEFINE asked == [call[c] EXCEPT !.left = @ \ {e},
                                    !.observed = @ \/ Handles(e, call[c].chat) # {},
                                    !.pc = IF call[c].left = {e} THEN "arm" ELSE "ask"]
<1>3. /\ asked.pc \in {"ask", "arm"}
      /\ asked.pc = "arm" => asked.left = {}
      /\ asked.left = call[c].left \ {e} /\ asked.chat = call[c].chat
      /\ asked.seen = call[c].seen
      /\ asked.observed <=> (call[c].observed \/ Handles(e, call[c].chat) # {})
  BY <1>2 DEF CallType
<1>4. asked \in CallType
  BY <1>2 DEF CallType, CallPcs, StopPcs
<1>5. call' = [call EXCEPT ![c] = asked]
  BY <1>1, <1>2 DEF CallType
<1> HIDE DEF asked
<1>6. /\ call' \in [Callers -> CallType]
      /\ \A d \in Callers : d # c => call'[d] = call[d]
      /\ call'[c] = asked
  BY <1>4, <1>5 DEF DispInv, TypeOK
<1>7. /\ UNCHANGED <<stopGen, turn, dead, fresh, swept, timers, cancels, inFlight>>
      /\ fired' \subseteq Turns /\ fired \subseteq fired'
  BY <1>1 DEF Ask, Handles, Running, tableVars, DispInv, TypeOK
<1>8. TypeOK'
  BY <1>6, <1>7 DEF DispInv, TypeOK
<1>9. TurnsOK'
  BY <1>7 DEF DispInv, TurnsOK, At, InEngine, InFlight
<1>10. TablesOK'
  BY <1>7 DEF DispInv, TablesOK, At, InFlight
<1>11. FreshOK'
  <2>1. call[c].pc \in StopPcs /\ call'[c].pc \notin PanicPcs
    BY <1>2, <1>3, <1>6 DEF StopPcs, PanicPcs
  <2> QED
    BY <1>3, <1>6, <1>7, <2>1 DEF DispInv, FreshOK, OfChat
<1>12. PanicOK'
  <2>1. \A d \in Callers : call'[d].pc \in PanicPcs => call'[d] = call[d]
    BY <1>3, <1>6 DEF PanicPcs
  <2> QED
    BY <1>7, <2>1 DEF DispInv, PanicOK, Past, Outdated, InEngine, PanicPcs
<1>13. StopOK'
  <2>1. SUFFICES ASSUME NEW d \in Callers, call'[d].pc \in StopPcs
                 PROVE  /\ call'[d].chat \in Chats
                        /\ call'[d].pc # "ask" => call'[d].left = {}
                        /\ \A t \in call'[d].seen :
                              /\ ChatOf[t] = call'[d].chat
                              /\ turn[t].pc \in {"running", "over", "done"}
                              /\ At(t, "running") => \/ turn[t].engine \in call'[d].left
                                                     \/ t \in fired' /\ call'[d].observed
    BY <1>7 DEF StopOK, At
  <2>2. CASE d # c
    BY <2>1, <2>2, <1>6, <1>7 DEF DispInv, StopOK
  <2>3. CASE d = c
    <3>1. call[c].pc \in StopPcs
      BY <1>2 DEF StopPcs
    <3>2. ASSUME NEW t \in call[c].seen, At(t, "running")
          PROVE  turn[t].engine \in call[c].left \ {e} \/ (t \in fired' /\ asked.observed)
      <4>1. t \in Turns /\ ChatOf[t] = call[c].chat
        BY <1>2, <3>1 DEF DispInv, StopOK, CallType
      <4>2. CASE turn[t].engine = e
        BY <4>1, <4>2, <3>2, <1>1, <1>3 DEF Handles, Running, OfChat
      <4>3. CASE turn[t].engine # e
        BY <4>3, <3>1, <3>2, <1>3, <1>7 DEF DispInv, StopOK
      <4> QED
        BY <4>2, <4>3
    <3> QED
      BY <2>3, <3>1, <3>2, <1>3, <1>6 DEF DispInv, StopOK
  <2> QED
    BY <2>2, <2>3
<1> QED
  BY <1>8, <1>9, <1>10, <1>11, <1>12, <1>13 DEF DispInv

LEMMA ArmInFlightKeeps ==
    ASSUME DispInv, NEW c \in Callers, ArmInFlight(c)
    PROVE  DispInv'
<1>1. call[c].pc = "arm" /\ call' = [call EXCEPT ![c].pc = "armed"]
  BY DEF ArmInFlight
<1>2. /\ call' \in [Callers -> CallType]
      /\ \A d \in Callers : d # c => call'[d] = call[d]
      /\ call'[c].pc = "armed"
      /\ call'[c].left = call[c].left
      /\ call'[c].chat = call[c].chat
      /\ call'[c].observed = call[c].observed
      /\ call'[c].seen = call[c].seen
  <2>1. "armed" \in CallPcs
    BY DEF CallPcs, StopPcs
  <2> QED
    BY <1>1, <2>1, CallMoves DEF DispInv, TypeOK
<1>3. UNCHANGED <<stopGen, fired, turn, dead, fresh, swept, cancels, inFlight>>
  BY DEF ArmInFlight, engineVars
<1>4. PICK k \in Chats : /\ k = call[c].chat /\ fresh \intersect OfChat(k) = {}
                         /\ timers' = timers \union ({inFlight[k]} \ {NoTurn})
  BY <1>1 DEF ArmInFlight, DispInv, StopOK, FreshOK, StopPcs
<1>5. \A t \in timers' : t \in timers \/ (t \in Turns /\ InFlight(t) /\ t \notin fresh)
  BY <1>4 DEF DispInv, TypeOK, TablesOK, OfChat
<1>6. TypeOK'
  BY <1>2, <1>3, <1>5 DEF DispInv, TypeOK
<1>7. TurnsOK'
  BY <1>3 DEF DispInv, TurnsOK, At, InEngine, InFlight
<1>8. TablesOK'
  BY <1>3, <1>5 DEF DispInv, TablesOK, At, InFlight
<1>9. FreshOK'
  BY <1>1, <1>2, <1>3, <1>5 DEF DispInv, FreshOK, OfChat, PanicPcs, StopPcs
<1>10. PanicOK'
  <2>1. \A d \in Callers : call'[d].pc \in PanicPcs => call'[d] = call[d]
    BY <1>2 DEF PanicPcs
  <2> QED
    BY <1>3, <2>1 DEF DispInv, PanicOK, Past, Outdated, InEngine, PanicPcs
<1>11. StopOK'
  BY <1>1, <1>2, <1>3 DEF DispInv, StopOK, At, StopPcs
<1> QED
  BY <1>6, <1>7, <1>8, <1>9, <1>10, <1>11 DEF DispInv
LEMMA PanicKeeps ==
    ASSUME DispInv, NEW c \in Callers, Panic(c)
    PROVE  DispInv'
<1> DEFINE began == [IdleCall EXCEPT !.pc = "stop", !.left = Engines,
                                     !.seen = {t \in Turns : turn[t].pc \in {"captured", "running"}}]
<1>1. /\ began \in CallType
      /\ began.pc = "stop" /\ began.left = Engines
      /\ began.seen = {t \in Turns : turn[t].pc \in {"captured", "running"}}
  BY DEF IdleCall, CallType, CallPcs, PanicPcs
<1>2. call' = [call EXCEPT ![c] = began]
  BY DEF Panic, Begin, NextPhase
<1> HIDE DEF began
<1>3. /\ call' \in [Callers -> CallType]
      /\ \A d \in Callers : d # c => call'[d] = call[d]
      /\ call'[c] = began
  BY <1>1, <1>2 DEF DispInv, TypeOK
<1>4. /\ UNCHANGED <<stopGen, fired, turn, dead, swept, timers, cancels, inFlight>>
      /\ fresh' = {}
  BY DEF Panic, engineVars, tableVars
<1>5. TypeOK'
  BY <1>3, <1>4 DEF DispInv, TypeOK
<1>6. TurnsOK'
  BY <1>4 DEF DispInv, TurnsOK, At, InEngine, InFlight
<1>7. TablesOK'
  BY <1>4 DEF DispInv, TablesOK, At, InFlight
<1>8. FreshOK'
  BY <1>4 DEF FreshOK
<1>9. PanicOK'
  <2>1. \A t \in began.seen : Past(t) /\ turn[t].engine \in Engines
    BY <1>1 DEF DispInv, TurnsOK, InFlight, Past
  <2> QED
    BY <1>1, <1>3, <1>4, <2>1 DEF DispInv, PanicOK, Past, Outdated, InEngine, PanicPcs
<1>10. StopOK'
  <2>1. \A d \in Callers : call'[d].pc \in StopPcs => call'[d] = call[d]
    BY <1>1, <1>3 DEF StopPcs
  <2> QED
    BY <1>4, <2>1 DEF DispInv, StopOK, At
<1> QED
  BY <1>5, <1>6, <1>7, <1>8, <1>9, <1>10 DEF DispInv

LEMMA RaiseGenerationKeeps ==
    ASSUME DispInv, NEW c \in Callers, RaiseGeneration(c)
    PROVE  DispInv'
<1>1. PICK e \in call[c].left :
         /\ stopGen' = [stopGen EXCEPT ![e] = @ + 1]
         /\ call' = [call EXCEPT ![c].pc = "fire", ![c].engine = e, ![c].left = @ \ {e}]
  BY DEF RaiseGeneration
<1> DEFINE told == [call[c] EXCEPT !.pc = "fire", !.engine = e, !.left = @ \ {e}]
<1>2. call[c] \in CallType /\ call[c].pc = "stop" /\ e \in Engines
  BY DEF DispInv, TypeOK, RaiseGeneration, CallType
<1>3. /\ told \in CallType
      /\ told.pc = "fire" /\ told.left = call[c].left \ {e} /\ told.seen = call[c].seen
  BY <1>2 DEF CallType, CallPcs, PanicPcs
<1>4. call' = [call EXCEPT ![c] = told]
  BY <1>1, <1>2 DEF CallType
<1> HIDE DEF told
<1>5. /\ call' \in [Callers -> CallType]
      /\ \A d \in Callers : d # c => call'[d] = call[d]
      /\ call'[c] = told
  BY <1>3, <1>4 DEF DispInv, TypeOK
<1>6. /\ stopGen \in [Engines -> Nat] /\ stopGen' \in [Engines -> Nat]
      /\ stopGen'[e] = stopGen[e] + 1
      /\ \A f \in Engines : f # e => stopGen'[f] = stopGen[f]
  BY <1>1, <1>2 DEF DispInv, TypeOK
<1>7. UNCHANGED <<fired, turn, dead, fresh, swept, timers, cancels, inFlight>>
  BY DEF RaiseGeneration, tableVars
<1>8. \A t \in Turns : InEngine(t) =>
         /\ turn[t].engine \in Engines /\ turn[t].gen \in Nat
         /\ turn[t].gen <= stopGen[turn[t].engine]
  BY DEF DispInv, TypeOK, TurnType, TurnsOK, InEngine, InFlight
<1>9. TypeOK'
  BY <1>5, <1>6, <1>7 DEF DispInv, TypeOK
<1>10. TurnsOK'
  BY <1>6, <1>7, <1>8 DEF DispInv, TurnsOK, At, InEngine, InFlight
<1>11. TablesOK'
  BY <1>7 DEF DispInv, TablesOK, At, InFlight
<1>12. FreshOK'
  <2>1. call[c].pc \in PanicPcs /\ call'[c].pc \notin StopPcs
    BY <1>2, <1>3, <1>5 DEF StopPcs, PanicPcs
  <2> QED
    BY <1>5, <1>7, <2>1 DEF DispInv, FreshOK, OfChat
<1>13. \A t \in Turns : Outdated(t) \/ turn[t].engine = e => Outdated(t)'
  BY <1>6, <1>7, <1>8 DEF Outdated, InEngine
<1>14. PanicOK'
  <2>1. \A t \in swept : (Past(t) /\ Outdated(t))'
    BY <1>7, <1>13 DEF DispInv, TypeOK, PanicOK, Past
  <2>2. SUFFICES ASSUME NEW d \in Callers
                 PROVE  /\ call'[d].pc \in PanicPcs => \A t \in call'[d].seen :
                              Past(t)' /\ (turn[t].engine \in call'[d].left \/ Outdated(t)')
                        /\ call'[d].pc \in {"sweep", "pause", "wait"} => call'[d].left = {}
    BY <1>7, <2>1 DEF PanicOK
  <2>3. call[d].seen \subseteq Turns
    BY DEF DispInv, TypeOK, CallType
  <2>4. CASE d # c
    BY <2>3, <2>4, <1>5, <1>7, <1>13 DEF DispInv, PanicOK, Past
  <2>5. CASE d = c
    <3>1. call[c].pc \in PanicPcs
      BY <1>2 DEF PanicPcs
    <3> QED
      BY <3>1, <2>3, <2>5, <1>3, <1>5, <1>7, <1>13 DEF DispInv, PanicOK, Past
  <2> QED
    BY <2>4, <2>5
<1>15. StopOK'
  <2>1. \A d \in Callers : call'[d].pc \in StopPcs => call'[d] = call[d]
    BY <1>3, <1>5 DEF StopPcs
  <2> QED
    BY <1>7, <2>1 DEF DispInv, StopOK, At
<1> QED
  BY <1>9, <1>10, <1>11, <1>12, <1>14, <1>15 DEF DispInv

LEMMA FireHandlesKeeps ==
    ASSUME DispInv, NEW c \in Callers, FireHandles(c)
    PROVE  DispInv'
<1> DEFINE phase == IF call[c].left = {} THEN "sweep" ELSE "stop"
           told  == [call[c] EXCEPT !.engine = "none", !.pc = phase]
<1>1. call[c] \in CallType /\ call[c].pc = "fire" /\ call[c].pc \in PanicPcs
  BY DEF DispInv, TypeOK, FireHandles, PanicPcs
<1>2. /\ told \in CallType
      /\ told.pc \in {"stop", "sweep"} /\ (told.pc = "sweep" => told.left = {})
      /\ told.left = call[c].left /\ told.seen = call[c].seen
  BY <1>1 DEF CallType, CallPcs, PanicPcs
<1>3. call' = [call EXCEPT ![c] = told]
  BY DEF FireHandles, NextPhase
<1> HIDE DEF told
<1>4. /\ call' \in [Callers -> CallType]
      /\ \A d \in Callers : d # c => call'[d] = call[d]
      /\ call'[c] = told
  BY <1>2, <1>3 DEF DispInv, TypeOK
<1>5. /\ UNCHANGED <<stopGen, turn, dead, fresh, swept, timers, cancels, inFlight>>
      /\ fired \subseteq fired' /\ fired' \subseteq Turns
  BY DEF FireHandles, tableVars, Running, DispInv, TypeOK
<1>6. TypeOK'
  BY <1>4, <1>5 DEF DispInv, TypeOK
<1>7. TurnsOK'
  BY <1>5 DEF DispInv, TurnsOK, At, InEngine, InFlight
<1>8. TablesOK'
  BY <1>5 DEF DispInv, TablesOK, At, InFlight
<1>9. \A d \in Callers : call'[d].pc \in StopPcs => call'[d] = call[d]
  BY <1>2, <1>4 DEF StopPcs
<1>10. FreshOK'
  BY <1>1, <1>4, <1>5, <1>9 DEF DispInv, FreshOK, OfChat
<1>11. PanicOK'
  BY <1>1, <1>2, <1>4, <1>5 DEF DispInv, PanicOK, Past, Outdated, InEngine
<1>12. StopOK'
  BY <1>5, <1>9 DEF DispInv, StopOK, At
<1> QED
  BY <1>6, <1>7, <1>8, <1>10, <1>11, <1>12 DEF DispInv

LEMMA SweepKeeps ==
    ASSUME DispInv, NEW c \in Callers, Sweep(c)
    PROVE  DispInv'
<1>1. call[c].pc = "sweep" /\ call[c].pc \in PanicPcs /\ call[c].left = {}
  BY DEF DispInv, PanicOK, Sweep, PanicPcs
<1>2. /\ call' \in [Callers -> CallType]
      /\ \A d \in Callers : d # c => call'[d] = call[d]
      /\ call'[c].pc = "pause"
      /\ call'[c].left = call[c].left
      /\ call'[c].seen = call[c].seen
  <2>1. "pause" \in CallPcs /\ call' = [call EXCEPT ![c].pc = "pause"]
    BY DEF CallPcs, PanicPcs, Sweep, NextPhase
  <2> QED
    BY <2>1, CallMoves DEF DispInv, TypeOK
<1>3. /\ UNCHANGED <<stopGen, fired, turn, fresh, timers, cancels>>
      /\ inFlight' = [k \in Chats |-> NoTurn]
      /\ \A t \in dead' : t \in dead \/ (t \in Turns /\ InFlight(t))
      /\ \A t \in swept' : t \in swept \/ (t \in Turns /\ t \in call[c].seen)
  BY DEF Sweep, engineVars, DispInv, TypeOK, TablesOK
<1>4. TypeOK'
  BY <1>2, <1>3 DEF DispInv, TypeOK
<1>5. TurnsOK'
  BY <1>3 DEF DispInv, TurnsOK, At, InEngine, InFlight
<1>6. TablesOK'
  BY <1>3 DEF DispInv, TablesOK, At, InFlight
<1>7. \A d \in Callers : call'[d].pc \in StopPcs => call'[d] = call[d]
  BY <1>2 DEF StopPcs
<1>8. FreshOK'
  BY <1>1, <1>3 DEF DispInv, FreshOK, OfChat
<1>9. PanicOK'
  BY <1>1, <1>2, <1>3 DEF DispInv, PanicOK, Past, Outdated, InEngine
<1>10. StopOK'
  BY <1>3, <1>7 DEF DispInv, StopOK, At
<1> QED
  BY <1>4, <1>5, <1>6, <1>8, <1>9, <1>10 DEF DispInv

LEMMA PauseKeeps ==
    ASSUME DispInv, NEW c \in Callers, Pause(c)
    PROVE  DispInv'
<1>1. call[c].pc = "pause" /\ call[c].pc \in PanicPcs /\ call[c].left = {}
  BY DEF DispInv, PanicOK, Pause, PanicPcs
<1>2. /\ call' \in [Callers -> CallType]
      /\ \A d \in Callers : d # c => call'[d] = call[d]
      /\ \/ call'[c] = IdleCall
         \/ /\ call'[c].pc = "wait"
            /\ call'[c].left = call[c].left
            /\ call'[c].seen = call[c].seen
  <2>1. CASE call' = [call EXCEPT ![c] = IdleCall]
    <3>1. IdleCall \in CallType
      BY DEF IdleCall, CallType, CallPcs
    <3> QED
      BY <2>1, <3>1 DEF DispInv, TypeOK
  <2>2. CASE call' = [call EXCEPT ![c].pc = "wait"]
    <3>1. "wait" \in CallPcs
      BY DEF CallPcs, PanicPcs
    <3> QED
      BY <2>2, <3>1, CallMoves DEF DispInv, TypeOK
  <2> QED
    BY <2>1, <2>2 DEF Pause
<1>3. UNCHANGED <<stopGen, fired, turn, dead, fresh, swept, timers, cancels, inFlight>>
  BY DEF Pause, engineVars, tableVars
<1>4. TypeOK'
  BY <1>2, <1>3 DEF DispInv, TypeOK
<1>5. TurnsOK'
  BY <1>3 DEF DispInv, TurnsOK, At, InEngine, InFlight
<1>6. TablesOK'
  BY <1>3 DEF DispInv, TablesOK, At, InFlight
<1>7. \A d \in Callers : call'[d].pc \in StopPcs => call'[d] = call[d]
  BY <1>2 DEF StopPcs, IdleCall
<1>8. FreshOK'
  BY <1>1, <1>3 DEF DispInv, FreshOK, OfChat
<1>9. PanicOK'
  <2>1. call'[c].pc \in PanicPcs => /\ call'[c].left = call[c].left
                                    /\ call'[c].seen = call[c].seen
    BY <1>2 DEF IdleCall, PanicPcs
  <2>2. call'[c].pc \in PanicPcs \/ call'[c].pc = "idle"
    BY <1>2 DEF IdleCall, PanicPcs
  <2> QED
    BY <1>1, <1>2, <1>3, <2>1, <2>2 DEF DispInv, PanicOK, Past, Outdated, InEngine
<1>10. StopOK'
  BY <1>3, <1>7 DEF DispInv, StopOK, At
<1> QED
  BY <1>4, <1>5, <1>6, <1>8, <1>9, <1>10 DEF DispInv

LEMMA SpawnKeeps ==
    ASSUME DispInv, NEW t \in Turns, Spawn(t)
    PROVE  DispInv'
<1>1. /\ turn' \in [Turns -> TurnType]
      /\ \A u \in Turns : u # t => turn'[u] = turn[u]
      /\ At(t, "checked") /\ Origin[t] = "adapter"
      /\ turn'[t].pc = "spawned" /\ turn'[t].engine \in Engines
  BY DEF Spawn, At, DispInv, TypeOK, TurnType, TurnPcs
<1>2. /\ call' \in [Callers -> CallType]
      /\ \A c \in Callers : call'[c] = call[c] \/ call'[c] = IdleCall
  <2>1. IdleCall \in CallType
    BY DEF IdleCall, CallType, CallPcs
  <2> QED
    BY <2>1, LoopAssumption DEF Spawn, DispInv, TypeOK
<1>3. UNCHANGED <<stopGen, fired, dead, fresh, swept, timers, cancels, inFlight>>
  BY DEF Spawn, engineVars, tableVars
<1>4. \A c \in Callers : call'[c].pc \in PanicPcs \union StopPcs => call'[c] = call[c]
  BY <1>2 DEF PanicPcs, StopPcs, IdleCall
<1>5. TypeOK'
  BY <1>1, <1>2, <1>3 DEF DispInv, TypeOK
<1>6. TurnsOK'
  BY <1>1, <1>3 DEF DispInv, TurnsOK, At, InEngine, InFlight
<1>7. TablesOK'
  BY <1>1, <1>3 DEF DispInv, TypeOK, TablesOK, At, InFlight
<1>8. FreshOK'
  BY <1>3, <1>4 DEF DispInv, FreshOK, OfChat
<1>9. PanicOK'
  BY <1>1, <1>3, <1>4 DEF DispInv, TypeOK, PanicOK, Past, Outdated, InEngine, PanicPcs,
                              At, CallType
<1>10. StopOK'
  BY <1>1, <1>3, <1>4 DEF DispInv, TypeOK, StopOK, At, CallType
<1> QED
  BY <1>5, <1>6, <1>7, <1>8, <1>9, <1>10 DEF DispInv

LEMMA EnterKeeps ==
    ASSUME DispInv, NEW t \in Turns, Enter(t)
    PROVE  DispInv'
<1>1. /\ turn' \in [Turns -> TurnType]
      /\ \A u \in Turns : u # t => turn'[u] = turn[u]
      /\ At(t, "spawned") /\ turn'[t].pc = "entered" /\ turn'[t].engine = turn[t].engine
  <2>1. "entered" \in TurnPcs /\ Move(t, "entered") /\ At(t, "spawned")
    BY DEF TurnPcs, Enter
  <2> QED
    BY <2>1, TurnMoves DEF DispInv, TypeOK
<1>2. /\ UNCHANGED <<call, stopGen, fired, dead, swept, timers, cancels>>
      /\ inFlight' = [inFlight EXCEPT ![ChatOf[t]] = t]
      /\ Began(t)
  BY DEF Enter, engineVars
<1>3. TypeOK'
  BY <1>1, <1>2, TurnsAssumption DEF DispInv, TypeOK, Began
<1>4. TurnsOK'
  BY <1>1, <1>2 DEF DispInv, TurnsOK, At, InEngine, InFlight
<1>5. TablesOK'
  BY <1>1, <1>2, TurnsAssumption DEF DispInv, TypeOK, TurnsOK, TablesOK, Began, At, InFlight
<1>6. FreshOK'
  <2>1. t \notin dead /\ t \notin timers
    BY <1>1 DEF DispInv, TablesOK, At, InFlight
  <2> QED
    BY <1>2, <2>1 DEF DispInv, FreshOK, Began, UnderPanic, UnderStop, OfChat
<1>7. PanicOK'
  BY <1>1, <1>2 DEF DispInv, TypeOK, PanicOK, Past, Outdated, InEngine, At, CallType
<1>8. StopOK'
  BY <1>1, <1>2 DEF DispInv, TypeOK, StopOK, StopPcs, At, CallType
<1> QED
  BY <1>3, <1>4, <1>5, <1>6, <1>7, <1>8 DEF DispInv

LEMMA ArriveKeeps ==
    ASSUME DispInv, NEW t \in Turns, Arrive(t)
    PROVE  DispInv'
<1>1. PICK p \in {"done", "checked"} : Move(t, p) /\ At(t, "new")
  BY DEF Arrive
<1>2. /\ turn' \in [Turns -> TurnType]
      /\ \A u \in Turns : u # t => turn'[u] = turn[u]
      /\ turn'[t].pc = p
  <2>1. p \in TurnPcs
    BY DEF TurnPcs
  <2> QED
    BY <1>1, <2>1, TurnMoves DEF DispInv, TypeOK
<1>3. UNCHANGED <<call, stopGen, fired, dead, fresh, swept, timers, cancels, inFlight>>
  BY DEF Arrive, engineVars, tableVars
<1>4. TypeOK'
  BY <1>2, <1>3 DEF DispInv, TypeOK
<1>5. TurnsOK'
  BY <1>1, <1>2, <1>3 DEF DispInv, TurnsOK, At, InEngine, InFlight
<1>6. TablesOK'
  BY <1>1, <1>2, <1>3 DEF DispInv, TypeOK, TablesOK, At, InFlight
<1>7. FreshOK'
  BY <1>3 DEF DispInv, FreshOK, OfChat
<1>8. PanicOK'
  BY <1>1, <1>2, <1>3 DEF DispInv, TypeOK, PanicOK, Past, Outdated, InEngine, At, CallType
<1>9. StopOK'
  BY <1>1, <1>2, <1>3 DEF DispInv, TypeOK, StopOK, StopPcs, At, CallType
<1> QED
  BY <1>4, <1>5, <1>6, <1>7, <1>8, <1>9 DEF DispInv

LEMMA RegisterChatCancelKeeps ==
    ASSUME DispInv, NEW t \in Turns, RegisterChatCancel(t)
    PROVE  DispInv'
<1>1. /\ turn' \in [Turns -> TurnType]
      /\ \A u \in Turns : u # t => turn'[u] = turn[u]
      /\ At(t, "checked") /\ turn'[t].pc = "entered" /\ turn'[t].engine \in Engines
  BY DEF RegisterChatCancel, At, DispInv, TypeOK, TurnType, TurnPcs
<1>2. /\ UNCHANGED <<call, stopGen, fired, dead, swept, timers, inFlight>>
      /\ cancels' = cancels \union {t}
      /\ Began(t)
  BY DEF RegisterChatCancel, engineVars
<1>3. TypeOK'
  BY <1>1, <1>2 DEF DispInv, TypeOK, Began
<1>4. TurnsOK'
  BY <1>1, <1>2 DEF DispInv, TurnsOK, At, InEngine, InFlight
<1>5. TablesOK'
  BY <1>1, <1>2 DEF DispInv, TypeOK, TablesOK, Began, At, InFlight
<1>6. FreshOK'
  <2>1. t \notin dead /\ t \notin timers
    BY <1>1 DEF DispInv, TablesOK, At, InFlight
  <2> QED
    BY <1>2, <2>1 DEF DispInv, FreshOK, Began, UnderPanic, UnderStop, OfChat
<1>7. PanicOK'
  BY <1>1, <1>2 DEF DispInv, TypeOK, PanicOK, Past, Outdated, InEngine, At, CallType
<1>8. StopOK'
  BY <1>1, <1>2 DEF DispInv, TypeOK, StopOK, StopPcs, At, CallType
<1> QED
  BY <1>3, <1>4, <1>5, <1>6, <1>7, <1>8 DEF DispInv

LEMMA TickKeeps ==
    ASSUME DispInv, NEW t \in Turns, Tick(t)
    PROVE  DispInv'
<1>1. /\ turn' \in [Turns -> TurnType]
      /\ \A u \in Turns : u # t => turn'[u] = turn[u]
      /\ At(t, "new") /\ turn'[t].pc = "entered" /\ turn'[t].engine \in Engines
  BY DEF Tick, At, DispInv, TypeOK, TurnType, TurnPcs
<1>2. UNCHANGED <<call, stopGen, fired, dead, fresh, swept, timers, cancels, inFlight>>
  BY DEF Tick, engineVars, tableVars
<1>3. TypeOK'
  BY <1>1, <1>2 DEF DispInv, TypeOK
<1>4. TurnsOK'
  BY <1>1, <1>2 DEF DispInv, TurnsOK, At, InEngine, InFlight
<1>5. TablesOK'
  BY <1>1, <1>2 DEF DispInv, TypeOK, TablesOK, At, InFlight
<1>6. FreshOK'
  <2>1. t \notin fresh
    BY <1>1 DEF DispInv, TablesOK, At, InFlight
  <2> QED
    BY <1>2, <2>1 DEF DispInv, FreshOK, OfChat
<1>7. PanicOK'
  BY <1>1, <1>2 DEF DispInv, TypeOK, PanicOK, Past, Outdated, InEngine, At, CallType
<1>8. StopOK'
  BY <1>1, <1>2 DEF DispInv, TypeOK, StopOK, StopPcs, At, CallType
<1> QED
  BY <1>3, <1>4, <1>5, <1>6, <1>7, <1>8 DEF DispInv

LEMMA CaptureKeeps ==
    ASSUME DispInv, NEW t \in Turns, Capture(t)
    PROVE  DispInv'
<1>1. At(t, "entered") /\ turn[t].engine \in Engines /\ turn[t] \in TurnType
  BY DEF Capture, DispInv, TypeOK, TurnsOK, At, InFlight
<1>2. /\ turn' \in [Turns -> TurnType]
      /\ \A u \in Turns : u # t => turn'[u] = turn[u]
      /\ turn'[t].pc = "captured" /\ turn'[t].engine = turn[t].engine
      /\ turn'[t].gen = stopGen[turn[t].engine] /\ turn'[t].gen \in Nat
  <2> DEFINE caught == [turn[t] EXCEPT !.pc = "captured", !.gen = stopGen[turn[t].engine]]
  <2>1. /\ caught \in TurnType
        /\ caught.pc = "captured" /\ caught.engine = turn[t].engine
        /\ caught.gen = stopGen[turn[t].engine] /\ caught.gen \in Nat
    BY <1>1 DEF DispInv, TypeOK, TurnType, TurnPcs
  <2>2. turn' = [turn EXCEPT ![t] = caught]
    BY DEF Capture
  <2> HIDE DEF caught
  <2> QED
    BY <2>1, <2>2 DEF DispInv, TypeOK
<1>3. UNCHANGED <<call, stopGen, fired, dead, fresh, swept, timers, cancels, inFlight>>
  BY DEF Capture, engineVars, tableVars
<1>4. TypeOK'
  BY <1>2, <1>3 DEF DispInv, TypeOK
<1>5. TurnsOK'
  BY <1>1, <1>2, <1>3 DEF DispInv, TurnsOK, At, InEngine, InFlight
<1>6. TablesOK'
  BY <1>1, <1>2, <1>3 DEF DispInv, TypeOK, TablesOK, At, InFlight
<1>7. FreshOK'
  BY <1>3 DEF DispInv, FreshOK, OfChat
<1>8. PanicOK'
  BY <1>1, <1>2, <1>3 DEF DispInv, TypeOK, PanicOK, Past, Outdated, InEngine, At, CallType
<1>9. StopOK'
  BY <1>1, <1>2, <1>3 DEF DispInv, TypeOK, StopOK, StopPcs, At, CallType
<1> QED
  BY <1>4, <1>5, <1>6, <1>7, <1>8, <1>9 DEF DispInv

LEMMA LeaveKeeps ==
    ASSUME DispInv, NEW t \in Turns, Leave(t)
    PROVE  DispInv'
<1>1. /\ turn' \in [Turns -> TurnType]
      /\ \A u \in Turns : u # t => turn'[u] = turn[u]
      /\ At(t, "over") /\ turn'[t].pc = "done"
  BY DEF Leave, NewTurn, At, DispInv, TypeOK, TurnType, TurnPcs
<1>2. /\ UNCHANGED <<call, stopGen, timers>>
      /\ cancels' = cancels \ {t} /\ dead' = dead \ {t} /\ fired' = fired \ {t}
      /\ fresh' = fresh \ {t} /\ swept' = swept \ {t}
  BY DEF Leave
<1>3. /\ inFlight' \in [Chats -> Turns \union {NoTurn}]
      /\ \A k \in Chats : inFlight'[k] # NoTurn => inFlight'[k] = inFlight[k] /\ inFlight[k] # t
  <2>1. CASE Origin[t] = "adapter"
    BY <2>1, TurnsAssumption DEF Leave, Freed, DispInv, TypeOK, TablesOK
  <2>2. CASE Origin[t] # "adapter"
    BY <2>2 DEF Leave, DispInv, TypeOK, TablesOK
  <2> QED
    BY <2>1, <2>2
<1>4. TypeOK'
  BY <1>1, <1>2, <1>3 DEF DispInv, TypeOK
<1>5. TurnsOK'
  BY <1>1, <1>2 DEF DispInv, TurnsOK, At, InEngine, InFlight
<1>6. TablesOK'
  BY <1>1, <1>2, <1>3 DEF DispInv, TypeOK, TablesOK, At, InFlight
<1>7. FreshOK'
  BY <1>2 DEF DispInv, FreshOK, OfChat
<1>8. PanicOK'
  BY <1>1, <1>2 DEF DispInv, TypeOK, PanicOK, Past, Outdated, InEngine, At, CallType
<1>9. StopOK'
  BY <1>1, <1>2 DEF DispInv, TypeOK, StopOK, StopPcs, At, CallType
<1> QED
  BY <1>4, <1>5, <1>6, <1>7, <1>8, <1>9 DEF DispInv

LEMMA HardKillKeeps ==
    ASSUME DispInv, NEW t \in Turns, HardKill(t)
    PROVE  DispInv'
<1>1. /\ UNCHANGED <<call, turn, stopGen, fired, swept, fresh, cancels, inFlight>>
      /\ timers' = timers \ {t}
      /\ dead' \in {dead, dead \union {t}}
      /\ t \notin fresh
      /\ t \in dead' => InFlight(t)
  BY TurnsAssumption DEF HardKill, Victims, engineVars, DispInv, TypeOK, TablesOK, FreshOK
<1>2. TypeOK'
  BY <1>1 DEF DispInv, TypeOK
<1>3. TurnsOK'
  BY <1>1 DEF DispInv, TurnsOK, At, InEngine, InFlight
<1>4. TablesOK'
  BY <1>1 DEF DispInv, TypeOK, TablesOK, At, InFlight
<1>5. FreshOK'
  BY <1>1 DEF DispInv, FreshOK, OfChat
<1>6. PanicOK'
  BY <1>1 DEF DispInv, PanicOK, Past, Outdated, InEngine
<1>7. StopOK'
  BY <1>1 DEF DispInv, StopOK, At
<1> QED
  BY <1>2, <1>3, <1>4, <1>5, <1>6, <1>7 DEF DispInv

LEMMA ArmCancelsKeeps ==
    ASSUME DispInv, NEW c \in Callers, ArmCancels(c)
    PROVE  DispInv'
<1>1. /\ UNCHANGED <<turn, stopGen, fired, dead, fresh, swept, cancels, inFlight>>
      /\ call' = [call EXCEPT ![c] = IdleCall]
      /\ \A t \in timers' : t \in timers \/ (t \in Turns /\ InFlight(t) /\ t \notin fresh)
  BY DEF ArmCancels, Fallbacks, engineVars, StopPcs, DispInv, TypeOK, TablesOK, FreshOK
<1>2. TypeOK'
  <2>1. IdleCall \in CallType
    BY DEF IdleCall, CallType, CallPcs
  <2> QED
    BY <1>1, <2>1 DEF DispInv, TypeOK
<1>3. \A d \in Callers : call'[d].pc \in PanicPcs \union StopPcs => call'[d] = call[d]
  BY <1>1 DEF DispInv, TypeOK, PanicPcs, StopPcs, IdleCall
<1>4. TurnsOK'
  BY <1>1 DEF DispInv, TurnsOK, At, InEngine, InFlight
<1>5. TablesOK'
  BY <1>1 DEF DispInv, TypeOK, TablesOK, At, InFlight
<1>6. FreshOK'
  BY <1>1, <1>3 DEF DispInv, FreshOK, OfChat
<1>7. PanicOK'
  BY <1>1, <1>3 DEF DispInv, PanicOK, Past, Outdated, InEngine, PanicPcs
<1>8. StopOK'
  BY <1>1, <1>3 DEF DispInv, StopOK, At
<1> QED
  BY <1>2, <1>4, <1>5, <1>6, <1>7, <1>8 DEF DispInv

LEMMA PausedKeeps ==
    ASSUME DispInv, NEW c \in Callers, Paused(c)
    PROVE  DispInv'
<1>1. UNCHANGED <<turn, stopGen, fired, dead, fresh, swept, tableVars>>
  BY DEF Paused, engineVars
<1>2. /\ call' \in [Callers -> CallType]
      /\ \A d \in Callers : call'[d].pc \in PanicPcs \union StopPcs => call'[d] = call[d]
  <2>1. call' = [call EXCEPT ![c] = IdleCall]
    BY DEF Paused
  <2>2. IdleCall \in CallType
    BY DEF IdleCall, CallType, CallPcs
  <2> QED
    BY <2>1, <2>2 DEF DispInv, TypeOK, PanicPcs, StopPcs, IdleCall
<1>3. TypeOK'
  BY <1>1, <1>2 DEF DispInv, TypeOK, tableVars
<1>4. TurnsOK'
  BY <1>1 DEF DispInv, TurnsOK, At, InEngine, InFlight
<1>5. TablesOK'
  BY <1>1 DEF DispInv, TypeOK, TablesOK, At, InFlight, tableVars
<1>6. FreshOK'
  BY <1>1, <1>2 DEF DispInv, FreshOK, OfChat, tableVars
<1>7. PanicOK'
  BY <1>1, <1>2 DEF DispInv, PanicOK, Past, Outdated, InEngine, PanicPcs
<1>8. StopOK'
  BY <1>1, <1>2 DEF DispInv, StopOK, At
<1> QED
  BY <1>3, <1>4, <1>5, <1>6, <1>7, <1>8 DEF DispInv

LEMMA ResumeKeeps ==
    ASSUME DispInv, NEW c \in Callers, Resume(c)
    PROVE  DispInv'
<1>1. UNCHANGED <<turn, stopGen, fired, dead, fresh, swept, tableVars>>
  BY DEF Resume, Begin, engineVars
<1>2. /\ call' \in [Callers -> CallType]
      /\ \A d \in Callers : call'[d].pc \in PanicPcs \union StopPcs => call'[d] = call[d]
  <2>1. call' = [call EXCEPT ![c] = [IdleCall EXCEPT !.pc = "unpause"]]
    BY DEF Resume, Begin
  <2>2. [IdleCall EXCEPT !.pc = "unpause"] \in CallType
    BY DEF IdleCall, CallType, CallPcs
  <2> QED
    BY <2>1, <2>2 DEF DispInv, TypeOK, PanicPcs, StopPcs, IdleCall
<1>3. TypeOK'
  BY <1>1, <1>2 DEF DispInv, TypeOK, tableVars
<1>4. TurnsOK'
  BY <1>1 DEF DispInv, TurnsOK, At, InEngine, InFlight
<1>5. TablesOK'
  BY <1>1 DEF DispInv, TypeOK, TablesOK, At, InFlight, tableVars
<1>6. FreshOK'
  BY <1>1, <1>2 DEF DispInv, FreshOK, OfChat, tableVars
<1>7. PanicOK'
  BY <1>1, <1>2 DEF DispInv, PanicOK, Past, Outdated, InEngine, PanicPcs
<1>8. StopOK'
  BY <1>1, <1>2 DEF DispInv, StopOK, At
<1> QED
  BY <1>3, <1>4, <1>5, <1>6, <1>7, <1>8 DEF DispInv

LEMMA UnpauseKeeps ==
    ASSUME DispInv, NEW c \in Callers, Unpause(c)
    PROVE  DispInv'
<1>1. UNCHANGED <<turn, stopGen, fired, dead, fresh, swept, tableVars>>
  BY DEF Unpause, engineVars
<1>2. /\ call' \in [Callers -> CallType]
      /\ \A d \in Callers : call'[d].pc \in PanicPcs \union StopPcs => call'[d] = call[d]
  <2>1. call' = [call EXCEPT ![c] = IdleCall]
    BY DEF Unpause
  <2>2. IdleCall \in CallType
    BY DEF IdleCall, CallType, CallPcs
  <2> QED
    BY <2>1, <2>2 DEF DispInv, TypeOK, PanicPcs, StopPcs, IdleCall
<1>3. TypeOK'
  BY <1>1, <1>2 DEF DispInv, TypeOK, tableVars
<1>4. TurnsOK'
  BY <1>1 DEF DispInv, TurnsOK, At, InEngine, InFlight
<1>5. TablesOK'
  BY <1>1 DEF DispInv, TypeOK, TablesOK, At, InFlight, tableVars
<1>6. FreshOK'
  BY <1>1, <1>2 DEF DispInv, FreshOK, OfChat, tableVars
<1>7. PanicOK'
  BY <1>1, <1>2 DEF DispInv, PanicOK, Past, Outdated, InEngine, PanicPcs
<1>8. StopOK'
  BY <1>1, <1>2 DEF DispInv, StopOK, At
<1> QED
  BY <1>3, <1>4, <1>5, <1>6, <1>7, <1>8 DEF DispInv

LEMMA StutterKeeps ==
    ASSUME DispInv, UNCHANGED <<turn, stopGen, fired, dead, fresh, swept, tableVars, call>>
    PROVE  DispInv'
  BY DEF DispInv, TypeOK, TurnsOK, TablesOK, FreshOK, PanicOK, StopOK, tableVars, At, InFlight,
         InEngine, Past, Outdated, OfChat

LEMMA InitHolds == Init => DispInv
  BY DEF Init, DispInv, TypeOK, TurnsOK, TablesOK, FreshOK, PanicOK, StopOK, At, InFlight,
         InEngine, NewTurn, IdleCall, TurnType, CallType, TurnPcs, CallPcs, PanicPcs, StopPcs

(* The invariant is inductive.                                             *)
LEMMA DispInductive == Spec => []DispInv
<1>1. ASSUME DispInv, [Next]_vars
      PROVE  DispInv'
  <2>1. ASSUME NEW t \in Turns, Message(t)
        PROVE  DispInv'
    BY <1>1, <2>1, DispatchKeeps, ArriveKeeps, TickKeeps DEF Message
  <2>2. ASSUME NEW t \in Turns, Handler(t)
        PROVE  DispInv'
    BY <1>1, <2>2, SpawnKeeps, EnterKeeps, RegisterChatCancelKeeps, CaptureKeeps, LeaveKeeps
       DEF Handler
  <2>3. ASSUME NEW t \in Turns, Run(t) \/ HardKill(t)
        PROVE  DispInv'
    BY <1>1, <2>3, RunKeeps, HardKillKeeps
  <2>4. ASSUME NEW c \in Callers, Start(c)
        PROVE  DispInv'
    BY <1>1, <2>4, StopChatKeeps, PanicKeeps, ResumeKeeps DEF Start
  <2>5. ASSUME NEW c \in Callers, Work(c)
        PROVE  DispInv'
    BY <1>1, <2>5, AskKeeps, ArmInFlightKeeps, ArmCancelsKeeps, RaiseGenerationKeeps,
       FireHandlesKeeps, SweepKeeps, PauseKeeps, PausedKeeps, UnpauseKeeps DEF Work
  <2>6. CASE TickerEnds \/ UNCHANGED vars
    BY <1>1, <2>6, StutterKeeps DEF TickerEnds, vars, engineVars, tableVars
  <2> QED
    BY <1>1, <2>1, <2>2, <2>3, <2>4, <2>5, <2>6 DEF Next
<1> QED
  BY <1>1, InitHolds, PTL DEF Spec

-----------------------------------------------------------------------------

(* No turn that began after a stop or a panic is cancelled by it, and one  *)
(* that a panic cancels finds the stop requested: for any messages, chats, *)
(* agents, callers and calls (armHardKill, executePanic).                  *)
THEOREM NoStrayKill == Spec => []KilledForAReason
<1>1. DispInv => KilledForAReason
  BY DEF DispInv, TypeOK, FreshOK, PanicOK, Outdated, InEngine, At, Requested, KilledForAReason
<1> QED
  BY <1>1, DispInductive, PTL

(* However many agents serve a chat, once /stop has asked them every turn  *)
(* that ran for it has heard (requestChatStop).                            *)
THEOREM StopHeardByAll == Spec => []StopReachesChat
<1>1. DispInv => StopReachesChat
  <2>1. SUFFICES ASSUME DispInv, NEW c \in Callers, call[c].pc \in {"arm", "armed"},
                        NEW t \in call[c].seen \intersect Running
                 PROVE  t \in fired /\ call[c].observed
    BY DEF StopReachesChat
  <2>2. call[c].pc \in StopPcs /\ call[c].left = {} /\ At(t, "running")
    BY <2>1 DEF DispInv, StopOK, StopPcs, Running
  <2> QED
    BY <2>1, <2>2 DEF DispInv, StopOK
<1> QED
  BY <1>1, DispInductive, PTL

-----------------------------------------------------------------------------
(* The WebSocket.                                                          *)

ConnFields == {"reader", "writer", "net", "done", "seq", "reply"}
ChatFields == {"pc", "conn", "session", "buf", "frame", "killed"}
ChatPcs    == {"none", "enter", "run", "content", "done", "send", "leave", "gone"}
Kinds      == {"event", "content", "done", "error"}
Final      == {"done", "error"}

IsList(s) == s \in Seq({s[i] : i \in DOMAIN s})

(* The shapes the steps rely on.                                           *)
SocketShape ==
    /\ setting \in Settings
    /\ conn = [c \in Conns |-> conn[c]]
    /\ queue = [c \in Conns |-> queue[c]]
    /\ chat = [t \in Requests |-> chat[t]]
    /\ said \in [Requests -> Seq(Kinds)]
    /\ \A c \in Conns : DOMAIN conn[c] = ConnFields /\ IsList(queue[c])
    /\ \A t \in Requests : DOMAIN chat[t] = ChatFields /\ chat[t].pc \in ChatPcs

Unfinished(t) == \A i \in DOMAIN said[t] : said[t][i] \notin Final
Finished(t) ==
    /\ said[t] # << >> /\ Last(said[t]) \in Final
    /\ \A i \in 1 .. Len(said[t]) - 1 : said[t][i] \notin Final

(* A turn has said its last frame when it leaves, and not before.          *)
SaidOK(t) ==
    /\ chat[t].pc # "none" => chat[t].conn \in Conns
    /\ chat[t].pc = "send" => chat[t].frame.k \in Kinds
    /\ IF chat[t].pc \in {"leave", "gone"}
       THEN Finished(t) \/ (Unfinished(t) /\ Cancelled(t))
       ELSE Unfinished(t)

SocketInv == SocketShape /\ \A t \in Requests : SaidOK(t)

(* A list stays one when its first element goes or another comes.          *)
LEMMA ListOf == ASSUME NEW S, NEW s \in Seq(S) PROVE IsList(s)
<1>1. s \in [1 .. Len(s) -> {s[i] : i \in DOMAIN s}] BY DEF Seq
<1>2. Len(s) \in Nat OBVIOUS
<1> QED BY <1>1, <1>2 DEF IsList, Seq

LEMMA ListGrows == ASSUME NEW s, IsList(s), NEW f PROVE IsList(Append(s, f)) /\ Append(s, f) # s
<1> DEFINE S == {s[i] : i \in DOMAIN s} \union {f}
<1>1. s \in Seq({s[i] : i \in DOMAIN s}) BY DEF IsList
<1> HIDE DEF S
<1>2. s \in Seq(S) BY <1>1 DEF S
<1>3. f \in S BY DEF S
<1>4. Append(s, f) \in Seq(S) /\ Len(Append(s, f)) = Len(s) + 1 BY <1>2, <1>3
<1>5. IsList(Append(s, f)) BY <1>4, ListOf
<1>6. Len(s) \in Nat BY <1>2
<1> QED BY <1>4, <1>5, <1>6

LEMMA ListShrinks == ASSUME NEW s, IsList(s), s # << >> PROVE IsList(Tail(s))
<1> DEFINE S == {s[i] : i \in DOMAIN s}
<1>1. s \in Seq(S) BY DEF IsList
<1> HIDE DEF S
<1>2. Tail(s) \in Seq(S) BY <1>1
<1> QED BY <1>2, ListOf

(* What sendJSON does to the channels: nothing, or one more frame; and a   *)
(* critical frame is queued unless the connection closes.                  *)
LEMMA Sends ==
    ASSUME SocketInv, NEW c \in Conns, NEW f, SendJSON(c, f)
    PROVE  /\ queue' = [d \in Conns |-> queue'[d]]
           /\ \A d \in Conns : IsList(queue'[d])
           /\ Critical(f) => Closed(c) \/ queue' # queue
<1>1. queue = [d \in Conns |-> queue[d]] /\ \A d \in Conns : IsList(queue[d])
  BY DEF SocketInv, SocketShape
<1>2. ASSUME queue' = queue PROVE queue' = [d \in Conns |-> queue'[d]] /\ \A d \in Conns : IsList(queue'[d])
  BY <1>1, <1>2
<1>3. ASSUME queue' = [queue EXCEPT ![c] = Append(@, f)]
      PROVE  queue' = [d \in Conns |-> queue'[d]] /\ \A d \in Conns : IsList(queue'[d])
  <2>1. IsList(Append(queue[c], f)) /\ Append(queue[c], f) # queue[c] BY <1>1, ListGrows
  <2>2. queue'[c] = Append(queue[c], f) BY <1>1, <1>3
  <2>3. \A d \in Conns : d # c => queue'[d] = queue[d] BY <1>1, <1>3
  <2>4. queue' = [d \in Conns |-> queue'[d]] BY <1>1, <1>3
  <2>5. \A d \in Conns : IsList(queue'[d]) BY <1>1, <2>1, <2>2, <2>3
  <2> QED BY <2>4, <2>5
<1>4. queue' = queue \/ queue' = [queue EXCEPT ![c] = Append(@, f)] BY DEF SendJSON
<1>5. Critical(f) => Closed(c) \/ queue' # queue
  <2> SUFFICES ASSUME Critical(f), ~Closed(c) PROVE queue' # queue OBVIOUS
  <2>1. queue' = [queue EXCEPT ![c] = Append(@, f)] BY DEF SendJSON
  <2>2. queue'[c] = Append(queue[c], f) BY <1>1, <2>1
  <2> QED BY <1>1, <2>2, ListGrows
<1> QED BY <1>2, <1>3, <1>4, <1>5

(* A step that leaves the turns alone keeps what is known of them, if no   *)
(* closed connection opens again.                                          *)
ConnsGoOn ==
    /\ conn' = [c \in Conns |-> conn'[c]]
    /\ \A c \in Conns : DOMAIN conn'[c] = ConnFields /\ (conn[c].done => conn'[c].done)

QueuesGoOn ==
    /\ queue' = [c \in Conns |-> queue'[c]]
    /\ \A c \in Conns : IsList(queue'[c])

LEMMA QuietStep ==
    ASSUME SocketInv, ConnsGoOn, QueuesGoOn, UNCHANGED <<chat, said, setting>>
    PROVE  SocketInv'
<1>1. SocketShape' BY DEF SocketInv, SocketShape, ConnsGoOn, QueuesGoOn
<1>2. ASSUME NEW t \in Requests PROVE SaidOK(t)'
  <2>1. SaidOK(t) BY DEF SocketInv
  <2>2. (Unfinished(t) <=> Unfinished(t)') /\ (Finished(t) <=> Finished(t)') BY DEF Unfinished, Finished
  <2>3. chat[t].conn \in Conns /\ Cancelled(t) => Cancelled(t)'
    BY DEF Cancelled, Closed, ConnsGoOn
  <2> QED BY <2>1, <2>2, <2>3 DEF SaidOK
<1> QED BY <1>1, <1>2 DEF SocketInv

LEMMA ConnSame == ASSUME SocketInv, UNCHANGED conn PROVE ConnsGoOn
  BY DEF SocketInv, SocketShape, ConnsGoOn

LEMMA QueueSame == ASSUME SocketInv, UNCHANGED queue PROVE QueuesGoOn
  BY DEF SocketInv, SocketShape, QueuesGoOn

LEMMA ConnSet ==
    ASSUME SocketInv, NEW c \in Conns, NEW r, SetConn(c, r),
           DOMAIN r = ConnFields, conn[c].done => r.done
    PROVE  ConnsGoOn
<1>1. conn = [d \in Conns |-> conn[d]] /\ \A d \in Conns : DOMAIN conn[d] = ConnFields
  BY DEF SocketInv, SocketShape
<1>2. conn' = [conn EXCEPT ![c] = r] BY DEF SetConn
<1>3. conn'[c] = r /\ \A d \in Conns : d # c => conn'[d] = conn[d] BY <1>1, <1>2
<1>4. conn' = [d \in Conns |-> conn'[d]] BY <1>1, <1>2
<1> QED BY <1>1, <1>3, <1>4 DEF ConnsGoOn

(* The steps of a connection, of the hub and of the store.                 *)
LEMMA ConnSteps ==
    ASSUME SocketInv, NEW c \in Conns,
           \/ Upgrade(c) \/ Lose(c) \/ WriteFails(c) \/ ReadFails(c) \/ Unregister(c)
           \/ Refuse(c) \/ ShutdownClose(c)
    PROVE  SocketInv'
<1>1. DOMAIN conn[c] = ConnFields BY DEF SocketInv, SocketShape
<1>2. ConnsGoOn
  <2>1. CASE Upgrade(c)
    <3>1. CASE SetConn(c, [conn[c] EXCEPT !.reader = "gone", !.writer = "gone",
                                          !.net = "closed", !.done = TRUE])
      BY <1>1, <3>1, ConnSet DEF ConnFields
    <3>2. CASE SetConn(c, [conn[c] EXCEPT !.reader = "read", !.writer = "run", !.net = "up"])
      BY <1>1, <3>2, ConnSet DEF ConnFields
    <3> QED BY <2>1, <3>1, <3>2 DEF Upgrade
  <2>2. CASE Lose(c) BY <1>1, <2>2, ConnSet DEF Lose, ConnFields
  <2>3. CASE WriteFails(c) BY <1>1, <2>3, ConnSet DEF WriteFails, ConnFields
  <2>4. CASE ReadFails(c) BY <1>1, <2>4, ConnSet DEF ReadFails, ConnFields
  <2>5. CASE Unregister(c) BY <1>1, <2>5, ConnSet DEF Unregister, ConnFields
  <2>6. CASE Refuse(c) BY <1>1, <2>6, ConnSet DEF Refuse, Reply, ConnFields
  <2>7. CASE ShutdownClose(c) BY <1>1, <2>7, ConnSet DEF ShutdownClose, ConnFields
  <2> QED BY <2>1, <2>2, <2>3, <2>4, <2>5, <2>6, <2>7
<1>3. UNCHANGED <<queue, chat, said, setting>>
  BY DEF Upgrade, Lose, WriteFails, ReadFails, Unregister, Refuse, ShutdownClose
<1> QED BY <1>2, <1>3, QueueSame, QuietStep

LEMMA FrameSteps ==
    ASSUME SocketInv, NEW c \in Conns, Write(c) \/ SendReply(c) \/ Broadcast(c)
    PROVE  SocketInv'
<1>1. CASE Write(c)
  <2>1. queue = [d \in Conns |-> queue[d]] /\ \A d \in Conns : IsList(queue[d])
    BY DEF SocketInv, SocketShape
  <2>2. queue' = [queue EXCEPT ![c] = Tail(@)] /\ queue[c] # << >> BY <1>1 DEF Write
  <2>3. IsList(Tail(queue[c])) BY <2>1, <2>2, ListShrinks
  <2>4. queue'[c] = Tail(queue[c]) /\ \A d \in Conns : d # c => queue'[d] = queue[d]
    BY <2>1, <2>2
  <2>5. queue' = [d \in Conns |-> queue'[d]] BY <2>1, <2>2
  <2>6. QueuesGoOn BY <2>1, <2>3, <2>4, <2>5 DEF QueuesGoOn
  <2>7. UNCHANGED <<conn, chat, said, setting>> BY <1>1 DEF Write
  <2> QED BY <2>6, <2>7, ConnSame, QuietStep
<1>2. CASE SendReply(c)
  <2>1. DOMAIN conn[c] = ConnFields BY DEF SocketInv, SocketShape
  <2>2. QueuesGoOn BY <1>2, Sends DEF SendReply, QueuesGoOn
  <2>3. ConnsGoOn BY <1>2, <2>1, ConnSet DEF SendReply, ConnFields
  <2>4. UNCHANGED <<chat, said, setting>> BY <1>2 DEF SendReply
  <2> QED BY <2>2, <2>3, <2>4, QuietStep
<1>3. CASE Broadcast(c)
  <2>1. QueuesGoOn BY <1>3, Sends DEF Broadcast, QueuesGoOn
  <2>2. UNCHANGED <<conn, chat, said, setting>> BY <1>3 DEF Broadcast
  <2> QED BY <2>1, <2>2, ConnSame, QuietStep
<1> QED BY <1>1, <1>2, <1>3

LEMMA ReconnectStep ==
    ASSUME SocketInv, NEW c \in Conns, NEW s \in Sessions, Reconnect(c, s)
    PROVE  SocketInv'
<1>1. PICK r : SetConn(c, [conn[c] EXCEPT !.reader = "reply", !.reply = r])
  BY DEF Reconnect, Reply
<1>2. DOMAIN conn[c] = ConnFields BY DEF SocketInv, SocketShape
<1>3. ConnsGoOn BY <1>1, <1>2, ConnSet DEF ConnFields
<1>4. UNCHANGED <<queue, chat, said, setting>> BY DEF Reconnect
<1> QED BY <1>3, <1>4, QueueSame, QuietStep

LEMMA HubSteps ==
    ASSUME SocketInv, Shutdown \/ ShutdownNext \/ CleanupTick \/ TimePasses \/ UNCHANGED socketVars
    PROVE  SocketInv'
<1>1. UNCHANGED <<conn, queue, chat, said, setting>>
  BY DEF Shutdown, ShutdownNext, CleanupTick, TimePasses, socketVars, connVars
<1> QED BY <1>1, ConnSame, QueueSame, QuietStep

-----------------------------------------------------------------------------
(* The steps of a turn.                                                    *)

TurnGoesOn(t, r) ==
    /\ SetChat(t, r) /\ DOMAIN r = ChatFields /\ r.pc \in ChatPcs
    /\ said' \in [Requests -> Seq(Kinds)]
    /\ \A u \in Requests : u # t => said'[u] = said[u]
    /\ UNCHANGED setting

(* Only the turn of the step has to be looked at.                          *)
LEMMA TurnStep ==
    ASSUME SocketInv, ConnsGoOn, QueuesGoOn, NEW t \in Requests, NEW r, TurnGoesOn(t, r), SaidOK(t)'
    PROVE  SocketInv'
<1>1. chat = [u \in Requests |-> chat[u]] /\ chat' = [chat EXCEPT ![t] = r]
  BY DEF SocketInv, SocketShape, TurnGoesOn, SetChat
<1>2. chat'[t] = r /\ \A u \in Requests : u # t => chat'[u] = chat[u] BY <1>1
<1>3. chat' = [u \in Requests |-> chat'[u]] BY <1>1
<1>4. \A u \in Requests : DOMAIN chat'[u] = ChatFields /\ chat'[u].pc \in ChatPcs
  BY <1>2 DEF SocketInv, SocketShape, TurnGoesOn
<1>5. SocketShape'
  BY <1>3, <1>4 DEF SocketInv, SocketShape, ConnsGoOn, QueuesGoOn, TurnGoesOn
<1>6. ASSUME NEW u \in Requests, u # t PROVE SaidOK(u)'
  <2>1. SaidOK(u) /\ chat'[u] = chat[u] /\ said'[u] = said[u]
    BY <1>2, <1>6 DEF SocketInv, TurnGoesOn
  <2>2. (Unfinished(u) <=> Unfinished(u)') /\ (Finished(u) <=> Finished(u)')
    BY <2>1 DEF Unfinished, Finished
  <2>3. chat[u].conn \in Conns /\ Cancelled(u) => Cancelled(u)'
    BY <2>1 DEF Cancelled, Closed, ConnsGoOn
  <2> QED BY <2>1, <2>2, <2>3 DEF SaidOK
<1> QED BY <1>5, <1>6 DEF SocketInv

LEMMA ChatSet ==
    ASSUME SocketInv, NEW t \in Requests, NEW r, SetChat(t, r)
    PROVE  chat'[t] = r
  BY DEF SocketInv, SocketShape, SetChat

LEMMA ChatStep ==
    ASSUME SocketInv, NEW c \in Conns, NEW s \in Sessions, NEW t \in Requests, Chat(c, s, t)
    PROVE  SocketInv'
<1>1. DOMAIN conn[c] = ConnFields /\ DOMAIN chat[t] = ChatFields /\ SaidOK(t)
  BY DEF SocketInv, SocketShape
<1>2. CASE Reply(c, <<Refusal>>) /\ UNCHANGED chat
  <2>1. ConnsGoOn BY <1>1, <1>2, ConnSet DEF Reply, ConnFields
  <2>2. UNCHANGED <<queue, said, setting>> BY DEF Chat
  <2> QED BY <1>2, <2>1, <2>2, QueueSame, QuietStep
<1>3. CASE SetChat(t, [chat[t] EXCEPT !.pc = "enter", !.conn = c, !.session = s]) /\ UNCHANGED conn
  <2> DEFINE r == [chat[t] EXCEPT !.pc = "enter", !.conn = c, !.session = s]
  <2>1. DOMAIN r = ChatFields /\ r.pc = "enter" /\ r.conn = c BY <1>1 DEF ChatFields
  <2>2. SetChat(t, r) BY <1>3
  <2> HIDE DEF r
  <2>3. chat'[t] = r BY <2>2, ChatSet
  <2>4. UNCHANGED <<queue, said, setting>> /\ chat[t].pc = "none" BY DEF Chat
  <2>5. TurnGoesOn(t, r) BY <2>1, <2>2, <2>4 DEF TurnGoesOn, ChatPcs, SocketInv, SocketShape
  <2>6. Unfinished(t) BY <1>1, <2>4 DEF SaidOK
  <2>7. Unfinished(t)' BY <2>4, <2>6 DEF Unfinished
  <2>8. SaidOK(t)' BY <2>1, <2>3, <2>7 DEF SaidOK
  <2> QED BY <1>3, <2>4, <2>5, <2>8, ConnSame, QueueSame, TurnStep
<1> QED BY <1>2, <1>3 DEF Chat

(* A step of a turn that says nothing yet.                                 *)
LEMMA SilentTurn ==
    ASSUME SocketInv, ConnsGoOn, UNCHANGED <<queue, said, setting>>, NEW t \in Requests, NEW r,
           SetChat(t, r), DOMAIN r = ChatFields, r.pc \in ChatPcs, r.conn = chat[t].conn,
           chat[t].pc \notin {"none", "leave", "gone"},
           r.pc \in {"leave", "gone"} => r.pc = "leave" /\ Cancelled(t) /\ r.killed = chat[t].killed,
           r.pc = "send" => r.frame.k \in Kinds
    PROVE  SocketInv'
<1>1. SaidOK(t) BY DEF SocketInv
<1>2. chat'[t] = r BY ChatSet
<1>3. TurnGoesOn(t, r) BY DEF TurnGoesOn, SocketInv, SocketShape
<1>4. Unfinished(t)' BY <1>1 DEF SaidOK, Unfinished
<1>5. r.conn \in Conns BY <1>1 DEF SaidOK
<1>6. r.pc = "leave" => Cancelled(t)' BY <1>2, <1>5 DEF Cancelled, Closed, ConnsGoOn
<1>7. SaidOK(t)' BY <1>2, <1>4, <1>5, <1>6 DEF SaidOK
<1> QED BY <1>3, <1>7, QueueSame, TurnStep

LEMMA StartStep == ASSUME SocketInv, NEW t \in Requests, StartTurn(t) PROVE SocketInv'
<1>1. PICK i : SetChat(t, [chat[t] EXCEPT !.pc = "run", !.buf = i]) BY DEF StartTurn
<1> DEFINE r == [chat[t] EXCEPT !.pc = "run", !.buf = i]
<1>2. DOMAIN chat[t] = ChatFields BY DEF SocketInv, SocketShape
<1>3. DOMAIN r = ChatFields /\ r.pc = "run" /\ r.conn = chat[t].conn BY <1>2 DEF ChatFields
<1>4. SetChat(t, r) BY <1>1
<1> HIDE DEF r
<1>5. UNCHANGED <<conn, queue, said, setting>> /\ chat[t].pc = "enter" BY DEF StartTurn, connVars
<1>6. ConnsGoOn BY <1>5, ConnSame
<1> QED BY <1>3, <1>4, <1>5, <1>6, SilentTurn DEF ChatPcs

LEMMA RecordStep ==
    ASSUME SocketInv, NEW t \in Requests, Emit(t) \/ Answer(t)
    PROVE  SocketInv'
<1>1. PICK k \in Kinds : Record(t, k) BY DEF Emit, Answer, Kinds
<1> DEFINE c == chat[t].conn
           f == Frame(t, k, conn[c].seq + 1)
           r == [chat[t] EXCEPT !.pc = "send", !.frame = f]
<1>2. DOMAIN chat[t] = ChatFields /\ SaidOK(t) BY DEF SocketInv, SocketShape
<1>3. chat[t].pc \in {"run", "content", "done"} BY DEF Emit, Answer
<1>4. c \in Conns BY <1>2, <1>3 DEF SaidOK
<1>5. DOMAIN conn[c] = ConnFields BY <1>4 DEF SocketInv, SocketShape
<1>6. SetConn(c, [conn[c] EXCEPT !.seq = @ + 1]) BY <1>1 DEF Record
<1>7. ConnsGoOn BY <1>4, <1>5, <1>6, ConnSet DEF ConnFields
<1>8. f.k = k BY DEF Frame
<1>9. SetChat(t, r) BY <1>1 DEF Record
<1> HIDE DEF f
<1>10. DOMAIN r = ChatFields /\ r.pc = "send" /\ r.conn = c /\ r.frame = f BY <1>2 DEF ChatFields
<1>11. UNCHANGED <<queue, said, setting>> BY <1>1 DEF Record
<1> HIDE DEF r
<1> QED BY <1>3, <1>7, <1>8, <1>9, <1>10, <1>11, SilentTurn DEF ChatPcs

LEMMA ReturnStep == ASSUME SocketInv, NEW t \in Requests, Return(t) PROVE SocketInv'
<1>1. DOMAIN chat[t] = ChatFields BY DEF SocketInv, SocketShape
<1>2. UNCHANGED <<conn, queue, said, setting>> /\ chat[t].pc = "run" BY DEF Return, connVars
<1>3. ConnsGoOn BY <1>2, ConnSame
<1>4. PICK r : /\ SetChat(t, r)
               /\ \/ r = [chat[t] EXCEPT !.pc = "content"]
                  \/ r = [chat[t] EXCEPT !.pc = "leave"] /\ Cancelled(t)
                  \/ r = [chat[t] EXCEPT !.pc = "send", !.frame = Frame(t, "error", 0)]
  BY DEF Return
<1>5. DOMAIN r = ChatFields /\ r.conn = chat[t].conn /\ r.killed = chat[t].killed
  BY <1>1, <1>4 DEF ChatFields
<1>6. /\ r.pc \in {"content", "leave", "send"}
      /\ r.pc = "leave" => Cancelled(t)
      /\ r.pc = "send" => r.frame.k \in Kinds
  <2>1. CASE r = [chat[t] EXCEPT !.pc = "content"] BY <1>1, <2>1 DEF ChatFields
  <2>2. CASE r = [chat[t] EXCEPT !.pc = "leave"] /\ Cancelled(t) BY <1>1, <2>2 DEF ChatFields
  <2>3. CASE r = [chat[t] EXCEPT !.pc = "send", !.frame = Frame(t, "error", 0)]
    <3>1. r.pc = "send" /\ r.frame = Frame(t, "error", 0) BY <1>1, <2>3 DEF ChatFields
    <3>2. Frame(t, "error", 0).k \in Kinds BY DEF Frame, Kinds
    <3> QED BY <3>1, <3>2
  <2> QED BY <1>4, <2>1, <2>2, <2>3
<1> QED BY <1>2, <1>3, <1>4, <1>5, <1>6, SilentTurn DEF ChatPcs

LEMMA KillStep == ASSUME SocketInv, NEW t \in Requests, Kill(t) PROVE SocketInv'
<1> DEFINE r == [chat[t] EXCEPT !.killed = TRUE]
<1>1. DOMAIN chat[t] = ChatFields /\ chat[t].pc \in ChatPcs /\ SaidOK(t)
  BY DEF SocketInv, SocketShape
<1>2. DOMAIN r = ChatFields /\ r.pc = chat[t].pc /\ r.conn = chat[t].conn /\ r.frame = chat[t].frame /\ r.killed
  BY <1>1 DEF ChatFields
<1>3. SetChat(t, r) /\ UNCHANGED <<conn, queue, said, setting>> BY DEF Kill, connVars
<1> HIDE DEF r
<1>4. chat'[t] = r BY <1>3, ChatSet
<1>5. TurnGoesOn(t, r) BY <1>1, <1>2, <1>3 DEF TurnGoesOn, SocketInv, SocketShape
<1>6. (Unfinished(t) <=> Unfinished(t)') /\ (Finished(t) <=> Finished(t)')
  BY <1>3 DEF Unfinished, Finished
<1>7. Cancelled(t)' BY <1>2, <1>4 DEF Cancelled
<1>8. SaidOK(t)' BY <1>1, <1>2, <1>4, <1>6, <1>7 DEF SaidOK
<1> QED BY <1>3, <1>5, <1>8, ConnSame, QueueSame, TurnStep

LEMMA EndStep == ASSUME SocketInv, NEW t \in Requests, EndTurn(t) PROVE SocketInv'
<1> DEFINE r == [chat[t] EXCEPT !.pc = "gone"]
<1>1. DOMAIN chat[t] = ChatFields /\ SaidOK(t) BY DEF SocketInv, SocketShape
<1>2. DOMAIN r = ChatFields /\ r.pc = "gone" /\ r.conn = chat[t].conn /\ r.killed = chat[t].killed
  BY <1>1 DEF ChatFields
<1>3. SetChat(t, r) /\ UNCHANGED <<conn, queue, said, setting>> /\ chat[t].pc = "leave"
  BY DEF EndTurn, connVars
<1> HIDE DEF r
<1>4. chat'[t] = r BY <1>3, ChatSet
<1>5. TurnGoesOn(t, r) BY <1>2, <1>3 DEF TurnGoesOn, ChatPcs, SocketInv, SocketShape
<1>6. (Unfinished(t) <=> Unfinished(t)') /\ (Finished(t) <=> Finished(t)')
  BY <1>3 DEF Unfinished, Finished
<1>7. Cancelled(t) => Cancelled(t)' BY <1>2, <1>3, <1>4 DEF Cancelled, Closed
<1>8. SaidOK(t)' BY <1>1, <1>2, <1>3, <1>4, <1>6, <1>7 DEF SaidOK
<1> QED BY <1>3, <1>5, <1>8, ConnSame, QueueSame, TurnStep

(* A frame is sent: the turn's last, unless the connection closes.         *)
LEMMA SendStep == ASSUME SocketInv, NEW t \in Requests, Send(t) PROVE SocketInv'
<1> DEFINE c == chat[t].conn
           f == chat[t].frame
           r == [chat[t] EXCEPT !.pc = After[f.k]]
<1>1. DOMAIN chat[t] = ChatFields /\ SaidOK(t) /\ said \in [Requests -> Seq(Kinds)]
  BY DEF SocketInv, SocketShape
<1>2. chat[t].pc = "send" /\ SendJSON(c, f) /\ SetChat(t, r) /\ UNCHANGED <<conn, setting>>
  BY DEF Send
<1>3. c \in Conns /\ f.k \in Kinds /\ Unfinished(t) BY <1>1, <1>2 DEF SaidOK
<1>4. /\ After[f.k] \in {"run", "done", "leave"}
      /\ After[f.k] = "leave" <=> f.k \in Final
  BY <1>3 DEF After, Kinds, Final
<1>5. DOMAIN r = ChatFields /\ r.pc = After[f.k] /\ r.conn = c /\ r.killed = chat[t].killed
  BY <1>1 DEF ChatFields
<1>6. QueuesGoOn /\ (Critical(f) => Closed(c) \/ queue' # queue)
  BY <1>2, <1>3, Sends DEF QueuesGoOn
<1>7. said' = IF queue' # queue THEN [said EXCEPT ![t] = Append(@, f.k)] ELSE said BY DEF Send
<1> HIDE DEF r, f, c
<1>8. chat'[t] = r BY <1>2, ChatSet
<1>9. /\ said' \in [Requests -> Seq(Kinds)]
      /\ \A u \in Requests : u # t => said'[u] = said[u]
      /\ said'[t] = IF queue' # queue THEN Append(said[t], f.k) ELSE said[t]
  <2>1. said[t] \in Seq(Kinds) BY <1>1
  <2>2. Append(said[t], f.k) \in Seq(Kinds) BY <1>3, <2>1
  <2> QED BY <1>1, <1>7, <2>2
<1>10. TurnGoesOn(t, r) BY <1>2, <1>4, <1>5, <1>9 DEF TurnGoesOn, ChatPcs
<1>11. SaidOK(t)'
  <2>1. CASE f.k \in Final
    <3>1. CASE queue' # queue
      <4>1. Finished(t)'
        <5> DEFINE s == said[t]
        <5>1. s \in Seq(Kinds) /\ said'[t] = Append(s, f.k) BY <1>1, <1>9, <3>1
        <5>2. \A i \in 1 .. Len(s) : s[i] \notin Final BY <1>3, <5>1 DEF Unfinished
        <5> HIDE DEF s
        <5>3. Len(Append(s, f.k)) = Len(s) + 1 /\ Append(s, f.k)[Len(s) + 1] = f.k /\ Len(s) \in Nat
          BY <1>3, <5>1
        <5>4. \A i \in 1 .. Len(s) : Append(s, f.k)[i] = s[i] BY <1>3, <5>1
        <5>5. Append(s, f.k) # << >> BY <5>3
        <5>6. Last(Append(s, f.k)) = f.k BY <5>3 DEF Last
        <5> QED BY <2>1, <5>1, <5>2, <5>3, <5>4, <5>5, <5>6 DEF Finished
      <4> QED BY <1>3, <1>4, <1>5, <1>8, <2>1, <4>1 DEF SaidOK
    <3>2. CASE queue' = queue
      <4>1. Closed(c) BY <1>6, <2>1, <3>2 DEF Critical, Final
      <4>2. Cancelled(t)' BY <1>2, <1>5, <1>8, <4>1 DEF Cancelled, Closed, c
      <4>3. Unfinished(t)' BY <1>3, <1>9, <3>2 DEF Unfinished
      <4> QED BY <1>3, <1>4, <1>5, <1>8, <2>1, <4>2, <4>3 DEF SaidOK
    <3> QED BY <3>1, <3>2
  <2>2. CASE f.k \notin Final
    <3>1. Unfinished(t)'
      <4> DEFINE s == said[t]
      <4>1. s \in Seq(Kinds) BY <1>1
      <4>2. \A i \in 1 .. Len(s) : s[i] \notin Final BY <1>3, <4>1 DEF Unfinished
      <4>3. said'[t] = Append(s, f.k) \/ said'[t] = s BY <1>9
      <4> HIDE DEF s
      <4>4. Len(Append(s, f.k)) = Len(s) + 1 /\ Append(s, f.k)[Len(s) + 1] = f.k /\ Len(s) \in Nat
        BY <1>3, <4>1
      <4>5. \A i \in 1 .. Len(s) : Append(s, f.k)[i] = s[i] BY <1>3, <4>1
      <4>6. DOMAIN s = 1 .. Len(s) /\ DOMAIN Append(s, f.k) = 1 .. Len(s) + 1 BY <1>3, <4>1
      <4> QED BY <2>2, <4>2, <4>3, <4>4, <4>5, <4>6 DEF Unfinished
    <3> QED BY <1>3, <1>4, <1>5, <1>8, <2>2, <3>1 DEF SaidOK
  <2> QED BY <2>1, <2>2
<1> QED BY <1>2, <1>6, <1>10, <1>11, ConnSame, TurnStep

-----------------------------------------------------------------------------

LEMMA SocketBegins == ASSUME SocketInit PROVE SocketInv
<1>1. SocketShape
  <2>1. \A c \in Conns : queue[c] = << >> /\ DOMAIN conn[c] = ConnFields
    BY DEF SocketInit, ConnFields
  <2>2. << >> \in Seq({}) /\ << >> \in Seq(Kinds) OBVIOUS
  <2>3. IsList(<< >>) BY <2>2, ListOf
  <2>4. \A t \in Requests : DOMAIN chat[t] = ChatFields /\ chat[t].pc = "none"
    BY DEF SocketInit, ChatFields
  <2>5. said \in [Requests -> Seq(Kinds)] BY <2>2 DEF SocketInit
  <2> QED BY <2>1, <2>3, <2>4, <2>5 DEF SocketInit, SocketShape, ChatPcs
<1>2. \A t \in Requests : chat[t].pc = "none" /\ said[t] = << >> BY DEF SocketInit
<1>3. \A t \in Requests : SaidOK(t) BY <1>2 DEF SaidOK, Unfinished
<1> QED BY <1>1, <1>3 DEF SocketInv

LEMMA SocketGoesOn == ASSUME SocketInv, [SocketNext]_socketVars PROVE SocketInv'
<1>1. setting.turns \subseteq Requests BY SocketAssumption DEF SocketInv, SocketShape
<1>2. ASSUME NEW c \in Conns, Writer(c) \/ Reader(c) \/ Client(c) PROVE SocketInv'
  BY <1>1, <1>2, ConnSteps, FrameSteps, ReconnectStep, ChatStep DEF Writer, Reader, Client
<1>3. ASSUME NEW t \in setting.turns, Goroutine(t) \/ Kill(t) PROVE SocketInv'
  BY <1>1, <1>3, StartStep, RecordStep, SendStep, ReturnStep, EndStep, KillStep DEF Goroutine
<1>4. ASSUME Stopping \/ Shutdown \/ CleanupTick \/ TimePasses \/ UNCHANGED socketVars PROVE SocketInv'
  BY <1>4, HubSteps, ConnSteps DEF Stopping
<1> QED BY <1>2, <1>3, <1>4 DEF SocketNext

LEMMA SaidOnce == ASSUME SocketInv PROVE AnsweredOnce
<1> SUFFICES ASSUME NEW t \in Requests
             PROVE  /\ \A i \in 1 .. Len(said[t]) - 1 : said[t][i] \notin {"done", "error"}
                    /\ chat[t].pc = "gone" /\ ~Cancelled(t) =>
                           said[t] # << >> /\ Last(said[t]) \in {"done", "error"}
  BY DEF AnsweredOnce
<1>1. SaidOK(t) /\ said[t] \in Seq(Kinds) BY DEF SocketInv, SocketShape
<1>2. DOMAIN said[t] = 1 .. Len(said[t]) /\ Len(said[t]) \in Nat BY <1>1
<1>3. Unfinished(t) => \A i \in 1 .. Len(said[t]) - 1 : said[t][i] \notin {"done", "error"}
  BY <1>2 DEF Unfinished, Final
<1> QED BY <1>1, <1>3 DEF SaidOK, Finished, Final

(* For any connections, requests, sessions, capacities and settings: a     *)
(* chat request is answered by exactly one done or error frame, the last   *)
(* of its frames, unless it was cancelled or its connection closed         *)
(* (websocket.go sendJSON, handleChatRequest).                             *)
THEOREM ChatsAnsweredOnce == SocketSpec => []AnsweredOnce
<1>1. SocketInit => SocketInv BY SocketBegins
<1>2. SocketInv /\ [SocketNext]_socketVars => SocketInv' BY SocketGoesOn
<1>3. SocketInv => AnsweredOnce BY SaidOnce
<1> QED BY <1>1, <1>2, <1>3, PTL DEF SocketSpec

-----------------------------------------------------------------------------
(* A nonempty set of numbers has a least one.                              *)
LEMMA Least ==
    ASSUME NEW S \in SUBSET Nat, S # {}
    PROVE  \E x \in S : \A y \in S : x <= y
<1>1. PICK x \in S : \A y \in S : ~(<<y, x>> \in OpToRel(<, Nat))
  BY NatLessThanWellFounded, WFMin
<1>2. \A y \in S : ~(y < x) BY <1>1 DEF OpToRel
<1> QED BY <1>2

(* What picks from s along the places in K, n places far.                  *)
Picks(s, K, N, f) == f = [n \in 0 .. N |->
    IF n = 0 THEN << >> ELSE IF n \in K THEN Append(f[n - 1], s[n]) ELSE f[n - 1]]

LEMMA PicksExist == ASSUME NEW s, NEW K, NEW N \in Nat PROVE \E f : Picks(s, K, N, f)
<1> DEFINE bad == {n \in Nat : ~ \E f : Picks(s, K, n, f)}
<1> SUFFICES ASSUME bad # {} PROVE FALSE OBVIOUS
<1>1. PICK n \in bad : \A m \in bad : n <= m BY Least
<1>2. n # 0
  <2>1. Picks(s, K, 0, [k \in 0 .. 0 |-> << >>]) BY DEF Picks
  <2> QED BY <2>1
<1>3. n - 1 \in Nat /\ n - 1 \notin bad BY <1>1, <1>2
<1>4. PICK f : Picks(s, K, n - 1, f) BY <1>3
<1> DEFINE top == IF n \in K THEN Append(f[n - 1], s[n]) ELSE f[n - 1]
           g == [k \in 0 .. n |-> IF k = n THEN top ELSE f[k]]
<1>5. Picks(s, K, n, g)
  <2> SUFFICES ASSUME NEW k \in 0 .. n
               PROVE  g[k] = IF k = 0 THEN << >> ELSE IF k \in K THEN Append(g[k - 1], s[k]) ELSE g[k - 1]
    BY DEF Picks
  <2>1. CASE k = n
    <3>1. g[k] = top /\ g[k - 1] = f[n - 1] BY <1>2, <1>3, <2>1
    <3> QED BY <1>2, <2>1, <3>1
  <2>2. CASE k # n
    <3>1. k \in 0 .. n - 1 /\ (k # 0 => k - 1 \in 0 .. n - 1) /\ k \in 0 .. n BY <2>2
    <3>2. g[k] = f[k] /\ (k # 0 => g[k - 1] = f[k - 1]) BY <2>2, <3>1
    <3>3. f[k] = IF k = 0 THEN << >> ELSE IF k \in K THEN Append(f[k - 1], s[k]) ELSE f[k - 1]
      BY <1>4, <3>1 DEF Picks
    <3> HIDE DEF g
    <3> QED BY <3>2, <3>3
  <2> QED BY <2>1, <2>2
<1> QED BY <1>5

LEMMA PickedIs ==
    ASSUME NEW s, Len(s) \in Nat, NEW K
    PROVE  \E f : Picks(s, K, Len(s), f) /\ Picked(s, K) = f[Len(s)]
<1>1. \E f : Picks(s, K, Len(s), f) BY PicksExist
<1>2. Picked(s, K) = (CHOOSE f : Picks(s, K, Len(s), f))[Len(s)] BY DEF Picked, Picks
<1> QED BY <1>1, <1>2

(* h is what s has at the places K up to n, and g says where.              *)
Traces(s, K, n, h, g) ==
    /\ g \in [1 .. Len(h) -> K \intersect (1 .. n)]
    /\ \A i, j \in 1 .. Len(h) : i < j => g[i] < g[j]
    /\ \A k \in K \intersect (1 .. n) : \E j \in 1 .. Len(h) : g[j] = k
    /\ \A j \in 1 .. Len(h) : h[j] = s[g[j]]

LEMMA TracesOn ==
    ASSUME NEW S, NEW s \in Seq(S), NEW K, NEW n \in 1 .. Len(s), NEW h \in Seq(S), NEW g,
           Traces(s, K, n - 1, h, g)
    PROVE  LET k == IF n \in K THEN Append(h, s[n]) ELSE h IN
           k \in Seq(S) /\ \E f : Traces(s, K, n, k, f)
<1>1. n - 1 \in Nat /\ n \in Nat /\ Len(h) \in Nat OBVIOUS
<1>2. CASE n \notin K
  <2>1. K \intersect (1 .. n) = K \intersect (1 .. n - 1) BY <1>1, <1>2
  <2>2. Traces(s, K, n, h, g) BY <2>1 DEF Traces
  <2> QED BY <1>2, <2>2
<1>3. CASE n \in K
  <2>1. s[n] \in S BY <1>1
  <2> DEFINE k == Append(h, s[n])
             m == Len(h) + 1
             f == [j \in 1 .. m |-> IF j = m THEN n ELSE g[j]]
  <2>2. k \in Seq(S) /\ Len(k) = m /\ k[m] = s[n] /\ \A j \in 1 .. Len(h) : k[j] = h[j]
    BY <2>1
  <2>3. f[m] = n /\ \A j \in 1 .. Len(h) : f[j] = g[j] BY <1>1
  <2>4. DOMAIN f = 1 .. m /\ f = [j \in 1 .. m |-> f[j]] OBVIOUS
  <2>5. 1 .. m = 1 .. Len(h) \union {m} /\ m \in Nat /\ m \notin 1 .. Len(h) BY <1>1
  <2> HIDE DEF k, f, m
  <2>6. \A j \in 1 .. Len(h) : g[j] \in K /\ g[j] \in 1 .. n - 1 BY DEF Traces
  <2>7. \A j \in 1 .. m : f[j] \in K \intersect (1 .. n) BY <1>1, <1>3, <2>3, <2>5, <2>6
  <2>8. f \in [1 .. m -> K \intersect (1 .. n)] BY <2>4, <2>7
  <2>9. ASSUME NEW i \in 1 .. m, NEW j \in 1 .. m, i < j PROVE f[i] < f[j]
    <3>1. i \in 1 .. Len(h) BY <1>1, <2>5, <2>9 DEF m
    <3>2. CASE j = m BY <1>1, <2>3, <2>6, <3>1, <3>2
    <3>3. CASE j # m
      <4>1. j \in 1 .. Len(h) BY <2>5, <3>3
      <4> QED BY <2>3, <2>9, <3>1, <4>1 DEF Traces
    <3> QED BY <3>2, <3>3
  <2>10. ASSUME NEW x \in K \intersect (1 .. n) PROVE \E j \in 1 .. m : f[j] = x
    <3>1. CASE x = n BY <2>3, <2>5, <3>1
    <3>2. CASE x # n
      <4>1. x \in K \intersect (1 .. n - 1) BY <1>1, <3>2
      <4>2. PICK j \in 1 .. Len(h) : g[j] = x BY <4>1 DEF Traces
      <4> QED BY <2>3, <2>5, <4>2
    <3> QED BY <3>1, <3>2
  <2>11. \A j \in 1 .. m : k[j] = s[f[j]]
    <3>1. \A j \in 1 .. Len(h) : h[j] = s[g[j]] BY DEF Traces
    <3> QED BY <2>2, <2>3, <2>5, <3>1
  <2>12. Traces(s, K, n, k, f) BY <2>2, <2>8, <2>9, <2>10, <2>11 DEF Traces
  <2> QED BY <1>3, <2>2, <2>12 DEF k
<1> QED BY <1>2, <1>3

LEMMA PickedTraces ==
    ASSUME NEW S, NEW s \in Seq(S), NEW K
    PROVE  Picked(s, K) \in Seq(S) /\ \E g : Traces(s, K, Len(s), Picked(s, K), g)
<1> DEFINE L == Len(s)
<1>1. L \in Nat OBVIOUS
<1>2. PICK f : Picks(s, K, L, f) /\ Picked(s, K) = f[L] BY PickedIs
<1> DEFINE bad == {n \in Nat : n <= L /\ ~(f[n] \in Seq(S) /\ \E g : Traces(s, K, n, f[n], g))}
<1>3. SUFFICES ASSUME bad # {} PROVE FALSE BY <1>1, <1>2
<1>4. PICK n \in bad : \A m \in bad : n <= m BY <1>3, Least
<1>5. n \in 0 .. L BY <1>1, <1>4
<1>6. f[n] = IF n = 0 THEN << >> ELSE IF n \in K THEN Append(f[n - 1], s[n]) ELSE f[n - 1]
  BY <1>2, <1>5 DEF Picks
<1>7. n # 0
  <2>1. SUFFICES ASSUME n = 0 PROVE FALSE OBVIOUS
  <2>2. f[n] = << >> BY <1>6, <2>1
  <2>3. Traces(s, K, 0, << >>, << >>)
    <3>1. 1 .. Len(<< >>) = {} /\ 1 .. 0 = {} OBVIOUS
    <3>2. << >> \in [{} -> K \intersect {}] OBVIOUS
    <3> QED BY <3>1, <3>2 DEF Traces
  <2>4. << >> \in Seq(S) OBVIOUS
  <2> QED BY <1>4, <2>1, <2>2, <2>3, <2>4
<1>8. n - 1 \in Nat /\ n - 1 <= L /\ n - 1 \notin bad /\ n \in 1 .. L
  <2>1. n \in Nat /\ n <= L BY <1>4
  <2>2. n - 1 \in Nat /\ n - 1 <= L /\ n \in 1 .. L /\ ~(n <= n - 1) BY <1>1, <1>7, <2>1
  <2> HIDE DEF bad, L
  <2> QED BY <1>4, <2>2
<1>9. f[n - 1] \in Seq(S) /\ \E g : Traces(s, K, n - 1, f[n - 1], g) BY <1>8
<1>10. PICK g : Traces(s, K, n - 1, f[n - 1], g) BY <1>9
<1>11. ASSUME NEW h, h = f[n - 1]
       PROVE  LET k == IF n \in K THEN Append(h, s[n]) ELSE h IN
              k \in Seq(S) /\ \E e : Traces(s, K, n, k, e)
  <2>1. h \in Seq(S) /\ Traces(s, K, n - 1, h, g) BY <1>9, <1>10, <1>11
  <2>2. n \in 1 .. Len(s) BY <1>8
  <2> HIDE DEF bad, L
  <2> QED BY <2>1, <2>2, TracesOn
<1> QED BY <1>4, <1>6, <1>7, <1>11

(* The ring b holds the last of the entries in s.                          *)
Holds(b, s) == LET n == Len(s) IN
    /\ DOMAIN b.entries = 0 .. Capacity - 1
    /\ b.head \in 0 .. Capacity - 1
    /\ b.count = IF n < Capacity THEN n ELSE Capacity
    /\ \A x \in 1 .. b.count : b.entries[(b.head + Capacity - x) % Capacity] = s[n + 1 - x]

LEMMA RingTurns ==
    ASSUME NEW x \in Nat, x < 2 * Capacity
    PROVE  x % Capacity = IF x < Capacity THEN x ELSE x - Capacity
  BY ReplayAssumption

LEMMA HoldsNothing == Holds(NewReplayBuffer, << >>)
  BY ReplayAssumption DEF Holds, NewReplayBuffer

LEMMA HoldsMore ==
    ASSUME NEW b, NEW s, IsList(s), NEW e, Holds(b, s)
    PROVE  Holds(Appended(b, e), Append(s, e))
<1> DEFINE C == Capacity  n == Len(s)  h == b.head  k == b.count
           B == Appended(b, e)  S == Append(s, e)
<1>1. C \in Nat /\ C >= 1 BY ReplayAssumption
<1>2. n \in Nat /\ Len(S) = n + 1 /\ S[n + 1] = e /\ \A i \in 1 .. n : S[i] = s[i]
  BY DEF IsList
<1>3. h \in Nat /\ h < C /\ k \in Nat /\ k <= C /\ k <= n
  BY <1>1, <1>2 DEF Holds
<1>4. /\ B.entries = [b.entries EXCEPT ![h] = e]
      /\ B.head = (h + 1) % C
      /\ B.count = IF k < C THEN k + 1 ELSE k
  BY DEF Appended
<1>5. DOMAIN B.entries = 0 .. C - 1 /\ B.entries[h] = e
      /\ \A i \in 0 .. C - 1 : i # h => B.entries[i] = b.entries[i]
  BY <1>1, <1>3, <1>4 DEF Holds
<1>6. B.head = (IF h + 1 < C THEN h + 1 ELSE h + 1 - C) /\ B.head \in 0 .. C - 1
  <2>1. PICK z, m : z = h + 1 /\ m = z % C OBVIOUS
  <2>2. z \in Nat /\ z < 2 * C /\ z <= C BY <1>1, <1>3, <2>1
  <2>3. z % C = IF z < C THEN z ELSE z - C BY <2>2, RingTurns
  <2>4. m = IF z < C THEN z ELSE z - C BY <2>1, <2>3
  <2>5. m \in 0 .. C - 1 BY <1>1, <2>2, <2>4
  <2>6. B.head = m BY <1>4, <2>1
  <2>7. z = h + 1 BY <2>1
  <2>8. m = IF h + 1 < C THEN h + 1 ELSE h + 1 - C BY <1>1, <1>3, <2>2, <2>4, <2>7
  <2> QED BY <2>5, <2>6, <2>8
<1>7. B.count = IF n + 1 < C THEN n + 1 ELSE C
  BY <1>1, <1>2, <1>3, <1>4 DEF Holds
<1>8. \A x \in 1 .. k : b.entries[(h + C - x) % C] = s[n + 1 - x]
  BY DEF Holds
<1> HIDE DEF B, S
<1>9. ASSUME NEW x \in 1 .. B.count PROVE B.entries[(B.head + C - x) % C] = S[n + 2 - x]
  <2>1. x \in Nat /\ x >= 1 /\ x <= C /\ x <= k + 1
    <3>1. B.count \in Nat /\ B.count <= C /\ B.count <= k + 1
      <4>1. B.count = IF k < C THEN k + 1 ELSE k BY <1>4
      <4> QED BY <1>1, <1>3, <4>1
    <3> QED BY <1>1, <1>3, <3>1
  <2>2. (B.head + C - x) % C = IF h + 1 - x < 0 THEN h + 1 - x + C ELSE h + 1 - x
    <3> DEFINE z == B.head + C - x
    <3>1. z \in Nat /\ z < 2 * C BY <1>1, <1>6, <2>1
    <3>2. z = IF h + 1 < C THEN h + 1 + C - x ELSE h + 1 - x BY <1>1, <1>3, <1>6, <2>1
    <3> HIDE DEF z
    <3>3. z % C = IF z < C THEN z ELSE z - C BY <3>1, RingTurns
    <3>4. z % C = IF h + 1 - x < 0 THEN h + 1 - x + C ELSE h + 1 - x
      <4>1. CASE h + 1 < C
        <5>1. z = h + 1 + C - x BY <3>2, <4>1
        <5>2. z < C <=> h + 1 - x < 0 BY <1>1, <1>3, <2>1, <5>1
        <5> QED BY <1>1, <1>3, <2>1, <3>3, <5>1, <5>2
      <4>2. CASE ~(h + 1 < C)
        <5>1. z = h + 1 - x BY <3>2, <4>2
        <5>2. z < C /\ ~(h + 1 - x < 0) BY <1>1, <1>3, <2>1, <4>2, <5>1
        <5> QED BY <3>3, <5>1, <5>2
      <4> QED BY <4>1, <4>2
    <3> QED BY <3>4 DEF z
  <2>3. CASE x = 1
    <3>1. (B.head + C - x) % C = h BY <1>3, <2>2, <2>3
    <3> QED BY <1>2, <1>5, <2>3, <3>1
  <2>4. CASE x # 1
    <3>1. x - 1 \in 1 .. k BY <1>3, <2>1, <2>4
    <3>2. (h + C - (x - 1)) % C = IF h + 1 - x < 0 THEN h + 1 - x + C ELSE h + 1 - x
      <4> DEFINE z == h + C - (x - 1)
      <4>1. z \in Nat /\ z < 2 * C /\ z = h + 1 - x + C BY <1>1, <1>3, <2>1
      <4> HIDE DEF z
      <4>2. z % C = IF z < C THEN z ELSE z - C BY <4>1, RingTurns
      <4>3. z % C = IF h + 1 - x < 0 THEN h + 1 - x + C ELSE h + 1 - x BY <1>1, <1>3, <2>1, <4>1, <4>2
      <4> QED BY <4>3 DEF z
    <3> DEFINE y == IF h + 1 - x < 0 THEN h + 1 - x + C ELSE h + 1 - x
    <3>3. y \in 0 .. C - 1 /\ y # h BY <1>1, <1>3, <2>1, <2>4
    <3> HIDE DEF y
    <3>4. b.entries[y] = s[n + 1 - (x - 1)] BY <1>8, <3>1, <3>2 DEF y
    <3>5. B.entries[y] = b.entries[y] BY <1>5, <3>3
    <3>6. S[n + 2 - x] = s[n + 1 - (x - 1)]
      <4>1. n + 2 - x \in 1 .. n /\ n + 1 - (x - 1) = n + 2 - x BY <1>2, <1>3, <2>1, <2>4, <3>1
      <4> QED BY <1>2, <4>1
    <3> QED BY <2>2, <3>4, <3>5, <3>6 DEF y
  <2> QED BY <2>3, <2>4
<1>10. \A x \in 1 .. B.count : B.entries[(B.head + C - x) % C] = S[Len(S) + 1 - x]
  <2>1. ASSUME NEW x \in 1 .. B.count PROVE Len(S) + 1 - x = n + 2 - x
    <3>1. B.count \in Nat BY <1>1, <1>2, <1>7
    <3> QED BY <1>2, <2>1, <3>1
  <2> QED BY <1>9, <2>1
<1>11. B.count = IF Len(S) < C THEN Len(S) ELSE C BY <1>2, <1>7
<1>12. Holds(B, S) BY <1>5, <1>6, <1>10, <1>11 DEF Holds
<1> QED BY <1>12 DEF B, S

(* Its entries, oldest first, are the end of s.                            *)
LEMMA EntriesAre ==
    ASSUME NEW b, NEW s, IsList(s), Holds(b, s)
    PROVE  /\ b.count \in Nat /\ b.count <= Len(s)
           /\ b.count = IF Len(s) < Capacity THEN Len(s) ELSE Capacity
           /\ Entries(b) \in Seq({s[i] : i \in DOMAIN s}) /\ Len(Entries(b)) = b.count
           /\ \A j \in 1 .. b.count : Entries(b)[j] = s[Len(s) - b.count + j]
<1> DEFINE C == Capacity  n == Len(s)  h == b.head  k == b.count  S == {s[i] : i \in DOMAIN s}
<1>1. C \in Nat /\ C >= 1 BY ReplayAssumption
<1>2. n \in Nat /\ DOMAIN s = 1 .. n BY DEF IsList
<1>3. h \in Nat /\ h < C /\ k \in Nat /\ k <= C /\ k <= n BY <1>1, <1>2 DEF Holds
<1>4. k = IF n < C THEN n ELSE C BY DEF Holds
<1>5. ASSUME NEW j \in 1 .. k PROVE Entries(b)[j] = s[n - k + j]
  <2>1. k + 1 - j \in 1 .. k BY <1>3
  <2>2. b.entries[(h + C - (k + 1 - j)) % C] = s[n + 1 - (k + 1 - j)] BY <2>1 DEF Holds
  <2>3. h + C - (k + 1 - j) = h + C - k + j - 1 /\ n + 1 - (k + 1 - j) = n - k + j BY <1>1, <1>2, <1>3
  <2>4. Entries(b)[j] = b.entries[(h + C - k + j - 1) % C] BY <1>5 DEF Entries
  <2> QED BY <2>2, <2>3, <2>4
<1>6. ASSUME NEW j \in 1 .. k PROVE s[n - k + j] \in S
  <2>1. n - k + j \in 1 .. n BY <1>2, <1>3
  <2> QED BY <1>2, <2>1
<1>7. Entries(b) = [j \in 1 .. k |-> Entries(b)[j]] BY DEF Entries
<1> HIDE DEF S
<1>8. Entries(b) \in [1 .. k -> S] BY <1>5, <1>6, <1>7
<1>9. Entries(b) \in Seq(S) /\ Len(Entries(b)) = k BY <1>3, <1>8
<1> QED BY <1>3, <1>4, <1>5, <1>9 DEF S

-----------------------------------------------------------------------------
(* The replay.                                                             *)

Started(t)  == chat[t].pc # "none"
UnderWay(t) == chat[t].pc \notin {"none", "gone"}
Gone(c)     == conn[c].reader # "none" /\ conn[c].net # "up"

ConnOK(c) ==
    /\ conn[c].seq \in Nat
    /\ conn[c].done => Gone(c)
    /\ conn[c].reader = "none" => conn[c].writer # "run" /\ c \notin hub /\ c \notin shut.left
    /\ conn[c].reader = "reply" => conn[c].reply = <<Refusal>>

(* Two requests of a session are not under way at a time, unless it is     *)
(* crossed.                                                                *)
TurnOK(t) ==
    /\ Started(t) => t \in setting.turns /\ chat[t].conn \in Conns /\ chat[t].session \in Sessions
    /\ \A u \in Requests : UnderWay(t) /\ UnderWay(u) /\ chat[t].session = chat[u].session =>
           t = u \/ chat[t].session \in crossed

(* A frame with a number, and one on a connection; two that come in order. *)
Numbered(f) ==
    f.q \in Nat \ {0} /\ f.t \in Requests /\ Started(f.t) /\ f.q <= conn[chat[f.t].conn].seq
FrameOK(f, c) == f.q \in Nat /\ (f.q > 0 => Numbered(f) /\ chat[f.t].conn = c)

Ahead(f, g) ==
    f.q > 0 /\ g.q > 0 /\ chat[f.t].session = chat[g.t].session /\ chat[f.t].session \notin crossed
        => f.q < g.q
AllAhead(s, f) == \A m \in DOMAIN s : Ahead(s[m], f)

(* What the client has and what waits in the channel is in order, and so   *)
(* is what a turn is about to send.                                        *)
InOrder(s, c) ==
    /\ IsList(s)
    /\ \A m \in DOMAIN s : FrameOK(s[m], c)
    /\ \A m, n \in DOMAIN s : m < n => Ahead(s[m], s[n])
LineOK(c) ==
    /\ InOrder(got[c], c) /\ InOrder(queue[c], c)
    /\ \A n \in DOMAIN queue[c] : AllAhead(got[c], queue[c][n])

Comes(f, c) == FrameOK(f, c) /\ AllAhead(got[c], f) /\ AllAhead(queue[c], f)
SendingOK(t) == chat[t].pc = "send" => chat[t].frame.t = t /\ Comes(chat[t].frame, chat[t].conn)

(* A frame a buffer took reached the client, was dropped, or is still to   *)
(* come after all that the client has, unless the connection is gone.      *)
InList(f, s) == \E m \in DOMAIN s : s[m] = f
Sending(f) == chat[f.t].pc = "send" /\ chat[f.t].frame = f
Delivered(f) == LET c == chat[f.t].conn IN
    \/ chat[f.t].session \in crossed
    \/ f \in dropped \/ InList(f, got[c])
    \/ AllAhead(got[c], f) /\ (Gone(c) \/ InList(f, queue[c]) \/ Sending(f))

(* What a buffer has taken, its ring, and whose it is.                     *)
Recorded(i, e) ==
    /\ \A n \in DOMAIN e : Numbered(e[n].frame) /\ Delivered(e[n].frame)
    /\ \A n \in DOMAIN e, s \in Sessions : stored[s] = i => chat[e[n].frame.t].session = s
    /\ \A m, n \in DOMAIN e : m < n /\ chat[e[m].frame.t].conn = chat[e[n].frame.t].conn =>
           e[m].frame.q < e[n].frame.q
BufferOK(i) == IsList(taken[i]) /\ Holds(ring[i], taken[i]) /\ Recorded(i, taken[i])

StoreOK ==
    /\ IsList(ring) /\ IsList(taken) /\ Len(ring) = Len(taken)
    /\ stored \in [Sessions -> 0 .. Len(ring)]
    /\ \A s, r \in Sessions : stored[s] = stored[r] => s = r \/ stored[s] = NoBuffer

(* A turn in the engine has its session's buffer, or one that was that.    *)
HasBuffer(t) == chat[t].pc \notin {"none", "enter"} =>
    /\ chat[t].buf \in 1 .. Len(ring)
    /\ \A s \in Sessions : stored[s] = chat[t].buf => s = chat[t].session

Flow ==
    /\ got = [c \in Conns |-> got[c]]
    /\ \A c \in Conns : ConnOK(c) /\ LineOK(c)
    /\ \A t \in Requests : TurnOK(t) /\ SendingOK(t) /\ HasBuffer(t)
    /\ StoreOK
    /\ \A i \in 1 .. Len(ring) : BufferOK(i)

ReplayInv == SocketInv /\ ("resume" \notin once => Flow)

-----------------------------------------------------------------------------
(* What a step leaves true.  No number is taken back, no request goes over *)
(* to another connection or session, and no connection comes back.         *)
Onward ==
    /\ crossed \subseteq crossed'
    /\ \A c \in Conns : /\ conn[c].seq \in Nat /\ conn'[c].seq \in Nat /\ conn[c].seq <= conn'[c].seq
                        /\ Gone(c) => Gone(c)'
    /\ \A t \in Requests : Started(t) =>
           /\ Started(t)' /\ chat[t].conn \in Conns
           /\ chat'[t].conn = chat[t].conn /\ chat'[t].session = chat[t].session

LEMMA NumberStays == ASSUME NEW f, Onward, Numbered(f)
                     PROVE  /\ Numbered(f)' /\ chat'[f.t].conn = chat[f.t].conn
                            /\ chat'[f.t].session = chat[f.t].session /\ chat[f.t].conn \in Conns
<1>1. f.t \in Requests /\ Started(f.t) /\ f.q \in Nat /\ f.q <= conn[chat[f.t].conn].seq BY DEF Numbered
<1>2. /\ Started(f.t)' /\ chat[f.t].conn \in Conns
      /\ chat'[f.t].conn = chat[f.t].conn /\ chat'[f.t].session = chat[f.t].session
  BY <1>1 DEF Onward
<1> DEFINE c == chat[f.t].conn
<1>3. conn[c].seq \in Nat /\ conn'[c].seq \in Nat /\ conn[c].seq <= conn'[c].seq BY <1>2 DEF Onward
<1>4. f.q <= conn'[c].seq BY <1>1, <1>3
<1> QED BY <1>2, <1>4 DEF Numbered

LEMMA FrameStays == ASSUME NEW f, NEW c, Onward, FrameOK(f, c) PROVE FrameOK(f, c)'
  BY NumberStays DEF FrameOK

LEMMA AheadStays ==
    ASSUME NEW f, NEW g, NEW c, NEW d, Onward, FrameOK(f, c), FrameOK(g, d), Ahead(f, g)
    PROVE  Ahead(f, g)'
<1> SUFFICES ASSUME f.q > 0, g.q > 0, chat'[f.t].session = chat'[g.t].session,
                    chat'[f.t].session \notin crossed'
             PROVE  f.q < g.q
  BY DEF Ahead
<1>1. chat'[f.t].session = chat[f.t].session /\ chat'[g.t].session = chat[g.t].session
  BY NumberStays DEF FrameOK
<1>2. chat[f.t].session \notin crossed BY <1>1 DEF Onward
<1> QED BY <1>1, <1>2 DEF Ahead

LEMMA AllAheadStays ==
    ASSUME NEW s, NEW f, NEW c, NEW d, Onward, FrameOK(f, c), \A m \in DOMAIN s : FrameOK(s[m], d),
           AllAhead(s, f)
    PROVE  AllAhead(s, f)'
<1> SUFFICES ASSUME NEW m \in DOMAIN s PROVE Ahead(s[m], f)' BY DEF AllAhead
<1>1. FrameOK(s[m], d) /\ Ahead(s[m], f) BY DEF AllAhead
<1> QED BY <1>1, AheadStays

LEMMA OrderStays == ASSUME NEW s, NEW c, Onward, InOrder(s, c) PROVE InOrder(s, c)'
<1>1. IsList(s) /\ \A m \in DOMAIN s : FrameOK(s[m], c) BY DEF InOrder
<1>2. \A m \in DOMAIN s : FrameOK(s[m], c)' BY <1>1, FrameStays
<1>3. ASSUME NEW m \in DOMAIN s, NEW n \in DOMAIN s, m < n PROVE Ahead(s[m], s[n])'
  <2>1. Ahead(s[m], s[n]) BY <1>3 DEF InOrder
  <2> QED BY <1>1, <2>1, AheadStays
<1> QED BY <1>1, <1>2, <1>3 DEF InOrder

LEMMA PairStays ==
    ASSUME NEW g, NEW w, NEW c, Onward, InOrder(g, c), InOrder(w, c), \A n \in DOMAIN w : AllAhead(g, w[n])
    PROVE  InOrder(g, c)' /\ InOrder(w, c)' /\ \A n \in DOMAIN w : AllAhead(g, w[n])'
<1>1. InOrder(g, c)' /\ InOrder(w, c)' BY OrderStays
<1>2. ASSUME NEW n \in DOMAIN w PROVE AllAhead(g, w[n])'
  <2>1. FrameOK(w[n], c) /\ \A m \in DOMAIN g : FrameOK(g[m], c) BY DEF InOrder
  <2> QED BY <2>1, AllAheadStays
<1> QED BY <1>1, <1>2

LEMMA LineStays ==
    ASSUME NEW c, Onward, LineOK(c), got'[c] = got[c], queue'[c] = queue[c]
    PROVE  LineOK(c)'
<1>1. PICK g, w : g = got[c] /\ w = queue[c] OBVIOUS
<1>2. InOrder(g, c) /\ InOrder(w, c) /\ \A n \in DOMAIN w : AllAhead(g, w[n]) BY <1>1 DEF LineOK
<1>3. InOrder(g, c)' /\ InOrder(w, c)' /\ \A n \in DOMAIN w : AllAhead(g, w[n])' BY <1>2, PairStays
<1> QED BY <1>1, <1>3 DEF LineOK

LEMMA ComesStays ==
    ASSUME NEW f, NEW c, Onward, LineOK(c), Comes(f, c), got'[c] = got[c], queue'[c] = queue[c]
    PROVE  Comes(f, c)'
<1>1. PICK g, w : g = got[c] /\ w = queue[c] OBVIOUS
<1>2. FrameOK(f, c) /\ AllAhead(g, f) /\ AllAhead(w, f) BY <1>1 DEF Comes
<1>3. (\A m \in DOMAIN g : FrameOK(g[m], c)) /\ \A m \in DOMAIN w : FrameOK(w[m], c)
  BY <1>1 DEF LineOK, InOrder
<1>4. FrameOK(f, c)' BY <1>2, FrameStays
<1>5. AllAhead(g, f)' BY <1>2, <1>3, AllAheadStays
<1>6. AllAhead(w, f)' BY <1>2, <1>3, AllAheadStays
<1> QED BY <1>1, <1>4, <1>5, <1>6 DEF Comes

(* A frame stays on its way, or is settled, if what the client has stays.  *)
LEMMA DeliveredStays ==
    ASSUME NEW f, NEW d, Onward, Numbered(f), Delivered(f), d = chat[f.t].conn, LineOK(d),
           got'[d] = got[d], dropped \subseteq dropped',
           InList(f, queue[d]) => InList(f, queue[d])',
           Sending(f) => Sending(f)' \/ f \in dropped' \/ InList(f, queue[d])' \/ Gone(d)'
    PROVE  Delivered(f)'
<1>1. chat'[f.t].conn = d /\ chat'[f.t].session = chat[f.t].session /\ d \in Conns BY NumberStays
<1>2. FrameOK(f, d) BY DEF FrameOK, Numbered
<1>3. PICK g : g = got[d] OBVIOUS
<1>4. \A m \in DOMAIN g : FrameOK(g[m], d) BY <1>3 DEF LineOK, InOrder
<1>5. CASE chat[f.t].session \in crossed
  BY <1>1, <1>5 DEF Delivered, Onward
<1>6. CASE f \in dropped \/ InList(f, got[d])
  BY <1>1, <1>6 DEF Delivered, InList
<1>7. CASE AllAhead(g, f) /\ (Gone(d) \/ InList(f, queue[d]) \/ Sending(f))
  <2>1. AllAhead(g, f)' BY <1>2, <1>4, <1>7, AllAheadStays
  <2>2. AllAhead(got[d], f)' BY <1>3, <2>1 DEF AllAhead
  <2>3. Gone(d) => Gone(d)' BY <1>1 DEF Onward
  <2> QED BY <1>1, <1>7, <2>2, <2>3 DEF Delivered
<1> QED BY <1>3, <1>5, <1>6, <1>7 DEF Delivered

LEMMA RecordedStays ==
    ASSUME NEW i, NEW e, Onward, Recorded(i, e), \A n \in DOMAIN e : Delivered(e[n].frame)',
           \A s \in Sessions : stored'[s] = i => stored[s] = i
    PROVE  Recorded(i, e)'
<1>1. \A n \in DOMAIN e : /\ Numbered(e[n].frame)'
                          /\ chat'[e[n].frame.t].conn = chat[e[n].frame.t].conn
                          /\ chat'[e[n].frame.t].session = chat[e[n].frame.t].session
  BY NumberStays DEF Recorded
<1> QED BY <1>1 DEF Recorded

(* The buffers there were stay as they are, and new ones are empty.        *)
BuffersStay ==
    /\ \A i \in 1 .. Len(ring) : ring'[i] = ring[i] /\ taken'[i] = taken[i]
    /\ \A i \in 1 .. Len(ring) : \A s \in Sessions : stored'[s] = i => stored[s] = i
    /\ \A i \in 1 .. Len(ring') : i \in 1 .. Len(ring) \/ (ring'[i] = NewReplayBuffer /\ taken'[i] = << >>)

(* What a buffer has taken: a frame with its number, on a connection.      *)
LEMMA TakenFrame ==
    ASSUME Flow, NEW i \in 1 .. Len(ring), NEW n \in DOMAIN taken[i]
    PROVE  /\ Numbered(taken[i][n].frame) /\ Delivered(taken[i][n].frame)
           /\ chat[taken[i][n].frame.t].conn \in Conns /\ taken[i][n].frame.t \in Requests
<1>1. Numbered(taken[i][n].frame) /\ Delivered(taken[i][n].frame) BY DEF Flow, BufferOK, Recorded
<1> QED BY <1>1 DEF Numbered, Flow, TurnOK

LEMMA BufferStays ==
    ASSUME Flow, Onward, NEW i \in 1 .. Len(ring), ring'[i] = ring[i], taken'[i] = taken[i],
           \A s \in Sessions : stored'[s] = i => stored[s] = i,
           \A n \in DOMAIN taken[i] : \A f \in {taken[i][n].frame} : Delivered(f)'
    PROVE  BufferOK(i)'
<1>1. PICK e : e = taken[i] OBVIOUS
<1>2. BufferOK(i) BY DEF Flow
<1>3. Recorded(i, e) BY <1>1, <1>2 DEF BufferOK
<1>4. \A n \in DOMAIN e : Delivered(e[n].frame)' BY <1>1
<1>5. Recorded(i, e)' BY <1>3, <1>4, RecordedStays
<1>6. e = taken'[i] BY <1>1
<1> QED BY <1>2, <1>5, <1>6 DEF BufferOK

LEMMA BufferBegins == ASSUME NEW i, ring'[i] = NewReplayBuffer, taken'[i] = << >> PROVE BufferOK(i)'
<1>1. IsList(<< >>)
  <2>1. << >> \in Seq({}) OBVIOUS
  <2> QED BY <2>1, ListOf
<1>2. Recorded(i, << >>)' BY DEF Recorded
<1> QED BY <1>1, <1>2, HoldsNothing DEF BufferOK

(* A step that takes nothing; one that sends nothing either.               *)
LEMMA FlowGoes ==
    ASSUME Flow, Onward, BuffersStay, got' = [c \in Conns |-> got'[c]],
           \A c \in Conns : ConnOK(c)' /\ LineOK(c)',
           \A t \in Requests : TurnOK(t)' /\ SendingOK(t)' /\ HasBuffer(t)',
           StoreOK',
           \A i \in 1 .. Len(ring) : \A n \in DOMAIN taken[i] : \A f \in {taken[i][n].frame} : Delivered(f)'
    PROVE  Flow'
<1>1. \A i \in 1 .. Len(ring) : BufferOK(i)' BY BufferStays DEF BuffersStay
<1>2. \A i \in 1 .. Len(ring') : BufferOK(i)' BY <1>1, BufferBegins DEF BuffersStay
<1> QED BY <1>2 DEF Flow

LEMMA FlowStays ==
    ASSUME Flow, Onward, BuffersStay, UNCHANGED <<got, queue, dropped>>,
           \A t \in Requests : chat[t].pc = "send" => chat'[t].pc = "send" /\ chat'[t].frame = chat[t].frame,
           \A c \in Conns : ConnOK(c)',
           \A t \in Requests : TurnOK(t)' /\ SendingOK(t)' /\ HasBuffer(t)',
           StoreOK'
    PROVE  Flow'
<1>1. \A c \in Conns : LineOK(c)' BY LineStays DEF Flow
<1>2. ASSUME NEW i \in 1 .. Len(ring), NEW n \in DOMAIN taken[i], NEW f \in {taken[i][n].frame}
      PROVE  Delivered(f)'
  <2>1. Numbered(f) /\ Delivered(f) /\ chat[f.t].conn \in Conns /\ f.t \in Requests BY TakenFrame
  <2>2. PICK d \in Conns : d = chat[f.t].conn BY <2>1
  <2>3. LineOK(d) BY DEF Flow
  <2>4. Sending(f) => Sending(f)' BY <2>1 DEF Sending
  <2>5. InList(f, queue[d]) => InList(f, queue[d])' BY DEF InList
  <2> QED BY <2>1, <2>2, <2>3, <2>4, <2>5, DeliveredStays
<1>3. got' = [c \in Conns |-> got'[c]] BY DEF Flow
<1> QED BY <1>1, <1>2, <1>3, FlowGoes

(* A turn that is not taken a step by, and one that sends nothing new.     *)
LEMMA SendingStays ==
    ASSUME Flow, Onward, UNCHANGED <<got, queue>>, NEW t \in Requests,
           chat'[t].pc = "send" =>
               \/ chat[t].pc = "send" /\ chat'[t].frame = chat[t].frame
               \/ chat'[t].frame = Frame(t, "error", 0) /\ Started(t)
    PROVE  SendingOK(t)'
<1> SUFFICES ASSUME chat'[t].pc = "send" PROVE SendingOK(t)' BY DEF SendingOK
<1>1. Started(t) BY DEF Started
<1>2. PICK c \in Conns : c = chat[t].conn BY <1>1 DEF Flow, TurnOK
<1>3. chat'[t].conn = c BY <1>1, <1>2 DEF Onward
<1>4. CASE chat[t].pc = "send" /\ chat'[t].frame = chat[t].frame
  <2>1. PICK f : f = chat[t].frame OBVIOUS
  <2>2. f.t = t /\ Comes(f, c) BY <1>2, <1>4, <2>1 DEF Flow, SendingOK
  <2>3. Comes(f, c)' BY <2>2, ComesStays DEF Flow
  <2>4. chat'[t].frame = f BY <1>4, <2>1
  <2> QED BY <1>3, <2>2, <2>3, <2>4 DEF SendingOK
<1>5. CASE chat'[t].frame = Frame(t, "error", 0)
  <2>1. PICK f : f = Frame(t, "error", 0) OBVIOUS
  <2>2. f.t = t /\ f.q = 0 BY <2>1 DEF Frame
  <2>3. Comes(f, c)' BY <2>2 DEF Comes, FrameOK, AllAhead, Ahead
  <2> QED BY <1>3, <1>5, <2>1, <2>2, <2>3 DEF SendingOK
<1> QED BY <1>4, <1>5

(* No request comes to be under way.                                       *)
LEMMA TurnStays ==
    ASSUME Flow, Onward, UNCHANGED setting,
           \A t \in Requests : (Started(t)' => Started(t)) /\ (UnderWay(t)' => UnderWay(t)),
           NEW t \in Requests
    PROVE  TurnOK(t)'
<1>1. TurnOK(t) BY DEF Flow
<1>2. Started(t)' => t \in setting'.turns /\ chat'[t].conn \in Conns /\ chat'[t].session \in Sessions
  BY <1>1 DEF TurnOK, Onward
<1>3. ASSUME NEW u \in Requests, UnderWay(t)', UnderWay(u)', chat'[t].session = chat'[u].session
      PROVE  t = u \/ chat'[t].session \in crossed'
  <2>1. UnderWay(t) /\ UnderWay(u) BY <1>3
  <2>2. Started(t) /\ Started(u) BY <2>1 DEF UnderWay, Started
  <2>3. chat'[t].session = chat[t].session /\ chat'[u].session = chat[u].session BY <2>2 DEF Onward
  <2> QED BY <1>1, <1>3, <2>1, <2>3 DEF TurnOK, Onward
<1> QED BY <1>2, <1>3 DEF TurnOK

LEMMA BufferKeeps ==
    ASSUME Flow, Onward, BuffersStay, Len(ring) <= Len(ring'), Len(ring') \in Nat, NEW t \in Requests,
           chat'[t].pc \notin {"none", "enter"} =>
               chat[t].pc \notin {"none", "enter"} /\ chat'[t].buf = chat[t].buf
    PROVE  HasBuffer(t)'
<1> SUFFICES ASSUME chat'[t].pc \notin {"none", "enter"} PROVE HasBuffer(t)' BY DEF HasBuffer
<1>1. Started(t) /\ chat'[t].buf = chat[t].buf BY DEF Started
<1>2. chat'[t].session = chat[t].session BY <1>1 DEF Onward
<1>3. chat[t].buf \in 1 .. Len(ring) /\ \A s \in Sessions : stored[s] = chat[t].buf => s = chat[t].session
  BY DEF Flow, HasBuffer
<1>4. Len(ring) \in Nat BY DEF Flow, StoreOK, IsList
<1>5. chat[t].buf \in 1 .. Len(ring') BY <1>3, <1>4
<1>6. \A s \in Sessions : stored'[s] = chat[t].buf => stored[s] = chat[t].buf BY <1>3 DEF BuffersStay
<1> QED BY <1>1, <1>2, <1>3, <1>5, <1>6 DEF HasBuffer

(* The buffers stay, and so do the requests.                               *)
LEMMA StoreSame ==
    ASSUME Flow, UNCHANGED <<ring, stored, taken>>
    PROVE  BuffersStay /\ StoreOK' /\ Len(ring') \in Nat
<1>1. StoreOK' BY DEF Flow, StoreOK
<1>2. BuffersStay BY DEF BuffersStay
<1>3. Len(ring') \in Nat BY DEF Flow, StoreOK, IsList
<1> QED BY <1>1, <1>2, <1>3

(* A step of connections, of the hub and of the clock.                     *)
ConnsOnward == \A c \in Conns :
    ConnOK(c)' /\ conn'[c].seq = conn[c].seq /\ (Gone(c) => Gone(c)')

LEMMA OnwardStill ==
    ASSUME Flow, ConnsOnward, UNCHANGED <<chat, crossed>>
    PROVE  Onward
<1>1. \A c \in Conns : conn[c].seq \in Nat BY DEF Flow, ConnOK
<1>2. \A t \in Requests : Started(t) => Started(t)' /\ chat[t].conn \in Conns BY DEF Flow, TurnOK, Started
<1> QED BY <1>1, <1>2 DEF Onward, ConnsOnward

LEMMA QuietFlow ==
    ASSUME Flow, ConnsOnward, UNCHANGED <<got, queue, dropped, chat, crossed, setting, ring, stored, taken>>
    PROVE  Flow'
<1>1. Onward BY OnwardStill
<1>2. BuffersStay /\ StoreOK' /\ Len(ring') \in Nat BY StoreSame
<1>3. \A t \in Requests : (Started(t)' => Started(t)) /\ (UnderWay(t)' => UnderWay(t))
  BY DEF Started, UnderWay
<1>4. \A t \in Requests : TurnOK(t)' BY <1>1, <1>3, TurnStays
<1>5. \A t \in Requests : SendingOK(t)' BY <1>1, SendingStays
<1>6. \A t \in Requests : HasBuffer(t)' BY <1>1, <1>2, BufferKeeps
<1> QED BY <1>1, <1>2, <1>4, <1>5, <1>6, FlowStays DEF ConnsOnward

(* A connection is set to r.                                               *)
LEMMA ConnSetTo ==
    ASSUME SocketInv, NEW c \in Conns, NEW r, SetConn(c, r)
    PROVE  conn'[c] = r /\ \A d \in Conns : d # c => conn'[d] = conn[d]
  BY DEF SocketInv, SocketShape, SetConn

LEMMA ConnGoesOn ==
    ASSUME SocketInv, Flow, NEW c \in Conns, NEW r, SetConn(c, r),
           r.seq = conn[c].seq,
           r.done => conn[c].done \/ (r.reader # "none" /\ r.net # "up"),
           r.net = "up" => conn[c].net = "up" \/ conn[c].reader = "none",
           r.reader = "none" => conn[c].reader = "none" /\ r.writer = conn[c].writer /\ hub' \subseteq hub,
           r.reader = "reply" => r.reply = <<Refusal>>,
           hub' \subseteq hub \union {c}, shut'.left \subseteq shut.left
    PROVE  ConnsOnward
<1>1. conn'[c] = r /\ \A d \in Conns : d # c => conn'[d] = conn[d] BY ConnSetTo
<1>2. \A d \in Conns : ConnOK(d) BY DEF Flow
<1>3. ASSUME NEW d \in Conns, d # c PROVE ConnOK(d)' /\ conn'[d].seq = conn[d].seq /\ (Gone(d) => Gone(d)')
  <2>1. conn'[d] = conn[d] /\ ConnOK(d) BY <1>1, <1>2, <1>3
  <2>2. Gone(d) <=> Gone(d)' BY <2>1 DEF Gone
  <2> QED BY <1>3, <2>1, <2>2 DEF ConnOK
<1>4. Gone(c) => Gone(c)' BY <1>1 DEF Gone
<1>5. ConnOK(c)'
  <2>1. ConnOK(c) BY <1>2
  <2>2. r.done => Gone(c)' BY <1>1, <1>4, <2>1 DEF ConnOK, Gone
  <2> QED BY <1>1, <2>1, <2>2 DEF ConnOK
<1> QED BY <1>1, <1>3, <1>4, <1>5 DEF ConnsOnward

LEMMA HubGoesOn ==
    ASSUME Flow, UNCHANGED conn, hub' \subseteq hub, shut'.left \subseteq shut.left \union hub
    PROVE  ConnsOnward
<1>1. ASSUME NEW c \in Conns PROVE ConnOK(c)' /\ (Gone(c) => Gone(c)')
  <2>1. ConnOK(c) BY DEF Flow
  <2>2. Gone(c) <=> Gone(c)' BY DEF Gone
  <2> QED BY <2>1, <2>2 DEF ConnOK
<1> QED BY <1>1 DEF ConnsOnward

LEMMA ConnFlow ==
    ASSUME SocketInv, Flow, NEW c \in Conns,
           \/ Upgrade(c) \/ Lose(c) \/ WriteFails(c) \/ ReadFails(c) \/ Unregister(c)
           \/ Refuse(c) \/ ShutdownClose(c)
    PROVE  Flow'
<1>1. DOMAIN conn[c] = ConnFields /\ ConnOK(c) BY DEF SocketInv, SocketShape, Flow
<1>2. ConnsOnward
  <2>1. CASE Upgrade(c)
    <3>1. CASE SetConn(c, [conn[c] EXCEPT !.reader = "gone", !.writer = "gone",
                                          !.net = "closed", !.done = TRUE]) /\ UNCHANGED hub
      BY <1>1, <2>1, <3>1, ConnGoesOn DEF ConnFields, Upgrade
    <3>2. CASE /\ SetConn(c, [conn[c] EXCEPT !.reader = "read", !.writer = "run", !.net = "up"])
               /\ hub' = hub \union {c}
      <4> DEFINE r == [conn[c] EXCEPT !.reader = "read", !.writer = "run", !.net = "up"]
      <4>1. r.seq = conn[c].seq /\ r.done = conn[c].done /\ r.reader = "read" BY <1>1 DEF ConnFields
      <4>2. conn[c].reader = "none" /\ ~conn[c].done BY <1>1, <2>1 DEF Upgrade, ConnOK, Gone
      <4>3. SetConn(c, r) /\ shut' = shut BY <2>1, <3>2 DEF Upgrade
      <4> HIDE DEF r
      <4> QED BY <3>2, <4>1, <4>2, <4>3, ConnGoesOn
    <3> QED BY <2>1, <3>1, <3>2 DEF Upgrade
  <2>2. CASE Lose(c) BY <1>1, <2>2, ConnGoesOn DEF Lose, ConnFields, ConnOK
  <2>3. CASE WriteFails(c) BY <1>1, <2>3, ConnGoesOn DEF WriteFails, ConnFields, ConnOK
  <2>4. CASE ReadFails(c) BY <1>1, <2>4, ConnGoesOn DEF ReadFails, ConnFields, ConnOK
  <2>5. CASE Unregister(c) BY <1>1, <2>5, ConnGoesOn DEF Unregister, ConnFields, ConnOK
  <2>6. CASE Refuse(c) BY <1>1, <2>6, ConnGoesOn DEF Refuse, Reply, ConnFields, ConnOK
  <2>7. CASE ShutdownClose(c) BY <1>1, <2>7, ConnGoesOn DEF ShutdownClose, ConnFields, ConnOK
  <2> QED BY <2>1, <2>2, <2>3, <2>4, <2>5, <2>6, <2>7
<1>3. UNCHANGED <<got, queue, dropped, chat, crossed, setting, ring, stored, taken>>
  BY DEF Upgrade, Lose, WriteFails, ReadFails, Unregister, Refuse, ShutdownClose, replayVars
<1> QED BY <1>2, <1>3, QuietFlow

LEMMA HubFlow ==
    ASSUME Flow, Shutdown \/ ShutdownNext \/ TimePasses \/ UNCHANGED socketVars
    PROVE  Flow'
<1>1. UNCHANGED <<conn, got, queue, dropped, chat, crossed, setting, ring, stored, taken>>
  BY DEF Shutdown, ShutdownNext, TimePasses, Age, socketVars, connVars, replayVars
<1>2. hub' \subseteq hub /\ shut'.left \subseteq shut.left \union hub
  <2>1. CASE Shutdown
    <3>1. hub' = hub /\ shut'.left = hub BY <2>1 DEF Shutdown, connVars
    <3> QED BY <3>1
  <2>2. CASE ShutdownNext
    <3>1. hub' \subseteq hub /\ shut' = [shut EXCEPT !.at = 0] BY <2>2 DEF ShutdownNext
    <3>2. shut'.left = shut.left BY <3>1
    <3> QED BY <3>1, <3>2
  <2>3. CASE TimePasses \/ UNCHANGED socketVars
    BY <2>3 DEF TimePasses, socketVars, connVars
  <2> QED BY <2>1, <2>2, <2>3
<1> QED BY <1>1, <1>2, HubGoesOn, QuietFlow

-----------------------------------------------------------------------------
(* The steps of a turn that send nothing.                                  *)
LEMMA ChatSetTo ==
    ASSUME SocketInv, NEW t \in Requests, NEW r, SetChat(t, r)
    PROVE  chat'[t] = r /\ \A u \in Requests : u # t => chat'[u] = chat[u]
  BY DEF SocketInv, SocketShape, SetChat

LEMMA OnwardTurn ==
    ASSUME Flow, crossed \subseteq crossed', NEW t \in Requests,
           \A c \in Conns : /\ conn'[c].seq \in Nat /\ conn[c].seq <= conn'[c].seq
                            /\ Gone(c) => Gone(c)',
           \A u \in Requests : u # t => chat'[u] = chat[u],
           Started(t) => /\ Started(t)'
                         /\ chat'[t].conn = chat[t].conn /\ chat'[t].session = chat[t].session
    PROVE  Onward
<1>1. \A c \in Conns : conn[c].seq \in Nat BY DEF Flow, ConnOK
<1>2. ASSUME NEW u \in Requests, Started(u)
      PROVE  /\ Started(u)' /\ chat[u].conn \in Conns
             /\ chat'[u].conn = chat[u].conn /\ chat'[u].session = chat[u].session
  BY <1>2 DEF Flow, TurnOK, Started
<1> QED BY <1>1, <1>2 DEF Onward

LEMMA TurnFlow ==
    ASSUME SocketInv, Flow, UNCHANGED <<conn, hub, shut, got, queue, dropped, crossed, setting>>,
           NEW t \in Requests, NEW r, SetChat(t, r), Started(t), r.pc # "none",
           r.conn = chat[t].conn, r.session = chat[t].session, r.pc # "gone" => chat[t].pc # "gone",
           chat[t].pc = "send" => r.pc = "send" /\ r.frame = chat[t].frame,
           r.pc = "send" => chat[t].pc = "send" \/ r.frame = Frame(t, "error", 0),
           BuffersStay, StoreOK', Len(ring) <= Len(ring'), Len(ring') \in Nat, HasBuffer(t)'
    PROVE  Flow'
<1>1. chat'[t] = r /\ \A u \in Requests : u # t => chat'[u] = chat[u] BY ChatSetTo
<1>2. ConnsOnward BY HubGoesOn
<1>3. Onward
  <2>1. \A c \in Conns : /\ conn'[c].seq \in Nat /\ conn[c].seq <= conn'[c].seq
                         /\ Gone(c) => Gone(c)'
    BY <1>2 DEF ConnsOnward, Flow, ConnOK
  <2>2. Started(t)' /\ chat'[t].conn = chat[t].conn /\ chat'[t].session = chat[t].session
    BY <1>1 DEF Started
  <2> QED BY <1>1, <2>1, <2>2, OnwardTurn
<1>4. \A u \in Requests : (Started(u)' => Started(u)) /\ (UnderWay(u)' => UnderWay(u))
  BY <1>1 DEF Started, UnderWay
<1>5. \A u \in Requests : TurnOK(u)' BY <1>3, <1>4, TurnStays
<1>6. \A u \in Requests : chat[u].pc = "send" => chat'[u].pc = "send" /\ chat'[u].frame = chat[u].frame
  BY <1>1
<1>7. ASSUME NEW u \in Requests, chat'[u].pc = "send"
      PROVE  \/ chat[u].pc = "send" /\ chat'[u].frame = chat[u].frame
             \/ chat'[u].frame = Frame(u, "error", 0) /\ Started(u)
  BY <1>1, <1>7
<1>8. \A u \in Requests : SendingOK(u)' BY <1>3, <1>7, SendingStays
<1>9. ASSUME NEW u \in Requests PROVE HasBuffer(u)'
  <2>1. CASE u = t BY <2>1
  <2>2. CASE u # t
    <3>1. chat'[u] = chat[u] BY <1>1, <2>2
    <3> QED BY <1>3, <3>1, BufferKeeps
  <2> QED BY <2>1, <2>2
<1> QED BY <1>2, <1>3, <1>5, <1>6, <1>8, <1>9, FlowStays DEF ConnsOnward

LEMMA HasBufferStays ==
    ASSUME Flow, Len(ring') = Len(ring), UNCHANGED stored, NEW t \in Requests, Started(t),
           chat'[t].session = chat[t].session, chat'[t].buf = chat[t].buf,
           chat[t].pc # "enter" \/ chat'[t].pc = "enter"
    PROVE  HasBuffer(t)'
  BY DEF Flow, HasBuffer, Started

LEMMA EndFlow ==
    ASSUME SocketInv, Flow, NEW t \in Requests, Return(t) \/ EndTurn(t) \/ Kill(t)
    PROVE  Flow'
<1>1. DOMAIN chat[t] = ChatFields BY DEF SocketInv, SocketShape
<1>2. PICK r : /\ SetChat(t, r)
               /\ \/ chat[t].pc = "run" /\ r = [chat[t] EXCEPT !.pc = "content"]
                  \/ chat[t].pc = "run" /\ r = [chat[t] EXCEPT !.pc = "leave"]
                  \/ chat[t].pc = "run" /\ r = [chat[t] EXCEPT !.pc = "send", !.frame = Frame(t, "error", 0)]
                  \/ chat[t].pc = "leave" /\ r = [chat[t] EXCEPT !.pc = "gone"]
                  \/ chat[t].pc \notin {"none", "gone"} /\ r = [chat[t] EXCEPT !.killed = TRUE]
  BY DEF Return, EndTurn, Kill
<1>3. /\ r.conn = chat[t].conn /\ r.session = chat[t].session /\ r.buf = chat[t].buf
      /\ chat[t].pc \notin {"none", "gone"} /\ r.pc # "none"
      /\ chat[t].pc = "send" => r.pc = "send" /\ r.frame = chat[t].frame
      /\ r.pc = "send" => chat[t].pc = "send" \/ r.frame = Frame(t, "error", 0)
      /\ chat[t].pc # "enter" \/ r.pc = "enter"
  <2>1. CASE chat[t].pc = "run" /\ r = [chat[t] EXCEPT !.pc = "content"] BY <1>1, <2>1 DEF ChatFields
  <2>2. CASE chat[t].pc = "run" /\ r = [chat[t] EXCEPT !.pc = "leave"] BY <1>1, <2>2 DEF ChatFields
  <2>3. CASE chat[t].pc = "run" /\ r = [chat[t] EXCEPT !.pc = "send", !.frame = Frame(t, "error", 0)]
    BY <1>1, <2>3 DEF ChatFields
  <2>4. CASE chat[t].pc = "leave" /\ r = [chat[t] EXCEPT !.pc = "gone"] BY <1>1, <2>4 DEF ChatFields
  <2>5. CASE chat[t].pc \notin {"none", "gone"} /\ r = [chat[t] EXCEPT !.killed = TRUE]
    BY <1>1, <2>5 DEF ChatFields
  <2> QED BY <1>2, <2>1, <2>2, <2>3, <2>4, <2>5
<1>4. UNCHANGED <<conn, hub, shut, got, queue, dropped, crossed, setting, ring, stored, taken>>
  BY DEF Return, EndTurn, Kill, connVars, replayVars
<1>5. Started(t) BY <1>3 DEF Started
<1>6. chat'[t] = r BY <1>2, ChatSetTo
<1>7. HasBuffer(t)' BY <1>3, <1>4, <1>5, <1>6, HasBufferStays
<1>8. BuffersStay /\ StoreOK' /\ Len(ring') \in Nat BY <1>4, StoreSame
<1>9. SetChat(t, r) /\ Len(ring) <= Len(ring') BY <1>2, <1>4, <1>8
<1> QED BY <1>3, <1>4, <1>5, <1>7, <1>8, <1>9, TurnFlow

(* A buffer is made for a session, perhaps in the place of another's.      *)
LEMMA BufferMade ==
    ASSUME Flow, NEW s \in Sessions, ring' = Append(ring, NewReplayBuffer), taken' = Append(taken, << >>),
           NEW r \in Sessions, NEW i, i = Len(ring) + 1,
           \/ stored' = [stored EXCEPT ![s] = i]
           \/ stored' = [stored EXCEPT ![r] = NoBuffer, ![s] = i]
    PROVE  /\ BuffersStay /\ StoreOK' /\ Len(ring') = Len(ring) + 1 /\ Len(ring) \in Nat
           /\ \A x \in Sessions : stored'[x] = i => x = s
<1>1. /\ IsList(ring) /\ IsList(taken) /\ Len(ring) = Len(taken)
      /\ stored \in [Sessions -> 0 .. Len(ring)]
      /\ \A a, b \in Sessions : stored[a] = stored[b] => a = b \/ stored[a] = NoBuffer
  BY DEF Flow, StoreOK
<1>2. Len(ring) \in Nat /\ DOMAIN ring = 1 .. Len(ring) BY <1>1 DEF IsList
<1>3. IsList(ring') /\ IsList(taken') BY <1>1, ListGrows
<1>4. /\ Len(ring') = Len(ring) + 1 /\ Len(taken') = Len(ring) + 1
      /\ ring'[i] = NewReplayBuffer /\ taken'[i] = << >>
      /\ \A j \in 1 .. Len(ring) : ring'[j] = ring[j] /\ taken'[j] = taken[j]
  BY <1>1, <1>2 DEF IsList
<1>5. /\ stored' = [x \in Sessions |-> stored'[x]] /\ stored'[s] = i
      /\ \A x \in Sessions : x # s => stored'[x] = stored[x] \/ stored'[x] = 0
  BY <1>1 DEF NoBuffer
<1>6. \A x \in Sessions : stored[x] \in Nat /\ stored[x] <= Len(ring) BY <1>1, <1>2
<1>7. \A x \in Sessions : stored'[x] \in 0 .. Len(ring') BY <1>2, <1>4, <1>5, <1>6
<1>8. \A x \in Sessions : stored'[x] = i => x = s BY <1>2, <1>5, <1>6
<1>9. ASSUME NEW a \in Sessions, NEW b \in Sessions, stored'[a] = stored'[b]
      PROVE  a = b \/ stored'[a] = NoBuffer
  BY <1>1, <1>5, <1>8, <1>9 DEF NoBuffer
<1>10. StoreOK' BY <1>3, <1>4, <1>5, <1>7, <1>9 DEF StoreOK
<1>11. ASSUME NEW j \in 1 .. Len(ring), NEW x \in Sessions, stored'[x] = j PROVE stored[x] = j
  BY <1>2, <1>5, <1>11
<1>12. \A j \in 1 .. Len(ring') : j \in 1 .. Len(ring) \/ (ring'[j] = NewReplayBuffer /\ taken'[j] = << >>)
  BY <1>2, <1>4
<1>13. BuffersStay BY <1>4, <1>11, <1>12 DEF BuffersStay
<1> QED BY <1>2, <1>4, <1>8, <1>10, <1>13

LEMMA BufferFound ==
    ASSUME Flow, NEW s \in Sessions, NEW i, NEW m, Buffer(s, i, m)
    PROVE  /\ BuffersStay /\ StoreOK' /\ Len(ring) <= Len(ring') /\ Len(ring') \in Nat
           /\ i \in 1 .. Len(ring') /\ \A x \in Sessions : stored'[x] = i => x = s
<1>1. CASE stored[s] # NoBuffer /\ i = stored[s] /\ UNCHANGED replayVars
  <2>1. BuffersStay /\ StoreOK' /\ Len(ring') \in Nat BY <1>1, StoreSame DEF replayVars
  <2>2. stored[s] \in 0 .. Len(ring) /\ \A x \in Sessions : stored[x] = stored[s] => x = s
    BY <1>1 DEF Flow, StoreOK
  <2>3. ring' = ring /\ stored' = stored BY <1>1 DEF replayVars
  <2> QED BY <1>1, <2>1, <2>2, <2>3 DEF NoBuffer
<1>2. CASE /\ stored[s] = NoBuffer /\ i = Len(ring) + 1
           /\ ring' = Append(ring, NewReplayBuffer) /\ taken' = Append(taken, << >>)
           /\ \/ Cardinality(Listed) < m /\ stored' = [stored EXCEPT ![s] = i]
              \/ /\ Cardinality(Listed) >= m
                 /\ \E r \in Evictable : stored' = [stored EXCEPT ![r] = NoBuffer, ![s] = i]
  <2>1. Evictable \subseteq Sessions BY DEF Evictable, Listed
  <2>2. PICK r \in Sessions : \/ stored' = [stored EXCEPT ![s] = i]
                              \/ stored' = [stored EXCEPT ![r] = NoBuffer, ![s] = i]
    BY <1>2, <2>1
  <2>3. /\ BuffersStay /\ StoreOK' /\ Len(ring') = Len(ring) + 1 /\ Len(ring) \in Nat
        /\ \A x \in Sessions : stored'[x] = i => x = s
    BY <1>2, <2>2, BufferMade
  <2> QED BY <1>2, <2>3
<1> QED BY <1>1, <1>2 DEF Buffer

LEMMA StartFlow == ASSUME SocketInv, Flow, NEW t \in Requests, StartTurn(t) PROVE Flow'
<1>1. DOMAIN chat[t] = ChatFields /\ chat[t].pc = "enter" /\ Started(t)
  BY DEF SocketInv, SocketShape, StartTurn, Started
<1>2. chat[t].session \in Sessions BY <1>1 DEF Flow, TurnOK
<1>3. PICK i : /\ Buffer(chat[t].session, i, setting.room)
               /\ SetChat(t, [chat[t] EXCEPT !.pc = "run", !.buf = i])
  BY DEF StartTurn
<1>4. PICK r : r = [chat[t] EXCEPT !.pc = "run", !.buf = i] OBVIOUS
<1>5. r.pc = "run" /\ r.buf = i /\ r.conn = chat[t].conn /\ r.session = chat[t].session
  BY <1>1, <1>4 DEF ChatFields
<1>6. SetChat(t, r) BY <1>3, <1>4
<1>7. chat'[t] = r BY <1>6, ChatSetTo
<1>8. /\ BuffersStay /\ StoreOK' /\ Len(ring) <= Len(ring') /\ Len(ring') \in Nat
      /\ i \in 1 .. Len(ring') /\ \A x \in Sessions : stored'[x] = i => x = chat[t].session
  BY <1>2, <1>3, BufferFound
<1>9. HasBuffer(t)' BY <1>5, <1>7, <1>8 DEF HasBuffer
<1>10. UNCHANGED <<conn, hub, shut, got, queue, dropped, crossed, setting>> BY DEF StartTurn, connVars
<1> QED BY <1>1, <1>5, <1>6, <1>8, <1>9, <1>10, TurnFlow

LEMMA CleanupFlow == ASSUME Flow, CleanupTick PROVE Flow'
<1>1. /\ stored' = [s \in Sessions |->
                       IF s \in Listed /\ Stale(BufferOf(s)) THEN NoBuffer ELSE stored[s]]
      /\ UNCHANGED <<conn, hub, shut, got, queue, dropped, crossed, setting, chat, ring, taken>>
  BY DEF CleanupTick, Cleanup, connVars
<1>2. ConnsOnward BY <1>1, HubGoesOn
<1>3. Onward BY <1>1, <1>2, OnwardStill
<1>4. \A s \in Sessions : stored'[s] = stored[s] \/ stored'[s] = NoBuffer BY <1>1
<1>5. Len(ring) \in Nat /\ stored' = [s \in Sessions |-> stored'[s]] BY <1>1 DEF Flow, StoreOK, IsList
<1>6. StoreOK'
  <2>1. /\ IsList(ring) /\ IsList(taken) /\ Len(ring) = Len(taken)
        /\ stored \in [Sessions -> 0 .. Len(ring)]
        /\ \A s, r \in Sessions : stored[s] = stored[r] => s = r \/ stored[s] = NoBuffer
    BY DEF Flow, StoreOK
  <2>2. \A s \in Sessions : stored'[s] \in 0 .. Len(ring) BY <1>4, <1>5, <2>1 DEF NoBuffer
  <2>3. stored' \in [Sessions -> 0 .. Len(ring)] BY <1>5, <2>2
  <2>4. \A s, r \in Sessions : stored'[s] = stored'[r] => s = r \/ stored'[s] = NoBuffer
    BY <1>4, <2>1
  <2> QED BY <1>1, <2>1, <2>3, <2>4 DEF StoreOK
<1>7. BuffersStay BY <1>1, <1>4, <1>5 DEF BuffersStay, NoBuffer
<1>8. \A t \in Requests : HasBuffer(t)' BY <1>1, <1>3, <1>5, <1>7, BufferKeeps
<1>9. \A t \in Requests : (Started(t)' => Started(t)) /\ (UnderWay(t)' => UnderWay(t))
  BY <1>1 DEF Started, UnderWay
<1>10. \A t \in Requests : TurnOK(t)' BY <1>1, <1>3, <1>9, TurnStays
<1>11. \A t \in Requests : SendingOK(t)' BY <1>1, <1>3, SendingStays
<1> QED BY <1>1, <1>2, <1>3, <1>6, <1>7, <1>8, <1>10, <1>11, FlowStays DEF ConnsOnward

LEMMA ChatFlow ==
    ASSUME SocketInv, Flow, NEW c \in Conns, NEW s \in Sessions, NEW t \in setting.turns, t \in Requests,
           Chat(c, s, t)
    PROVE  Flow'
<1>1. /\ DOMAIN conn[c] = ConnFields /\ DOMAIN chat[t] = ChatFields /\ ConnOK(c)
      /\ chat[t].pc = "none" /\ conn[c].reader = "read"
  BY DEF SocketInv, SocketShape, Flow, Chat, Reading
<1>2. UNCHANGED <<hub, queue, got, shut, dropped, setting, ring, stored, taken>> BY DEF Chat, replayVars
<1>3. CASE Reply(c, <<Refusal>>) /\ UNCHANGED <<chat, crossed>>
  <2>1. ConnsOnward BY <1>1, <1>2, <1>3, ConnGoesOn DEF Reply, ConnFields, ConnOK
  <2> QED BY <1>2, <1>3, <2>1, QuietFlow
<1>4. CASE /\ SetChat(t, [chat[t] EXCEPT !.pc = "enter", !.conn = c, !.session = s])
           /\ crossed' = IF \E u \in setting.turns :
                               chat[u].session = s /\ chat[u].pc \notin {"none", "gone"}
                          THEN crossed \union {s} ELSE crossed
           /\ UNCHANGED <<conn, once>>
  <2>1. PICK r : r = [chat[t] EXCEPT !.pc = "enter", !.conn = c, !.session = s] OBVIOUS
  <2>2. r.pc = "enter" /\ r.conn = c /\ r.session = s BY <1>1, <2>1 DEF ChatFields
  <2>3. chat'[t] = r /\ \A u \in Requests : u # t => chat'[u] = chat[u] BY <1>4, <2>1, ChatSetTo
  <2>4. crossed \subseteq crossed' BY <1>4
  <2>5. ConnsOnward BY <1>2, <1>4, HubGoesOn
  <2>6. ~Started(t) BY <1>1 DEF Started
  <2>7. \A d \in Conns : conn'[d].seq \in Nat /\ conn[d].seq <= conn'[d].seq /\ (Gone(d) => Gone(d)')
    BY <2>5 DEF ConnsOnward, Flow, ConnOK
  <2>8. Onward BY <2>3, <2>4, <2>6, <2>7, OnwardTurn
  <2>9. ASSUME NEW u \in Requests, u # t, UnderWay(u)', chat'[u].session = s PROVE s \in crossed'
    <3>1. chat'[u] = chat[u] BY <2>3, <2>9
    <3>2. UnderWay(u) /\ Started(u) /\ chat[u].session = s BY <2>9, <3>1 DEF UnderWay, Started
    <3>3. u \in setting.turns BY <3>2 DEF Flow, TurnOK
    <3> QED BY <1>4, <3>2, <3>3 DEF UnderWay
  <2>10. ASSUME NEW u \in Requests PROVE TurnOK(u)'
    <3>1. CASE u = t
      <4>1. Started(t)' => t \in setting'.turns /\ chat'[t].conn \in Conns /\ chat'[t].session \in Sessions
        BY <1>2, <2>2, <2>3
      <4>2. \A v \in Requests : UnderWay(v)' /\ chat'[t].session = chat'[v].session =>
                t = v \/ chat'[t].session \in crossed'
        BY <2>2, <2>3, <2>9
      <4> QED BY <3>1, <4>1, <4>2 DEF TurnOK
    <3>2. CASE u # t
      <4>1. chat'[u] = chat[u] /\ TurnOK(u) BY <2>3, <3>2 DEF Flow
      <4>2. Started(u)' => u \in setting'.turns /\ chat'[u].conn \in Conns /\ chat'[u].session \in Sessions
        BY <1>2, <4>1 DEF TurnOK, Started
      <4>3. ASSUME NEW v \in Requests, UnderWay(u)', UnderWay(v)', chat'[u].session = chat'[v].session
            PROVE  u = v \/ chat'[u].session \in crossed'
        <5>1. CASE v = t BY <2>2, <2>3, <2>9, <3>2, <4>3, <5>1
        <5>2. CASE v # t
          <6>1. chat'[v] = chat[v] BY <2>3, <5>2
          <6>2. UnderWay(u) /\ UnderWay(v) BY <4>1, <4>3, <6>1 DEF UnderWay
          <6> QED BY <2>4, <4>1, <4>3, <6>1, <6>2 DEF TurnOK
        <5> QED BY <5>1, <5>2
      <4> QED BY <4>2, <4>3 DEF TurnOK
    <3> QED BY <3>1, <3>2
  <2>11. BuffersStay /\ StoreOK' /\ Len(ring') \in Nat BY <1>2, StoreSame
  <2>12. ASSUME NEW u \in Requests PROVE SendingOK(u)' /\ HasBuffer(u)'
    <3>1. chat'[u].pc = "enter" \/ chat'[u] = chat[u] BY <2>2, <2>3
    <3>2. SendingOK(u)' BY <1>2, <2>8, <3>1, SendingStays
    <3>3. Len(ring) <= Len(ring') BY <1>2, <2>11
    <3>4. HasBuffer(u)' BY <2>8, <2>11, <3>1, <3>3, BufferKeeps
    <3> QED BY <3>2, <3>4
  <2>13. \A u \in Requests : chat[u].pc = "send" => chat'[u].pc = "send" /\ chat'[u].frame = chat[u].frame
    BY <1>1, <2>3
  <2> QED BY <1>2, <2>5, <2>8, <2>10, <2>11, <2>12, <2>13, FlowStays DEF ConnsOnward
<1> QED BY <1>3, <1>4 DEF Chat

-----------------------------------------------------------------------------
(* The steps that move frames.  First what they do to a line.              *)
LEMMA Lists ==
    ASSUME NEW s, IsList(s)
    PROVE  /\ Len(s) \in Nat /\ DOMAIN s = 1 .. Len(s)
           /\ \A f : /\ DOMAIN Append(s, f) = 1 .. Len(s) + 1 /\ Append(s, f)[Len(s) + 1] = f
                     /\ \A m \in 1 .. Len(s) : Append(s, f)[m] = s[m]
           /\ s # << >> => /\ 1 \in DOMAIN s /\ Head(s) = s[1] /\ DOMAIN Tail(s) = 1 .. Len(s) - 1
                           /\ \A m \in 1 .. Len(s) - 1 : Tail(s)[m] = s[m + 1]
<1> DEFINE S == {s[i] : i \in DOMAIN s}
<1>1. s \in Seq(S) BY DEF IsList
<1>2. DOMAIN s = 1 .. Len(s) /\ Len(s) \in Nat BY <1>1
<1> HIDE DEF S
<1>3. ASSUME NEW f
      PROVE  /\ DOMAIN Append(s, f) = 1 .. Len(s) + 1 /\ Append(s, f)[Len(s) + 1] = f
             /\ \A m \in 1 .. Len(s) : Append(s, f)[m] = s[m]
  <2>1. s \in Seq(S \union {f}) BY <1>1
  <2> QED BY <2>1
<1>4. ASSUME s # << >>
      PROVE  /\ 1 \in DOMAIN s /\ Head(s) = s[1] /\ DOMAIN Tail(s) = 1 .. Len(s) - 1
             /\ \A m \in 1 .. Len(s) - 1 : Tail(s)[m] = s[m + 1]
  BY <1>1, <1>4
<1> QED BY <1>2, <1>3, <1>4

LEMMA OrderGrows ==
    ASSUME NEW s, NEW f, NEW c, InOrder(s, c), FrameOK(f, c), AllAhead(s, f)
    PROVE  InOrder(Append(s, f), c)
<1> DEFINE S == Append(s, f)
<1>1. IsList(s) /\ Len(s) \in Nat /\ DOMAIN s = 1 .. Len(s) BY Lists DEF InOrder
<1>2. IsList(S) BY <1>1, ListGrows
<1>3. DOMAIN S = 1 .. Len(s) + 1 /\ S[Len(s) + 1] = f /\ \A m \in 1 .. Len(s) : S[m] = s[m]
  BY <1>1, Lists
<1> HIDE DEF S
<1>4. \A m \in 1 .. Len(s) + 1 : m \in 1 .. Len(s) \/ m = Len(s) + 1 BY <1>1
<1>5. ASSUME NEW m \in DOMAIN S PROVE FrameOK(S[m], c)
  <2>1. CASE m \in 1 .. Len(s) BY <1>1, <1>3, <2>1 DEF InOrder
  <2>2. CASE m = Len(s) + 1 BY <1>3, <2>2
  <2> QED BY <1>3, <1>4, <2>1, <2>2
<1>6. ASSUME NEW m \in DOMAIN S, NEW n \in DOMAIN S, m < n PROVE Ahead(S[m], S[n])
  <2>1. m \in 1 .. Len(s) BY <1>1, <1>3, <1>6
  <2>2. CASE n \in 1 .. Len(s) BY <1>1, <1>3, <1>6, <2>1, <2>2 DEF InOrder
  <2>3. CASE n = Len(s) + 1 BY <1>1, <1>3, <2>1, <2>3 DEF AllAhead
  <2> QED BY <1>3, <1>4, <2>2, <2>3
<1>7. InOrder(S, c) BY <1>2, <1>5, <1>6 DEF InOrder
<1> QED BY <1>7 DEF S

(* The first frame of the channel goes to the client, or is lost.          *)
LEMMA LineMoves ==
    ASSUME NEW g, NEW w, NEW c, InOrder(g, c), InOrder(w, c), \A n \in DOMAIN w : AllAhead(g, w[n]), w # << >>
    PROVE  /\ InOrder(Append(g, Head(w)), c) /\ InOrder(Tail(w), c)
           /\ \A n \in DOMAIN Tail(w) : AllAhead(g, Tail(w)[n]) /\ AllAhead(Append(g, Head(w)), Tail(w)[n])
<1> DEFINE h == Head(w)  G == Append(g, h)  W == Tail(w)
<1>1. IsList(g) /\ IsList(w) BY DEF InOrder
<1>2. /\ 1 \in DOMAIN w /\ h = w[1] /\ DOMAIN W = 1 .. Len(w) - 1 /\ DOMAIN w = 1 .. Len(w) /\ Len(w) \in Nat
      /\ \A m \in 1 .. Len(w) - 1 : W[m] = w[m + 1]
  BY <1>1, Lists
<1>3. /\ DOMAIN G = 1 .. Len(g) + 1 /\ DOMAIN g = 1 .. Len(g) /\ Len(g) \in Nat
      /\ G[Len(g) + 1] = h /\ \A m \in 1 .. Len(g) : G[m] = g[m]
  BY <1>1, Lists
<1>4. IsList(W) BY <1>1, ListShrinks
<1> HIDE DEF h, G, W
<1>5. FrameOK(h, c) /\ AllAhead(g, h) BY <1>2 DEF InOrder
<1>6. InOrder(G, c) BY <1>5, OrderGrows DEF G
<1>7. \A m \in DOMAIN W : m + 1 \in DOMAIN w /\ W[m] = w[m + 1] /\ 1 < m + 1 /\ m \in Nat BY <1>2
<1>8. ASSUME NEW m \in DOMAIN W, NEW n \in DOMAIN W, m < n PROVE Ahead(W[m], W[n])
  <2>1. m + 1 < n + 1 BY <1>7, <1>8
  <2> QED BY <1>7, <2>1 DEF InOrder
<1>9. InOrder(W, c) BY <1>4, <1>7, <1>8 DEF InOrder
<1>10. ASSUME NEW n \in DOMAIN W PROVE AllAhead(g, W[n]) /\ AllAhead(G, W[n])
  <2>1. AllAhead(g, W[n]) BY <1>7
  <2>2. Ahead(h, W[n]) BY <1>2, <1>7 DEF InOrder
  <2>3. \A m \in DOMAIN G : m \in DOMAIN g \/ m = Len(g) + 1 BY <1>3
  <2>4. AllAhead(G, W[n]) BY <1>3, <2>1, <2>2, <2>3 DEF AllAhead
  <2> QED BY <2>1, <2>4
<1> QED BY <1>6, <1>9, <1>10 DEF h, G, W

(* What comes after all of the line still does.                            *)
LEMMA AfterMoves ==
    ASSUME NEW g, NEW w, NEW f, IsList(g), IsList(w), AllAhead(g, f), AllAhead(w, f), w # << >>
    PROVE  AllAhead(Append(g, Head(w)), f) /\ AllAhead(Tail(w), f)
<1>1. /\ 1 \in DOMAIN w /\ Head(w) = w[1] /\ DOMAIN Tail(w) = 1 .. Len(w) - 1
      /\ DOMAIN w = 1 .. Len(w) /\ Len(w) \in Nat
      /\ \A m \in 1 .. Len(w) - 1 : Tail(w)[m] = w[m + 1]
  BY Lists
<1>2. /\ DOMAIN Append(g, Head(w)) = 1 .. Len(g) + 1 /\ DOMAIN g = 1 .. Len(g) /\ Len(g) \in Nat
      /\ Append(g, Head(w))[Len(g) + 1] = Head(w) /\ \A m \in 1 .. Len(g) : Append(g, Head(w))[m] = g[m]
  BY Lists
<1>3. Ahead(Head(w), f) BY <1>1 DEF AllAhead
<1>4. \A m \in 1 .. Len(g) + 1 : m \in 1 .. Len(g) \/ m = Len(g) + 1 BY <1>2
<1>5. AllAhead(Append(g, Head(w)), f) BY <1>2, <1>3, <1>4 DEF AllAhead
<1>6. \A m \in 1 .. Len(w) - 1 : m + 1 \in DOMAIN w BY <1>1
<1>7. AllAhead(Tail(w), f) BY <1>1, <1>6 DEF AllAhead
<1> QED BY <1>5, <1>7

LEMMA LineTo ==
    ASSUME NEW c, NEW g, NEW w, Onward, InOrder(g, c), InOrder(w, c), \A n \in DOMAIN w : AllAhead(g, w[n]),
           got'[c] = g, queue'[c] = w
    PROVE  LineOK(c)'
<1>1. InOrder(g, c)' /\ InOrder(w, c)' /\ \A n \in DOMAIN w : AllAhead(g, w[n])' BY PairStays
<1> QED BY <1>1 DEF LineOK

LEMMA ComesTo ==
    ASSUME NEW c, NEW g, NEW w, NEW f, Onward, InOrder(g, c), InOrder(w, c), FrameOK(f, c),
           AllAhead(g, f), AllAhead(w, f), got'[c] = g, queue'[c] = w
    PROVE  Comes(f, c)'
<1>1. (\A m \in DOMAIN g : FrameOK(g[m], c)) /\ \A m \in DOMAIN w : FrameOK(w[m], c) BY DEF InOrder
<1>2. FrameOK(f, c)' BY FrameStays
<1>3. AllAhead(g, f)' BY <1>1, AllAheadStays
<1>4. AllAhead(w, f)' BY <1>1, AllAheadStays
<1> QED BY <1>2, <1>3, <1>4 DEF Comes

LEMMA WriteFlow == ASSUME SocketInv, Flow, NEW c \in Conns, Write(c) PROVE Flow'
<1>1. /\ conn[c].writer = "run" /\ queue[c] # << >>
      /\ queue' = [queue EXCEPT ![c] = Tail(@)]
      /\ got' = IF conn[c].net = "up" THEN [got EXCEPT ![c] = Append(@, Head(queue[c]))] ELSE got
      /\ UNCHANGED <<hub, conn, chat, shut, dropped, crossed, setting, ring, stored, taken>>
  BY DEF Write, replayVars
<1>2. got = [d \in Conns |-> got[d]] /\ queue = [d \in Conns |-> queue[d]] /\ LineOK(c) /\ ConnOK(c)
  BY DEF Flow, SocketInv, SocketShape
<1>3. PICK g, w : g = got[c] /\ w = queue[c] OBVIOUS
<1>4. /\ InOrder(g, c) /\ InOrder(w, c) /\ w # << >> /\ IsList(g) /\ IsList(w)
      /\ \A n \in DOMAIN w : AllAhead(g, w[n])
  BY <1>1, <1>2, <1>3 DEF LineOK, InOrder
<1>5. PICK x, y : x = got'[c] /\ y = Tail(w) OBVIOUS
<1>6. queue'[c] = y /\ \A d \in Conns : d # c => queue'[d] = queue[d] /\ got'[d] = got[d]
  BY <1>1, <1>2, <1>3, <1>5
<1>7. IF conn[c].net = "up" THEN x = Append(g, Head(w)) ELSE x = g BY <1>1, <1>2, <1>3, <1>5
<1>8. InOrder(x, c) /\ InOrder(y, c) /\ \A n \in DOMAIN y : AllAhead(x, y[n])
  BY <1>4, <1>5, <1>7, LineMoves
<1>9. ConnsOnward BY <1>1, HubGoesOn
<1>10. Onward BY <1>1, <1>9, OnwardStill
<1>11. ASSUME NEW d \in Conns PROVE LineOK(d)'
  <2>1. CASE d = c BY <1>5, <1>6, <1>8, <1>10, <2>1, LineTo
  <2>2. CASE d # c BY <1>6, <1>10, <2>2, LineStays DEF Flow
  <2> QED BY <2>1, <2>2
<1>12. ASSUME NEW t \in Requests PROVE SendingOK(t)'
  <2> SUFFICES ASSUME chat[t].pc = "send" PROVE SendingOK(t)' BY <1>1 DEF SendingOK
  <2>1. PICK f, d : f = chat[t].frame /\ d = chat[t].conn OBVIOUS
  <2>2. f.t = t /\ Comes(f, d) BY <2>1 DEF Flow, SendingOK
  <2>3. d \in Conns BY <2>1 DEF Flow, TurnOK, Started
  <2>4. CASE d = c
    <3>1. FrameOK(f, c) /\ AllAhead(g, f) /\ AllAhead(w, f) BY <1>3, <2>2, <2>4 DEF Comes
    <3>2. AllAhead(x, f) /\ AllAhead(y, f) BY <1>4, <1>5, <1>7, <3>1, AfterMoves
    <3>3. Comes(f, c)' BY <1>5, <1>6, <1>8, <1>10, <3>1, <3>2, ComesTo
    <3> QED BY <1>1, <2>1, <2>2, <2>4, <3>3 DEF SendingOK
  <2>5. CASE d # c
    <3>1. LineOK(d) /\ got'[d] = got[d] /\ queue'[d] = queue[d] BY <1>6, <2>3, <2>5 DEF Flow
    <3>2. Comes(f, d)' BY <1>10, <2>2, <3>1, ComesStays
    <3> QED BY <1>1, <2>1, <2>2, <3>2 DEF SendingOK
  <2> QED BY <2>4, <2>5
<1>13. ASSUME NEW i \in 1 .. Len(ring), NEW n \in DOMAIN taken[i], NEW f \in {taken[i][n].frame}
       PROVE  Delivered(f)'
  <2>1. Numbered(f) /\ Delivered(f) /\ chat[f.t].conn \in Conns /\ f.t \in Requests BY TakenFrame
  <2>2. PICK d \in Conns : d = chat[f.t].conn BY <2>1
  <2>3. LineOK(d) /\ (Sending(f) => Sending(f)') BY <1>1 DEF Flow, Sending
  <2>4. CASE d # c
    <3>1. got'[d] = got[d] /\ (InList(f, queue[d]) => InList(f, queue[d])') BY <1>6, <2>4 DEF InList
    <3> QED BY <1>1, <1>10, <2>1, <2>2, <2>3, <3>1, DeliveredStays
  <2>5. CASE d = c
    <3>1. chat'[f.t].conn = c /\ chat'[f.t].session = chat[f.t].session BY <1>1, <2>2, <2>5
    <3>2. CASE chat[f.t].session \in crossed \/ f \in dropped
      BY <1>1, <3>1, <3>2 DEF Delivered
    <3>3. CASE InList(f, g)
      <4>1. InList(f, x)
        <5>1. PICK m \in DOMAIN g : g[m] = f BY <3>3 DEF InList
        <5>2. m \in DOMAIN x /\ x[m] = g[m]
          <6>1. CASE x = g BY <6>1
          <6>2. CASE x = Append(g, Head(w))
            <7>1. DOMAIN g = 1 .. Len(g) /\ DOMAIN x = 1 .. Len(g) + 1 /\ Len(g) \in Nat
                  /\ \A k \in 1 .. Len(g) : x[k] = g[k]
              BY <1>4, <6>2, Lists
            <7> QED BY <7>1
          <6> QED BY <1>7, <6>1, <6>2
        <5> QED BY <5>1, <5>2 DEF InList
      <4> QED BY <1>5, <3>1, <4>1 DEF Delivered, InList
    <3>4. CASE AllAhead(g, f) /\ conn[c].net # "up"
      <4>1. Gone(c)' BY <1>1, <1>2, <3>4 DEF ConnOK, Gone
      <4>2. FrameOK(f, c) /\ \A m \in DOMAIN g : FrameOK(g[m], c)
        BY <1>4, <2>1, <2>2, <2>5 DEF FrameOK, Numbered, InOrder
      <4>3. AllAhead(g, f)' BY <1>10, <3>4, <4>2, AllAheadStays
      <4>4. AllAhead(got[c], f)' BY <1>5, <1>7, <3>4, <4>3 DEF AllAhead
      <4> QED BY <3>1, <4>1, <4>4 DEF Delivered
    <3>5. CASE AllAhead(g, f) /\ conn[c].net = "up" /\ (InList(f, w) \/ Sending(f))
      <4>1. x = Append(g, Head(w)) BY <1>7, <3>5
      <4>2. /\ DOMAIN x = 1 .. Len(g) + 1 /\ x[Len(g) + 1] = Head(w) /\ Len(g) \in Nat /\ Head(w) = w[1]
            /\ DOMAIN w = 1 .. Len(w) /\ Len(w) \in Nat /\ 1 \in DOMAIN w
            /\ DOMAIN y = 1 .. Len(w) - 1 /\ \A m \in 1 .. Len(w) - 1 : y[m] = w[m + 1]
        BY <1>4, <1>5, <4>1, Lists
      <4>3. CASE f = Head(w)
        <5>1. InList(f, x) BY <4>2, <4>3 DEF InList
        <5> QED BY <1>5, <3>1, <5>1 DEF Delivered, InList
      <4>4. CASE Ahead(Head(w), f) /\ (InList(f, y) \/ Sending(f))
        <5>1. FrameOK(f, c) /\ \A m \in DOMAIN x : FrameOK(x[m], c)
          BY <1>8, <2>1, <2>2, <2>5 DEF FrameOK, Numbered, InOrder
        <5>2. AllAhead(x, f)
          <6>1. DOMAIN g = 1 .. Len(g) /\ \A k \in 1 .. Len(g) : x[k] = g[k] BY <1>4, <4>1, Lists
          <6>2. \A k \in DOMAIN x : k \in DOMAIN g \/ k = Len(g) + 1 BY <4>2, <6>1
          <6> QED BY <3>5, <4>2, <4>4, <6>1, <6>2 DEF AllAhead
        <5>3. AllAhead(x, f)' BY <1>10, <5>1, <5>2, AllAheadStays
        <5>4. AllAhead(got[c], f)' BY <1>5, <5>3 DEF AllAhead
        <5>5. InList(f, y) => InList(f, queue[c])' BY <1>6 DEF InList
        <5> QED BY <2>3, <3>1, <4>4, <5>4, <5>5 DEF Delivered
      <4>5. CASE InList(f, w) /\ f # Head(w)
        <5>1. PICK m \in DOMAIN w : w[m] = f BY <4>5 DEF InList
        <5>2. m # 1 BY <4>2, <4>5, <5>1
        <5>3. 1 < m /\ m - 1 \in 1 .. Len(w) - 1 /\ (m - 1) + 1 = m BY <4>2, <5>1, <5>2
        <5>4. Ahead(Head(w), f) BY <1>4, <4>2, <5>1, <5>3 DEF InOrder
        <5>5. m - 1 \in DOMAIN y /\ y[m - 1] = f BY <4>2, <5>1, <5>3
        <5>6. InList(f, y) BY <5>5 DEF InList
        <5> QED BY <4>4, <5>4, <5>6
      <4>6. CASE Sending(f)
        <5>1. chat[f.t].pc = "send" /\ chat[f.t].frame = f BY <4>6 DEF Sending
        <5>2. Comes(f, c) BY <2>1, <2>2, <2>5, <5>1 DEF Flow, SendingOK
        <5>3. Ahead(Head(w), f) BY <1>3, <4>2, <5>2 DEF Comes, AllAhead
        <5> QED BY <4>4, <4>6, <5>3
      <4> QED BY <3>5, <4>3, <4>5, <4>6
    <3>6. Gone(c) => conn[c].net # "up" BY DEF Gone
    <3> QED BY <1>3, <2>1, <2>2, <2>5, <3>2, <3>3, <3>4, <3>5, <3>6 DEF Delivered
  <2> QED BY <2>4, <2>5
<1>14. BuffersStay /\ StoreOK' /\ Len(ring') \in Nat BY <1>1, StoreSame
<1>15. \A t \in Requests : HasBuffer(t)'
  BY <1>1, <1>10, <1>14, BufferKeeps
<1>16. \A t \in Requests : (Started(t)' => Started(t)) /\ (UnderWay(t)' => UnderWay(t))
  BY <1>1 DEF Started, UnderWay
<1>17. \A t \in Requests : TurnOK(t)' BY <1>1, <1>10, <1>16, TurnStays
<1>18. got' = [d \in Conns |-> got'[d]] BY <1>1, <1>2
<1> QED BY <1>9, <1>10, <1>11, <1>12, <1>13, <1>14, <1>15, <1>17, <1>18, FlowGoes DEF ConnsOnward

(* What sendJSON does to the line of its connection.                       *)
LEMMA SendsOn ==
    ASSUME SocketInv, Flow, NEW c \in Conns, NEW f, Comes(f, c), SendJSON(c, f)
    PROVE  /\ \A d \in Conns : d # c => queue'[d] = queue[d]
           /\ dropped \subseteq dropped'
           /\ \E w : /\ w = queue'[c] /\ w \in {queue[c], Append(queue[c], f)}
                     /\ InOrder(w, c) /\ \A n \in DOMAIN w : AllAhead(got[c], w[n])
                     /\ \A e : InList(e, queue[c]) => InList(e, w)
                     /\ InList(f, w) \/ f \in dropped' \/ Gone(c)
<1>1. queue = [d \in Conns |-> queue[d]] /\ LineOK(c) /\ ConnOK(c)
  BY DEF SocketInv, SocketShape, Flow
<1>2. PICK g, v : g = got[c] /\ v = queue[c] OBVIOUS
<1>3. /\ InOrder(v, c) /\ IsList(v) /\ \A n \in DOMAIN v : AllAhead(g, v[n])
      /\ FrameOK(f, c) /\ AllAhead(g, f) /\ AllAhead(v, f)
  BY <1>1, <1>2 DEF LineOK, InOrder, Comes
<1>4. CASE queue' = queue /\ (Closed(c) \/ dropped' = dropped \union {f}) /\ dropped \subseteq dropped'
  <2>1. Closed(c) => Gone(c) BY <1>1 DEF Closed, ConnOK
  <2>2. v = queue'[c] BY <1>2, <1>4
  <2> QED BY <1>2, <1>3, <1>4, <2>1, <2>2
<1>5. CASE queue' = [queue EXCEPT ![c] = Append(@, f)] /\ dropped' = dropped
  <2>1. PICK w : w = Append(v, f) OBVIOUS
  <2>2. w = queue'[c] /\ \A d \in Conns : d # c => queue'[d] = queue[d] BY <1>1, <1>2, <1>5, <2>1
  <2>3. InOrder(w, c) BY <1>3, <2>1, OrderGrows
  <2>4. /\ DOMAIN w = 1 .. Len(v) + 1 /\ DOMAIN v = 1 .. Len(v) /\ Len(v) \in Nat
        /\ w[Len(v) + 1] = f /\ \A m \in 1 .. Len(v) : w[m] = v[m]
    BY <1>3, <2>1, Lists
  <2>5. \A m \in DOMAIN w : m \in DOMAIN v \/ m = Len(v) + 1 BY <2>4
  <2>6. \A n \in DOMAIN w : AllAhead(g, w[n]) BY <1>3, <2>4, <2>5
  <2>7. InList(f, w) BY <2>4 DEF InList
  <2>8. \A m \in DOMAIN v : m \in DOMAIN w BY <2>4
  <2>9. \A e : InList(e, v) => InList(e, w) BY <2>4, <2>8 DEF InList
  <2>10. w \in {queue[c], Append(queue[c], f)} BY <1>2, <2>1
  <2> QED BY <1>2, <1>5, <2>2, <2>3, <2>6, <2>7, <2>9, <2>10
<1> QED BY <1>4, <1>5 DEF SendJSON

(* A frame is sent: that of a turn that was about to, or one without a     *)
(* number.                                                                 *)
LEMMA SentFlow ==
    ASSUME SocketInv, Flow, Onward, NEW c \in Conns, NEW f, Comes(f, c), SendJSON(c, f),
           UNCHANGED <<got, ring, stored, taken>>,
           \A d \in Conns : ConnOK(d)',
           \A t \in Requests : TurnOK(t)' /\ HasBuffer(t)',
           f.q > 0 => UnderWay(f.t),
           \A t \in Requests : chat'[t].pc = "send" =>
               chat[t].pc = "send" /\ chat'[t].frame = chat[t].frame /\ (f.q > 0 => t # f.t),
           \A t \in Requests : chat[t].pc = "send" =>
               (chat'[t].pc = "send" /\ chat'[t].frame = chat[t].frame) \/ chat[t].frame = f
    PROVE  Flow'
<1>1. /\ \A d \in Conns : d # c => queue'[d] = queue[d]
      /\ dropped \subseteq dropped'
  BY SendsOn
<1>2. PICK w : /\ w = queue'[c] /\ w \in {queue[c], Append(queue[c], f)}
               /\ InOrder(w, c) /\ \A n \in DOMAIN w : AllAhead(got[c], w[n])
               /\ \A e : InList(e, queue[c]) => InList(e, w)
               /\ InList(f, w) \/ f \in dropped' \/ Gone(c)
  BY SendsOn
<1>3. PICK g, v : g = got[c] /\ v = queue[c] OBVIOUS
<1>4. InOrder(g, c) /\ InOrder(v, c) /\ IsList(v) BY <1>3 DEF Flow, LineOK, InOrder
<1>5. ASSUME NEW d \in Conns PROVE LineOK(d)'
  <2>1. CASE d = c
    <3>1. got'[c] = g /\ queue'[c] = w /\ \A n \in DOMAIN w : AllAhead(g, w[n]) BY <1>2, <1>3
    <3> QED BY <1>2, <1>4, <2>1, <3>1, LineTo
  <2>2. CASE d # c BY <1>1, <2>2, LineStays DEF Flow
  <2> QED BY <2>1, <2>2
<1>6. ASSUME NEW t \in Requests PROVE SendingOK(t)'
  <2> SUFFICES ASSUME chat'[t].pc = "send" PROVE SendingOK(t)' BY DEF SendingOK
  <2>1. chat[t].pc = "send" /\ chat'[t].frame = chat[t].frame /\ (f.q > 0 => t # f.t) OBVIOUS
  <2>2. PICK h, d : h = chat[t].frame /\ d = chat[t].conn OBVIOUS
  <2>3. h.t = t /\ Comes(h, d) BY <2>1, <2>2 DEF Flow, SendingOK
  <2>4. d \in Conns /\ chat'[t].conn = d BY <2>1, <2>2 DEF Flow, TurnOK, Started, Onward
  <2>5. Comes(h, d)'
    <3>1. CASE d # c
      <4>1. LineOK(d) /\ got'[d] = got[d] /\ queue'[d] = queue[d] BY <1>1, <2>4, <3>1 DEF Flow
      <4> QED BY <2>3, <4>1, ComesStays
    <3>2. CASE d = c
      <4>1. FrameOK(h, c) /\ AllAhead(g, h) /\ AllAhead(v, h) BY <1>3, <2>3, <3>2 DEF Comes
      <4>2. Ahead(f, h)
        <5> SUFFICES ASSUME f.q > 0, h.q > 0, chat[f.t].session = chat[h.t].session,
                            chat[f.t].session \notin crossed
                     PROVE  FALSE
          BY DEF Ahead
        <5>1. f.t \in Requests /\ UnderWay(f.t) BY DEF Comes, FrameOK, Numbered
        <5>2. UnderWay(t) BY <2>1 DEF UnderWay
        <5>3. f.t = t \/ chat[f.t].session \in crossed BY <2>3, <5>1, <5>2 DEF Flow, TurnOK
        <5> QED BY <2>1, <5>3
      <4>3. AllAhead(w, h)
        <5>1. CASE w = v BY <4>1, <5>1
        <5>2. CASE w = Append(v, f)
          <6>1. /\ DOMAIN w = 1 .. Len(v) + 1 /\ DOMAIN v = 1 .. Len(v) /\ Len(v) \in Nat
                /\ w[Len(v) + 1] = f /\ \A m \in 1 .. Len(v) : w[m] = v[m]
            BY <1>4, <5>2, Lists
          <6>2. \A m \in DOMAIN w : m \in DOMAIN v \/ m = Len(v) + 1 BY <6>1
          <6> QED BY <4>1, <4>2, <6>1, <6>2 DEF AllAhead
        <5> QED BY <1>2, <1>3, <5>1, <5>2
      <4>4. got'[c] = g /\ queue'[c] = w BY <1>2, <1>3
      <4> QED BY <1>2, <1>4, <3>2, <4>1, <4>3, <4>4, ComesTo
    <3> QED BY <3>1, <3>2
  <2> QED BY <2>1, <2>2, <2>3, <2>4, <2>5 DEF SendingOK
<1>7. ASSUME NEW i \in 1 .. Len(ring), NEW n \in DOMAIN taken[i], NEW e \in {taken[i][n].frame}
      PROVE  Delivered(e)'
  <2>1. Numbered(e) /\ Delivered(e) /\ chat[e.t].conn \in Conns /\ e.t \in Requests BY TakenFrame
  <2>2. PICK d \in Conns : d = chat[e.t].conn BY <2>1
  <2>3. LineOK(d) BY DEF Flow
  <2>4. InList(e, queue[d]) => InList(e, queue[d])'
    <3>1. InList(e, queue[d]) => InList(e, queue'[d]) BY <1>1, <1>2
    <3> QED BY <3>1 DEF InList
  <2>5. Sending(e) => Sending(e)' \/ e \in dropped' \/ InList(e, queue[d])' \/ Gone(d)'
    <3> SUFFICES ASSUME chat[e.t].pc = "send", chat[e.t].frame = e, ~Sending(e)'
                 PROVE  e \in dropped' \/ InList(e, queue[d])' \/ Gone(d)'
      BY DEF Sending
    <3>1. e = f BY <2>1 DEF Sending
    <3>2. d = c BY <2>1, <2>2, <3>1 DEF Comes, FrameOK, Numbered
    <3>3. Gone(c) => Gone(c)' BY DEF Onward
    <3>4. InList(f, w) => InList(f, queue[c])' BY <1>2 DEF InList
    <3> QED BY <1>2, <3>1, <3>2, <3>3, <3>4
  <2> QED BY <1>1, <2>1, <2>2, <2>3, <2>4, <2>5, DeliveredStays
<1>8. BuffersStay /\ StoreOK' BY StoreSame
<1>9. got' = [d \in Conns |-> got'[d]] BY DEF Flow
<1> QED BY <1>5, <1>6, <1>7, <1>8, <1>9, FlowGoes

(* A frame without a number comes after anything.                          *)
LEMMA PlainComes == ASSUME NEW f, NEW c, f.q = 0 PROVE Comes(f, c)
  BY DEF Comes, FrameOK, AllAhead, Ahead

LEMMA PlainFlow ==
    ASSUME SocketInv, Flow, ConnsOnward, NEW c \in Conns, NEW f, f.q = 0, SendJSON(c, f),
           UNCHANGED <<got, chat, crossed, setting, ring, stored, taken>>
    PROVE  Flow'
<1>1. Onward BY OnwardStill
<1>2. Comes(f, c) BY PlainComes
<1>3. BuffersStay /\ StoreOK' /\ Len(ring') \in Nat BY StoreSame
<1>4. \A t \in Requests : (Started(t)' => Started(t)) /\ (UnderWay(t)' => UnderWay(t))
  BY DEF Started, UnderWay
<1>5. \A t \in Requests : TurnOK(t)' BY <1>1, <1>4, TurnStays
<1>6. \A t \in Requests : HasBuffer(t)' BY <1>1, <1>3, BufferKeeps
<1>7. ~(f.q > 0) OBVIOUS
<1> QED BY <1>1, <1>2, <1>5, <1>6, <1>7, SentFlow DEF ConnsOnward

LEMMA ReplyFlow == ASSUME SocketInv, Flow, NEW c \in Conns, SendReply(c) \/ Broadcast(c) PROVE Flow'
<1>1. Refusal.q = 0 /\ Frame(NoRequest, "news", 0).q = 0 BY DEF Refusal, Frame
<1>2. CASE SendReply(c)
  <2>1. DOMAIN conn[c] = ConnFields /\ ConnOK(c) BY DEF SocketInv, SocketShape, Flow
  <2>2. conn[c].reader = "reply" /\ conn[c].reply = <<Refusal>> BY <1>2, <2>1 DEF SendReply, ConnOK
  <2>3. Head(conn[c].reply) = Refusal /\ Len(conn[c].reply) = 1 BY <2>2
  <2>4. PICK r : r = [conn[c] EXCEPT !.reply = Tail(@),
                                     !.reader = IF Len(conn[c].reply) = 1 THEN "read" ELSE @]
    OBVIOUS
  <2>5. SetConn(c, r) BY <1>2, <2>4 DEF SendReply
  <2>6. r.reader = "read" /\ r.seq = conn[c].seq /\ r.done = conn[c].done /\ r.net = conn[c].net
    BY <2>1, <2>3, <2>4 DEF ConnFields
  <2>7. UNCHANGED <<hub, shut, got, chat, crossed, setting, ring, stored, taken>>
    BY <1>2 DEF SendReply, replayVars
  <2>8. ConnsOnward BY <2>5, <2>6, <2>7, ConnGoesOn
  <2>9. SendJSON(c, Refusal) BY <1>2, <2>3 DEF SendReply
  <2> QED BY <1>1, <2>7, <2>8, <2>9, PlainFlow
<1>3. CASE Broadcast(c)
  <2>1. UNCHANGED <<hub, conn, shut, got, chat, crossed, setting, ring, stored, taken>>
    BY <1>3 DEF Broadcast, replayVars
  <2>2. ConnsOnward BY <2>1, HubGoesOn
  <2>3. SendJSON(c, Frame(NoRequest, "news", 0)) BY <1>3 DEF Broadcast
  <2> QED BY <1>1, <2>1, <2>2, <2>3, PlainFlow
<1> QED BY <1>2, <1>3

LEMMA SendFlow == ASSUME SocketInv, Flow, NEW t \in Requests, Send(t) PROVE Flow'
<1>1. DOMAIN chat[t] = ChatFields /\ SaidOK(t) /\ chat[t].pc = "send"
  BY DEF SocketInv, SocketShape, Send
<1>2. PICK c, f : c = chat[t].conn /\ f = chat[t].frame OBVIOUS
<1>3. c \in Conns /\ f.k \in Kinds BY <1>1, <1>2 DEF SaidOK
<1>4. f.t = t /\ Comes(f, c) BY <1>1, <1>2 DEF Flow, SendingOK
<1>5. PICK r : r = [chat[t] EXCEPT !.pc = After[f.k]] OBVIOUS
<1>6. r.pc = After[f.k] /\ r.conn = c /\ r.session = chat[t].session /\ r.buf = chat[t].buf
  BY <1>1, <1>2, <1>5 DEF ChatFields
<1>7. After[f.k] \in {"run", "done", "leave"} BY <1>3 DEF After, Kinds
<1>8. /\ SendJSON(c, f) /\ SetChat(t, r)
      /\ UNCHANGED <<hub, conn, got, shut, crossed, setting, ring, stored, taken>>
  BY <1>2, <1>5 DEF Send, replayVars
<1>9. chat'[t] = r /\ \A u \in Requests : u # t => chat'[u] = chat[u] BY <1>8, ChatSetTo
<1>10. ConnsOnward BY <1>8, HubGoesOn
<1>11. Onward
  <2>1. \A d \in Conns : /\ conn'[d].seq \in Nat /\ conn[d].seq <= conn'[d].seq /\ (Gone(d) => Gone(d)')
    BY <1>10 DEF ConnsOnward, Flow, ConnOK
  <2>2. Started(t)' /\ chat'[t].conn = chat[t].conn /\ chat'[t].session = chat[t].session
    BY <1>2, <1>6, <1>7, <1>9 DEF Started
  <2>3. crossed \subseteq crossed' BY <1>8
  <2> QED BY <1>9, <2>1, <2>2, <2>3, OnwardTurn
<1>12. \A u \in Requests : (Started(u)' => Started(u)) /\ (UnderWay(u)' => UnderWay(u))
  BY <1>1, <1>9 DEF Started, UnderWay
<1>13. \A u \in Requests : TurnOK(u)' BY <1>8, <1>11, <1>12, TurnStays
<1>14. BuffersStay /\ Len(ring') \in Nat /\ Len(ring) <= Len(ring')
  <2>1. BuffersStay /\ Len(ring') \in Nat BY <1>8, StoreSame
  <2> QED BY <1>8, <2>1
<1>15. ASSUME NEW u \in Requests PROVE HasBuffer(u)'
  <2>1. chat'[u].pc \notin {"none", "enter"} =>
            chat[u].pc \notin {"none", "enter"} /\ chat'[u].buf = chat[u].buf
    BY <1>1, <1>6, <1>9
  <2> QED BY <1>11, <1>14, <2>1, BufferKeeps
<1>16. f.q > 0 => UnderWay(f.t) BY <1>1, <1>4 DEF UnderWay
<1>17. \A u \in Requests : chat'[u].pc = "send" =>
           chat[u].pc = "send" /\ chat'[u].frame = chat[u].frame /\ (f.q > 0 => u # f.t)
  BY <1>4, <1>6, <1>7, <1>9
<1>18. \A u \in Requests : chat[u].pc = "send" =>
           (chat'[u].pc = "send" /\ chat'[u].frame = chat[u].frame) \/ chat[u].frame = f
  BY <1>2, <1>9
<1> QED BY <1>3, <1>4, <1>8, <1>10, <1>11, <1>13, <1>15, <1>16, <1>17, <1>18, SentFlow DEF ConnsOnward

-----------------------------------------------------------------------------
(* A frame is given its number and taken by the buffer.                    *)
LEMMA PutIn ==
    ASSUME NEW s, IsList(s), NEW i \in 1 .. Len(s), NEW x, NEW r, r = [s EXCEPT ![i] = x]
    PROVE  IsList(r) /\ Len(r) = Len(s) /\ r[i] = x /\ \A j \in 1 .. Len(s) : j # i => r[j] = s[j]
<1> DEFINE S == {s[j] : j \in DOMAIN s} \union {x}
<1>1. s \in Seq({s[j] : j \in DOMAIN s}) BY DEF IsList
<1>2. s \in Seq(S) BY <1>1
<1>3. x \in S OBVIOUS
<1> HIDE DEF S
<1>4. r \in Seq(S) /\ Len(r) = Len(s) BY <1>2, <1>3
<1>5. r[i] = x /\ \A j \in 1 .. Len(s) : j # i => r[j] = s[j] BY <1>2
<1> QED BY <1>4, <1>5, ListOf

LEMMA RecordFlow ==
    ASSUME SocketInv, Flow, NEW t \in Requests, NEW k, Record(t, k),
           chat[t].pc \in {"run", "content", "done"}
    PROVE  Flow'
<1>1. PICK c, b : c = chat[t].conn /\ b = chat[t].buf OBVIOUS
<1>2. PICK f : f = Frame(t, k, conn[c].seq + 1) OBVIOUS
<1>3. PICK e : e = [frame |-> f, at |-> clock + 1] OBVIOUS
<1>4. PICK r : r = [chat[t] EXCEPT !.pc = "send", !.frame = f] OBVIOUS
<1>5. PICK p : p = [conn[c] EXCEPT !.seq = @ + 1] OBVIOUS
<1>6. /\ SetConn(c, p) /\ SetChat(t, r)
      /\ ring' = [ring EXCEPT ![b] = Appended(@, e)] /\ taken' = [taken EXCEPT ![b] = Append(@, e)]
      /\ UNCHANGED <<hub, queue, got, shut, dropped, crossed, setting, stored>>
  BY <1>1, <1>2, <1>3, <1>4, <1>5 DEF Record, Remember
<1>7. DOMAIN chat[t] = ChatFields /\ Started(t) /\ UnderWay(t) BY DEF SocketInv, SocketShape, Started, UnderWay
<1>8. c \in Conns /\ chat[t].session \in Sessions BY <1>1, <1>7 DEF Flow, TurnOK
<1>9. DOMAIN conn[c] = ConnFields /\ ConnOK(c) /\ conn[c].seq \in Nat
  BY <1>8 DEF SocketInv, SocketShape, Flow, ConnOK
<1>10. conn'[c] = p /\ \A d \in Conns : d # c => conn'[d] = conn[d] BY <1>6, <1>8, ConnSetTo
<1>11. /\ p.seq = conn[c].seq + 1 /\ p.reader = conn[c].reader /\ p.writer = conn[c].writer
       /\ p.net = conn[c].net /\ p.done = conn[c].done /\ p.reply = conn[c].reply
  BY <1>5, <1>9 DEF ConnFields
<1>12. chat'[t] = r /\ \A u \in Requests : u # t => chat'[u] = chat[u] BY <1>6, ChatSetTo
<1>13. r.pc = "send" /\ r.frame = f /\ r.conn = c /\ r.session = chat[t].session /\ r.buf = b
  BY <1>1, <1>4, <1>7 DEF ChatFields
<1>14. f.t = t /\ f.q = conn[c].seq + 1 BY <1>2 DEF Frame
<1>15. ASSUME NEW d \in Conns
       PROVE  /\ ConnOK(d)' /\ (Gone(d) => Gone(d)')
              /\ conn'[d].seq \in Nat /\ conn[d].seq <= conn'[d].seq
  <2>1. ConnOK(d) BY DEF Flow
  <2>2. Gone(d) <=> Gone(d)' BY <1>10, <1>11 DEF Gone
  <2>3. conn'[d].seq \in Nat /\ conn[d].seq <= conn'[d].seq BY <1>9, <1>10, <1>11, <2>1 DEF ConnOK
  <2>4. /\ conn'[d].reader = conn[d].reader /\ conn'[d].writer = conn[d].writer
        /\ conn'[d].done = conn[d].done /\ conn'[d].reply = conn[d].reply
    BY <1>10, <1>11
  <2> QED BY <1>6, <2>1, <2>2, <2>3, <2>4 DEF ConnOK
<1>16. Onward
  <2>1. Started(t)' /\ chat'[t].conn = chat[t].conn /\ chat'[t].session = chat[t].session
    BY <1>1, <1>12, <1>13 DEF Started
  <2>2. crossed \subseteq crossed' BY <1>6
  <2> QED BY <1>12, <1>15, <2>1, <2>2, OnwardTurn
<1>17. \A d \in Conns : LineOK(d)' BY <1>6, <1>16, LineStays DEF Flow
<1>18. \A u \in Requests : TurnOK(u)'
  <2>1. \A u \in Requests : (Started(u)' => Started(u)) /\ (UnderWay(u)' => UnderWay(u))
    BY <1>7, <1>12 DEF Started, UnderWay
  <2> QED BY <1>6, <1>16, <2>1, TurnStays
<1>19. PICK g, w : g = got[c] /\ w = queue[c] OBVIOUS
<1>20. InOrder(g, c) /\ InOrder(w, c) BY <1>8, <1>19 DEF Flow, LineOK
<1>21. ASSUME NEW h, FrameOK(h, c) PROVE Ahead(h, f)
  <2>1. h.q > 0 => h.q \in Nat /\ h.q <= conn[c].seq BY <1>21 DEF FrameOK, Numbered
  <2> QED BY <1>9, <1>14, <2>1 DEF Ahead
<1>22. AllAhead(g, f) /\ AllAhead(w, f) BY <1>20, <1>21 DEF AllAhead, InOrder
<1>23. Numbered(f)'
  <2>1. f.q \in Nat \ {0} /\ f.q <= p.seq BY <1>9, <1>11, <1>14
  <2>2. Started(t)' /\ chat'[t].conn = c BY <1>12, <1>13 DEF Started
  <2> QED BY <1>10, <1>14, <2>1, <2>2 DEF Numbered
<1>24. FrameOK(f, c)'
  <2>1. f.q \in Nat /\ chat'[f.t].conn = c BY <1>9, <1>12, <1>13, <1>14
  <2> QED BY <1>23, <2>1 DEF FrameOK
<1>25. AllAhead(g, f)' /\ AllAhead(w, f)'
  <2>1. ASSUME NEW s, InOrder(s, c) PROVE AllAhead(s, f)'
    <3>1. ASSUME NEW m \in DOMAIN s PROVE Ahead(s[m], f)'
      <4>1. FrameOK(s[m], c) BY <2>1 DEF InOrder
      <4>2. s[m].q > 0 => s[m].q \in Nat /\ s[m].q <= conn[c].seq BY <4>1 DEF FrameOK, Numbered
      <4> QED BY <1>9, <1>14, <4>2 DEF Ahead
    <3> QED BY <3>1 DEF AllAhead
  <2> QED BY <1>20, <2>1
<1>26. SendingOK(t)'
  <2>1. got'[c] = g /\ queue'[c] = w BY <1>6, <1>19
  <2>2. Comes(f, c)' BY <1>24, <1>25, <2>1 DEF Comes
  <2> QED BY <1>12, <1>13, <1>14, <2>2 DEF SendingOK
<1>27. ASSUME NEW u \in Requests PROVE SendingOK(u)'
  <2>1. CASE u = t BY <1>26, <2>1
  <2>2. CASE u # t
    <3>1. chat'[u] = chat[u] BY <1>12, <2>2
    <3> QED BY <1>6, <1>16, <3>1, SendingStays
  <2> QED BY <2>1, <2>2
<1>28. /\ b \in 1 .. Len(ring) /\ \A s \in Sessions : stored[s] = b => s = chat[t].session
  BY <1>1 DEF Flow, HasBuffer
<1>29. /\ IsList(ring) /\ IsList(taken) /\ Len(ring) = Len(taken) /\ Len(ring) \in Nat
  BY DEF Flow, StoreOK, IsList
<1>30. /\ IsList(ring') /\ Len(ring') = Len(ring) /\ ring'[b] = Appended(ring[b], e)
       /\ \A j \in 1 .. Len(ring) : j # b => ring'[j] = ring[j]
  <2>1. PICK s, x, z : s = ring /\ x = Appended(ring[b], e) /\ z = ring' OBVIOUS
  <2>2. IsList(s) /\ b \in 1 .. Len(s) /\ z = [s EXCEPT ![b] = x] BY <1>6, <1>28, <1>29, <2>1
  <2>3. IsList(z) BY <2>2, PutIn
  <2>4. Len(z) = Len(s) BY <2>2, PutIn
  <2>5. z[b] = x /\ \A j \in 1 .. Len(s) : j # b => z[j] = s[j] BY <2>2, <2>3, <2>4, PutIn
  <2> QED BY <2>1, <2>3, <2>4, <2>5
<1>31. /\ IsList(taken') /\ Len(taken') = Len(ring) /\ taken'[b] = Append(taken[b], e)
       /\ \A j \in 1 .. Len(ring) : j # b => taken'[j] = taken[j]
  <2>1. PICK s, x, z : s = taken /\ x = Append(taken[b], e) /\ z = taken' OBVIOUS
  <2>2. IsList(s) /\ b \in 1 .. Len(s) /\ z = [s EXCEPT ![b] = x] /\ Len(s) = Len(ring)
    BY <1>6, <1>28, <1>29, <2>1
  <2>3. IsList(z) BY <2>2, PutIn
  <2>4. Len(z) = Len(s) BY <2>2, PutIn
  <2>5. z[b] = x /\ \A j \in 1 .. Len(s) : j # b => z[j] = s[j] BY <2>2, <2>3, <2>4, PutIn
  <2> QED BY <2>1, <2>2, <2>3, <2>4, <2>5
<1>32. StoreOK' BY <1>6, <1>29, <1>30, <1>31 DEF Flow, StoreOK
<1>33. ASSUME NEW u \in Requests PROVE HasBuffer(u)'
  <2>1. chat'[u].buf = chat[u].buf /\ chat'[u].session = chat[u].session BY <1>1, <1>12, <1>13
  <2>2. chat'[u].pc \notin {"none", "enter"} => chat[u].pc \notin {"none", "enter"} BY <1>12
  <2> QED BY <1>6, <1>30, <2>1, <2>2 DEF Flow, HasBuffer
<1>34. ASSUME NEW i \in 1 .. Len(ring), NEW n \in DOMAIN taken[i], NEW h \in {taken[i][n].frame}
       PROVE  Delivered(h)'
  <2>1. Numbered(h) /\ Delivered(h) /\ chat[h.t].conn \in Conns /\ h.t \in Requests BY TakenFrame
  <2>2. PICK d \in Conns : d = chat[h.t].conn BY <2>1
  <2>3. LineOK(d) BY DEF Flow
  <2>4. Sending(h) => Sending(h)' BY <1>12, <2>1 DEF Sending
  <2>5. InList(h, queue[d]) => InList(h, queue[d])' BY <1>6 DEF InList
  <2> QED BY <1>6, <1>16, <2>1, <2>2, <2>3, <2>4, <2>5, DeliveredStays
<1>35. ASSUME NEW i \in 1 .. Len(ring), i # b PROVE BufferOK(i)'
  <2>1. ring'[i] = ring[i] /\ taken'[i] = taken[i] BY <1>30, <1>31, <1>35
  <2> QED BY <1>6, <1>16, <1>34, <2>1, BufferStays
<1>36. BufferOK(b)'
  <2>1. PICK s, x : s = taken[b] /\ x = Append(s, e) OBVIOUS
  <2>2. IsList(s) /\ Holds(ring[b], s) /\ Recorded(b, s) BY <1>28, <2>1 DEF Flow, BufferOK
  <2>3. IsList(x) BY <2>1, <2>2, ListGrows
  <2>4. Holds(Appended(ring[b], e), x) BY <2>1, <2>2, HoldsMore
  <2>5. \A n \in DOMAIN s : Delivered(s[n].frame)' BY <1>28, <1>34, <2>1
  <2>6. Recorded(b, s)' BY <1>6, <1>16, <2>2, <2>5, RecordedStays
  <2>7. /\ DOMAIN x = 1 .. Len(s) + 1 /\ DOMAIN s = 1 .. Len(s) /\ Len(s) \in Nat
        /\ x[Len(s) + 1] = e /\ \A n \in 1 .. Len(s) : x[n] = s[n]
    BY <2>1, <2>2, Lists
  <2>8. \A n \in DOMAIN x : n \in DOMAIN s \/ n = Len(s) + 1 BY <2>7
  <2>9. e.frame = f BY <1>3
  <2>10. Delivered(f)'
    <3>1. Sending(f)' BY <1>12, <1>13, <1>14 DEF Sending
    <3>2. AllAhead(got[c], f)'
      <4>1. got'[c] = g BY <1>6, <1>19
      <4> QED BY <1>25, <4>1 DEF AllAhead
    <3>3. chat'[f.t].conn = c BY <1>12, <1>13, <1>14
    <3> QED BY <3>1, <3>2, <3>3 DEF Delivered
  <2>11. chat'[f.t].session = chat[t].session /\ chat'[f.t].conn = c BY <1>12, <1>13, <1>14
  <2>12. \A n \in DOMAIN x : Numbered(x[n].frame)' /\ Delivered(x[n].frame)'
    BY <1>23, <2>6, <2>7, <2>8, <2>9, <2>10 DEF Recorded
  <2>13. ASSUME NEW n \in DOMAIN x, NEW a \in Sessions, stored'[a] = b
         PROVE  chat'[x[n].frame.t].session = a
    <3>1. CASE n \in DOMAIN s BY <2>6, <2>7, <2>13, <3>1 DEF Recorded
    <3>2. CASE n = Len(s) + 1 BY <1>6, <1>28, <2>7, <2>9, <2>11, <2>13, <3>2
    <3> QED BY <2>8, <3>1, <3>2
  <2>14. ASSUME NEW m \in DOMAIN x, NEW n \in DOMAIN x, m < n,
                chat'[x[m].frame.t].conn = chat'[x[n].frame.t].conn
         PROVE  x[m].frame.q < x[n].frame.q
    <3>1. m \in DOMAIN s BY <2>7, <2>14
    <3>2. CASE n \in DOMAIN s BY <2>6, <2>7, <2>14, <3>1, <3>2 DEF Recorded
    <3>3. CASE n = Len(s) + 1
      <4>1. PICK h : h = s[m].frame OBVIOUS
      <4>2. Numbered(h) BY <2>2, <3>1, <4>1 DEF Recorded
      <4>3. chat[h.t].conn = c
        <5>1. chat'[h.t].conn = c BY <2>7, <2>9, <2>11, <2>14, <3>1, <3>3, <4>1
        <5> QED BY <1>16, <4>2, <5>1, NumberStays
      <4>4. h.q \in Nat /\ h.q <= conn[c].seq BY <4>2, <4>3 DEF Numbered
      <4>5. h.q < f.q BY <1>9, <1>14, <4>4
      <4>6. x[m].frame = h /\ x[n].frame = f BY <2>7, <2>9, <3>1, <3>3, <4>1
      <4> QED BY <4>5, <4>6
    <3> QED BY <2>8, <3>2, <3>3
  <2>15. Recorded(b, x)' BY <2>12, <2>13, <2>14 DEF Recorded
  <2>16. taken'[b] = x /\ ring'[b] = Appended(ring[b], e) BY <1>30, <1>31, <2>1
  <2> QED BY <2>3, <2>4, <2>15, <2>16 DEF BufferOK
<1>37. \A i \in 1 .. Len(ring') : BufferOK(i)' BY <1>30, <1>35, <1>36
<1>38. got' = [d \in Conns |-> got'[d]] BY <1>6 DEF Flow
<1> QED BY <1>15, <1>17, <1>18, <1>27, <1>32, <1>33, <1>37, <1>38 DEF Flow

-----------------------------------------------------------------------------

LEMMA FlowBegins == ASSUME SocketInit PROVE Flow
<1>1. /\ got = [c \in Conns |-> << >>] /\ queue = [c \in Conns |-> << >>]
      /\ \A c \in Conns : conn[c] = [reader |-> "none", writer |-> "none", net |-> "none",
                                     done |-> FALSE, seq |-> 0, reply |-> << >>]
      /\ \A t \in Requests : chat[t].pc = "none"
      /\ hub = {} /\ shut.left = {}
      /\ ring = << >> /\ taken = << >> /\ stored = [s \in Sessions |-> NoBuffer]
  BY DEF SocketInit, ReplayInit
<1>2. IsList(<< >>) /\ DOMAIN << >> = {} /\ Len(<< >>) = 0
  <2>1. << >> \in Seq({}) OBVIOUS
  <2>2. IsList(<< >>) BY <2>1, ListOf
  <2> QED BY <2>2
<1>3. ASSUME NEW c \in Conns PROVE ConnOK(c) /\ LineOK(c)
  <2>1. ConnOK(c) BY <1>1 DEF ConnOK
  <2>2. got[c] = << >> /\ queue[c] = << >> BY <1>1
  <2> QED BY <1>2, <2>1, <2>2 DEF LineOK, InOrder
<1>4. ASSUME NEW t \in Requests PROVE TurnOK(t) /\ SendingOK(t) /\ HasBuffer(t)
  BY <1>1 DEF TurnOK, SendingOK, HasBuffer, Started, UnderWay
<1>5. StoreOK
  <2>1. stored \in [Sessions -> 0 .. Len(ring)]
    <3>1. Len(ring) = 0 /\ NoBuffer = 0 BY <1>1, <1>2 DEF NoBuffer
    <3> QED BY <1>1, <3>1
  <2> QED BY <1>1, <1>2, <2>1 DEF StoreOK
<1>6. 1 .. Len(ring) = {} BY <1>1, <1>2
<1> QED BY <1>1, <1>3, <1>4, <1>5, <1>6 DEF Flow

LEMMA FlowGoesOn ==
    ASSUME SocketInv, Flow, [SocketNext]_socketVars, "resume" \notin once'
    PROVE  Flow'
<1>1. setting.turns \subseteq Requests BY SocketAssumption DEF SocketInv, SocketShape
<1>2. ASSUME NEW c \in Conns, Writer(c) \/ Reader(c) PROVE Flow'
  BY <1>2, ConnFlow, WriteFlow, ReplyFlow DEF Writer, Reader
<1>3. ASSUME NEW c \in Conns, Client(c) PROVE Flow'
  <2>1. CASE Upgrade(c) \/ Lose(c) \/ Refuse(c) BY <2>1, ConnFlow
  <2>2. CASE Broadcast(c) BY <2>2, ReplyFlow
  <2>3. ASSUME NEW s \in Sessions, Reconnect(c, s) PROVE FALSE BY <2>3 DEF Reconnect, Once
  <2>4. ASSUME NEW s \in Sessions, NEW t \in setting.turns, Chat(c, s, t) PROVE Flow'
    BY <1>1, <2>4, ChatFlow
  <2> QED BY <1>3, <2>1, <2>2, <2>3, <2>4 DEF Client
<1>4. ASSUME NEW t \in setting.turns, Goroutine(t) \/ Kill(t) PROVE Flow'
  <2>1. t \in Requests BY <1>1
  <2>2. CASE Emit(t) \/ Answer(t)
    <3>1. PICK k : Record(t, k) BY <2>2 DEF Emit, Answer
    <3>2. chat[t].pc \in {"run", "content", "done"} BY <2>2 DEF Emit, Answer
    <3> QED BY <2>1, <3>1, <3>2, RecordFlow
  <2>3. CASE StartTurn(t) BY <2>1, <2>3, StartFlow
  <2>4. CASE Send(t) BY <2>1, <2>4, SendFlow
  <2>5. CASE Return(t) \/ EndTurn(t) \/ Kill(t) BY <2>1, <2>5, EndFlow
  <2> QED BY <1>4, <2>2, <2>3, <2>4, <2>5 DEF Goroutine
<1>5. ASSUME Stopping \/ Shutdown \/ CleanupTick \/ TimePasses \/ UNCHANGED socketVars PROVE Flow'
  BY <1>5, HubFlow, ConnFlow, CleanupFlow DEF Stopping
<1> QED BY <1>2, <1>3, <1>4, <1>5 DEF SocketNext

LEMMA OnceGrows == ASSUME [SocketNext]_socketVars PROVE once \subseteq once'
<1>1. ASSUME NEW c \in Conns, Writer(c) \/ Reader(c) \/ Client(c) PROVE once \subseteq once'
  BY <1>1 DEF Writer, Reader, Client, Write, WriteFails, ReadFails, Unregister, SendReply, Upgrade,
              Lose, Refuse, Broadcast, Reconnect, Chat, Once
<1>2. ASSUME NEW t \in setting.turns, Goroutine(t) \/ Kill(t) PROVE once \subseteq once'
  BY <1>2 DEF Goroutine, StartTurn, Emit, Answer, Record, Send, Return, EndTurn, Kill
<1>3. ASSUME Stopping \/ Shutdown \/ CleanupTick \/ TimePasses \/ UNCHANGED socketVars
      PROVE  once \subseteq once'
  BY <1>3 DEF Stopping, ShutdownNext, ShutdownClose, Shutdown, CleanupTick, TimePasses, Once, socketVars
<1> QED BY <1>1, <1>2, <1>3 DEF SocketNext

LEMMA ReplayBegins == ASSUME SocketInit PROVE ReplayInv
  BY SocketBegins, FlowBegins DEF ReplayInv

LEMMA ReplayGoesOn == ASSUME ReplayInv, [SocketNext]_socketVars PROVE ReplayInv'
  BY SocketGoesOn, FlowGoesOn, OnceGrows DEF ReplayInv

-----------------------------------------------------------------------------
(* What a client has heard, and what is replayed to it.                    *)

LEMMA HeardIs ==
    ASSUME Flow, NEW d \in Conns, NEW s, NEW g, g = got[d]
    PROVE  \E h : /\ h = Heard(d, s) /\ IsList(h)
                  /\ \A j \in DOMAIN h : \E m \in DOMAIN g :
                         h[j] = g[m] /\ g[m].q > 0 /\ chat[g[m].t].session = s
                  /\ \A m \in DOMAIN g : g[m].q > 0 /\ chat[g[m].t].session = s =>
                         \E j \in DOMAIN h : h[j] = g[m]
                  /\ s \notin crossed => \A j, k \in DOMAIN h : j < k => h[j].q < h[k].q
<1>1. PICK K : K = {m \in DOMAIN g : g[m].q > 0 /\ chat[g[m].t].session = s} OBVIOUS
<1>2. PICK h : h = Picked(g, K) OBVIOUS
<1>3. h = Heard(d, s) BY <1>1, <1>2 DEF Heard
<1>4. InOrder(g, d) BY DEF Flow, LineOK
<1>5. PICK S : g \in Seq(S) BY <1>4 DEF InOrder, IsList
<1>6. h \in Seq(S) /\ \E f : Traces(g, K, Len(g), h, f) BY <1>2, <1>5, PickedTraces
<1>7. PICK f : Traces(g, K, Len(g), h, f) BY <1>6
<1>8. IsList(h) BY <1>6, ListOf
<1>9. DOMAIN h = 1 .. Len(h) /\ DOMAIN g = 1 .. Len(g) BY <1>5, <1>6
<1>10. ASSUME NEW j \in DOMAIN h
       PROVE  f[j] \in K /\ f[j] \in DOMAIN g /\ h[j] = g[f[j]]
  BY <1>7, <1>9 DEF Traces
<1>11. ASSUME NEW m \in DOMAIN g, g[m].q > 0 /\ chat[g[m].t].session = s
       PROVE  \E j \in DOMAIN h : h[j] = g[m]
  <2>1. m \in K \intersect (1 .. Len(g)) BY <1>1, <1>9, <1>11
  <2>2. PICK j \in 1 .. Len(h) : f[j] = m BY <1>7, <2>1 DEF Traces
  <2> QED BY <1>9, <1>10, <2>2
<1>12. ASSUME s \notin crossed, NEW j \in DOMAIN h, NEW k \in DOMAIN h, j < k PROVE h[j].q < h[k].q
  <2>1. f[j] < f[k] BY <1>7, <1>9, <1>12 DEF Traces
  <2>2. f[j] \in K /\ f[k] \in K /\ h[j] = g[f[j]] /\ h[k] = g[f[k]] BY <1>10
  <2>3. Ahead(h[j], h[k]) BY <1>4, <1>10, <2>1, <2>2 DEF InOrder
  <2> QED BY <1>1, <1>12, <2>2, <2>3 DEF Ahead
<1> QED BY <1>1, <1>3, <1>8, <1>10, <1>11, <1>12

LEMMA ReplayIs ==
    ASSUME Flow, NEW i \in 1 .. Len(ring), NEW after, NEW e, e = taken[i],
           NEW r, r = ReplaySince(ring[i], after)
    PROVE  /\ IsList(r)
           /\ \A j \in DOMAIN r : r[j].q > after
           /\ \A n \in Kept(i) : e[n].frame.q > after => \E j \in DOMAIN r : r[j] = e[n].frame
           /\ \A d : OneSource(i, d) => \A j, k \in DOMAIN r : j < k => r[j].q < r[k].q
<1>1. IsList(e) /\ Holds(ring[i], e) /\ Recorded(i, e) BY DEF Flow, BufferOK
<1>2. PICK b, S : b = ring[i] /\ S = {e[n] : n \in DOMAIN e} OBVIOUS
<1>3. PICK all, C : all = Entries(b) /\ C = b.count OBVIOUS
<1>4. /\ C \in Nat /\ C <= Len(e) /\ C = IF Len(e) < Capacity THEN Len(e) ELSE Capacity
      /\ all \in Seq(S) /\ Len(all) = C
      /\ \A m \in 1 .. C : all[m] = e[Len(e) - C + m]
  <2>1. IsList(e) /\ Holds(b, e) BY <1>1, <1>2
  <2>2. /\ b.count \in Nat /\ b.count <= Len(e)
        /\ b.count = IF Len(e) < Capacity THEN Len(e) ELSE Capacity
    BY <2>1, EntriesAre
  <2>3. Entries(b) \in Seq({e[n] : n \in DOMAIN e}) BY <2>1, EntriesAre
  <2>4. Len(Entries(b)) = b.count BY <2>1, EntriesAre
  <2>5. \A m \in 1 .. b.count : Entries(b)[m] = e[Len(e) - b.count + m] BY <2>1, EntriesAre
  <2> QED BY <1>2, <1>3, <2>2, <2>3, <2>4, <2>5
<1>5. DOMAIN e = 1 .. Len(e) /\ Len(e) \in Nat /\ DOMAIN all = 1 .. C BY <1>1, <1>4 DEF IsList
<1>6. PICK K : K = {m \in DOMAIN all : Wanted(all[m], after)} OBVIOUS
<1>7. PICK hits : hits = Picked(all, K) OBVIOUS
<1>8. hits \in Seq(S) /\ \E g : Traces(all, K, Len(all), hits, g) BY <1>4, <1>7, PickedTraces
<1>9. PICK g : Traces(all, K, C, hits, g) BY <1>4, <1>8
<1>10. r = [j \in DOMAIN hits |-> hits[j].frame] BY <1>2, <1>3, <1>6, <1>7 DEF ReplaySince
<1>11. DOMAIN r = 1 .. Len(hits) /\ DOMAIN hits = 1 .. Len(hits) /\ Len(hits) \in Nat BY <1>8, <1>10
<1>12. IsList(r)
  <2>1. r \in Seq({r[j] : j \in DOMAIN r}) BY <1>10, <1>11
  <2> QED BY <2>1 DEF IsList
<1>13. ASSUME NEW j \in DOMAIN r
       PROVE  /\ g[j] \in K /\ g[j] \in 1 .. C /\ Len(e) - C + g[j] \in DOMAIN e
              /\ r[j] = e[Len(e) - C + g[j]].frame /\ e[Len(e) - C + g[j]].frame.q > after
  <2>1. g[j] \in K /\ g[j] \in 1 .. C /\ hits[j] = all[g[j]] BY <1>9, <1>11 DEF Traces
  <2>2. all[g[j]] = e[Len(e) - C + g[j]] BY <1>4, <2>1
  <2>3. Len(e) - C + g[j] \in 1 .. Len(e) BY <1>4, <1>5, <2>1
  <2>4. Wanted(all[g[j]], after) BY <1>6, <2>1
  <2>5. r[j] = hits[j].frame BY <1>10, <1>11
  <2>6. all[g[j]].frame.q > after BY <2>4 DEF Wanted
  <2> QED BY <1>5, <2>1, <2>2, <2>3, <2>5, <2>6
<1>14. ASSUME NEW n \in Kept(i), e[n].frame.q > after PROVE \E j \in DOMAIN r : r[j] = e[n].frame
  <2>1. n \in 1 .. Len(e) /\ n > Len(e) - Capacity /\ ~Expired(e[n]) BY <1>5 DEF Kept
  <2>2. PICK m : m = n - (Len(e) - C) OBVIOUS
  <2>3. m \in 1 .. C /\ Len(e) - C + m = n
    <3>1. PICK l, c : l = Len(e) /\ c = Capacity OBVIOUS
    <3>2. l \in Nat /\ c \in Nat /\ C \in Nat /\ C = IF l < c THEN l ELSE c
      BY <1>4, <1>5, <3>1, ReplayAssumption
    <3>3. n \in 1 .. l /\ n > l - c /\ m = n - (l - C) BY <2>1, <2>2, <3>1
    <3>4. m \in 1 .. C /\ l - C + m = n BY <3>2, <3>3
    <3> QED BY <3>1, <3>4
  <2>4. all[m] = e[n] BY <1>4, <2>3
  <2>5. m \in K BY <1>5, <1>6, <1>14, <2>1, <2>3, <2>4 DEF Wanted
  <2>6. PICK j \in 1 .. Len(hits) : g[j] = m BY <1>9, <2>3, <2>5 DEF Traces
  <2> QED BY <1>11, <1>13, <2>3, <2>6
<1>15. ASSUME NEW d, OneSource(i, d), NEW j \in DOMAIN r, NEW k \in DOMAIN r, j < k PROVE r[j].q < r[k].q
  <2>1. g[j] < g[k] BY <1>9, <1>11, <1>15 DEF Traces
  <2>2. PICK m, n : m = Len(e) - C + g[j] /\ n = Len(e) - C + g[k] OBVIOUS
  <2>3. m \in DOMAIN e /\ n \in DOMAIN e /\ r[j] = e[m].frame /\ r[k] = e[n].frame BY <1>13, <2>2
  <2>4. m < n
    <3>1. g[j] \in 1 .. C /\ g[k] \in 1 .. C BY <1>13
    <3> QED BY <1>4, <1>5, <2>1, <2>2, <3>1
  <2>5. chat[e[m].frame.t].conn = d /\ chat[e[n].frame.t].conn = d BY <1>15, <2>3 DEF OneSource
  <2> QED BY <1>1, <2>3, <2>4, <2>5 DEF Recorded
<1> QED BY <1>12, <1>13, <1>14, <1>15

LEMMA SourceIs ==
    ASSUME NEW c \in Conns, NEW s, Source(c, s) # 0
    PROVE  Source(c, s) \in Conns /\ Heard(Source(c, s), s) # << >>
<1>1. PICK heard : heard = {d \in Conns : d < c /\ Heard(d, s) # << >>} OBVIOUS
<1>2. heard \subseteq Nat /\ c \in Nat /\ \A d \in heard : d < c BY <1>1, SocketAssumption
<1>3. Source(c, s) = IF heard = {} THEN 0 ELSE CHOOSE d \in heard : \A e \in heard : e <= d
  BY <1>1 DEF Source
<1>4. heard # {} BY <1>3
<1>5. \E d \in heard : \A e \in heard : e <= d
  <2>1. PICK S : S = {n \in Nat : c - n \in heard} OBVIOUS
  <2>2. \A e \in heard : c - e \in S
    <3>1. ASSUME NEW e \in heard PROVE c - e \in Nat /\ c - (c - e) = e BY <1>2
    <3> QED BY <2>1, <3>1
  <2>3. S # {} /\ S \in SUBSET Nat BY <1>4, <2>1, <2>2
  <2>4. PICK n \in S : \A m \in S : n <= m BY <2>3, Least
  <2>5. c - n \in heard BY <2>1, <2>4
  <2>6. ASSUME NEW e \in heard PROVE e <= c - n
    <3>1. n <= c - e BY <2>2, <2>4
    <3>2. n \in Nat BY <2>3
    <3> QED BY <1>2, <3>1, <3>2
  <2> QED BY <2>5, <2>6
<1>6. Source(c, s) \in heard BY <1>3, <1>4, <1>5
<1> QED BY <1>1, <1>6

LEMMA ReplyIs ==
    ASSUME SocketInv, NEW c \in Conns, NEW s, Reconnect(c, s), stored[s] # NoBuffer
    PROVE  LET frames == ReplaySince(ring[stored[s]], Last(Heard(Source(c, s), s)).q)
           IN  conn'[c].reply = IF frames = << >> THEN <<Refusal>> ELSE frames
<1>1. PICK frames : frames = ReplaySince(ring[stored[s]], Last(Heard(Source(c, s), s)).q) OBVIOUS
<1>2. PICK i : /\ Buffer(s, i, setting.room)
               /\ LET f == ReplaySince(ring'[i], Last(Heard(Source(c, s), s)).q)
                  IN  Reply(c, IF f = << >> THEN <<Refusal>> ELSE f)
  BY DEF Reconnect
<1>3. i = stored[s] /\ ring' = ring BY <1>2 DEF Buffer, replayVars
<1>4. PICK r : r = IF frames = << >> THEN <<Refusal>> ELSE frames OBVIOUS
<1>5. ReplaySince(ring'[i], Last(Heard(Source(c, s), s)).q) = frames BY <1>1, <1>3
<1>6. Reply(c, r) BY <1>2, <1>4, <1>5
<1>7. SetConn(c, [conn[c] EXCEPT !.reader = "reply", !.reply = r]) BY <1>6 DEF Reply
<1>8. DOMAIN conn[c] = ConnFields BY DEF SocketInv, SocketShape
<1>9. PICK p : p = [conn[c] EXCEPT !.reader = "reply", !.reply = r] OBVIOUS
<1>10. p.reply = r BY <1>8, <1>9 DEF ConnFields
<1>11. conn'[c] = p BY <1>7, <1>9, ConnSetTo
<1> QED BY <1>1, <1>4, <1>10, <1>11

LEMMA ReplayIsWhole ==
    ASSUME ReplayInv, NEW c \in Conns, NEW s \in Sessions, Reconnect(c, s)
    PROVE  Completes(c, s)
<1>1. SocketInv /\ Flow BY DEF ReplayInv, Reconnect, Once
<1>2. PICK d, i : d = Source(c, s) /\ i = stored[s] OBVIOUS
<1>3. SUFFICES ASSUME i # NoBuffer, OneSource(i, d), s \notin crossed
               PROVE  /\ {taken[i][n].frame : n \in Kept(i)}
                             \subseteq ToSet(Heard(d, s)) \union ToSet(Replay(c)) \union dropped
                      /\ ToSet(Heard(d, s)) \intersect ToSet(Replay(c)) = {}
                      /\ \A m, n \in DOMAIN Replay(c) : m < n => Replay(c)[m].q < Replay(c)[n].q
  BY <1>2 DEF Completes
<1>4. d # 0 BY <1>2 DEF Reconnect
<1>5. d \in Conns /\ Heard(d, s) # << >> BY <1>2, <1>4, SourceIs
<1>6. i \in 1 .. Len(ring) /\ Len(ring) \in Nat
  <2>1. i \in 0 .. Len(ring) /\ IsList(ring) BY <1>1, <1>2 DEF Flow, StoreOK
  <2>2. Len(ring) \in Nat BY <2>1 DEF IsList
  <2> QED BY <1>3, <2>1, <2>2 DEF NoBuffer
<1>7. PICK g, e : g = got[d] /\ e = taken[i] OBVIOUS
<1>8. PICK h : /\ h = Heard(d, s) /\ IsList(h)
               /\ \A j \in DOMAIN h : \E m \in DOMAIN g :
                      h[j] = g[m] /\ g[m].q > 0 /\ chat[g[m].t].session = s
               /\ \A m \in DOMAIN g : g[m].q > 0 /\ chat[g[m].t].session = s =>
                      \E j \in DOMAIN h : h[j] = g[m]
               /\ s \notin crossed => \A j, k \in DOMAIN h : j < k => h[j].q < h[k].q
  BY <1>1, <1>5, <1>7, HeardIs
<1>9. PICK last : last = Len(h) OBVIOUS
<1>10. last \in DOMAIN h /\ last \in Nat /\ \A j \in DOMAIN h : j \in Nat /\ j <= last
  <2>1. DOMAIN h = 1 .. Len(h) /\ Len(h) \in Nat BY <1>8 DEF IsList
  <2>2. Len(h) # 0
    <3>1. PICK S : h \in Seq(S) BY <1>8 DEF IsList
    <3> QED BY <1>5, <1>8, <3>1
  <2> QED BY <1>9, <2>1, <2>2
<1>11. PICK after : after = h[last].q OBVIOUS
<1>12. Last(Heard(d, s)).q = after BY <1>8, <1>9, <1>11 DEF Last
<1>13. PICK w \in DOMAIN g : h[last] = g[w] /\ g[w].q > 0 /\ chat[g[w].t].session = s BY <1>8, <1>10
<1>14. InOrder(g, d) BY <1>1, <1>5, <1>7 DEF Flow, LineOK
<1>15. \A m \in DOMAIN g : g[m].q \in Nat BY <1>14 DEF InOrder, FrameOK
<1>16. after \in Nat /\ after > 0 BY <1>11, <1>13, <1>15
<1>17. \A j \in DOMAIN h : h[j].q \in Nat /\ h[j].q <= after
  <2>1. ASSUME NEW j \in DOMAIN h PROVE h[j].q \in Nat /\ h[j].q <= after
    <3>1. h[j].q \in Nat BY <1>8, <1>15
    <3>2. j = last \/ j < last BY <1>10
    <3>3. j < last => h[j].q < h[last].q BY <1>3, <1>8, <1>10
    <3> QED BY <1>11, <1>16, <3>1, <3>2, <3>3
  <2> QED BY <2>1
<1>18. PICK r : r = ReplaySince(ring[i], after) OBVIOUS
<1>19. /\ \A j \in DOMAIN r : r[j].q > after
       /\ \A n \in Kept(i) : e[n].frame.q > after => \E j \in DOMAIN r : r[j] = e[n].frame
       /\ \A x : OneSource(i, x) => \A j, k \in DOMAIN r : j < k => r[j].q < r[k].q
  <2>1. Flow /\ i \in 1 .. Len(ring) /\ e = taken[i] BY <1>1, <1>6, <1>7
  <2>2. \A j \in DOMAIN r : r[j].q > after BY <1>18, <2>1, ReplayIs
  <2>3. \A n \in Kept(i) : e[n].frame.q > after => \E j \in DOMAIN r : r[j] = e[n].frame
    BY <1>18, <2>1, ReplayIs
  <2>4. \A x : OneSource(i, x) => \A j, k \in DOMAIN r : j < k => r[j].q < r[k].q
    BY <1>18, <2>1, ReplayIs
  <2> QED BY <2>2, <2>3, <2>4
<1>20. Replay(c) = r
  <2>1. conn'[c].reply = IF r = << >> THEN <<Refusal>> ELSE r BY <1>1, <1>2, <1>3, <1>12, <1>18, ReplyIs
  <2>2. r # <<Refusal>>
    <3>1. SUFFICES ASSUME r = <<Refusal>> PROVE FALSE OBVIOUS
    <3>2. 1 \in DOMAIN r /\ r[1] = Refusal BY <3>1
    <3>3. Refusal.q = 0 BY DEF Refusal, Frame
    <3> QED BY <1>16, <1>19, <3>2, <3>3
  <2> QED BY <2>1, <2>2 DEF Replay
<1>21. ToSet(h) = {h[j] : j \in DOMAIN h} /\ ToSet(r) = {r[j] : j \in DOMAIN r} BY DEF ToSet
<1>22. ASSUME NEW n \in Kept(i) PROVE e[n].frame \in ToSet(h) \union ToSet(r) \union dropped
  <2>1. PICK f : f = e[n].frame OBVIOUS
  <2>2. n \in DOMAIN e BY <1>7 DEF Kept
  <2>3. Recorded(i, e) BY <1>1, <1>6, <1>7 DEF Flow, BufferOK
  <2>4. Numbered(f) /\ Delivered(f) /\ chat[f.t].session = s BY <1>2, <2>1, <2>2, <2>3 DEF Recorded
  <2>5. chat[f.t].conn = d BY <1>3, <1>7, <2>1, <2>2 DEF OneSource
  <2>6. f.q \in Nat /\ f.q > 0 BY <2>4 DEF Numbered
  <2>7. CASE f.q > after BY <1>19, <1>21, <2>1, <2>7
  <2>8. CASE f.q <= after
    <3>1. ~AllAhead(g, f)
      <4>1. SUFFICES ASSUME Ahead(g[w], f) PROVE FALSE BY DEF AllAhead
      <4>2. g[w].q < f.q BY <1>3, <1>13, <2>4, <2>6, <4>1 DEF Ahead
      <4>3. g[w].q = after BY <1>11, <1>13
      <4> QED BY <1>16, <2>6, <2>8, <4>2, <4>3
    <3>2. f \in dropped \/ InList(f, g) BY <1>3, <1>7, <2>4, <2>5, <3>1 DEF Delivered
    <3>3. ASSUME InList(f, g) PROVE f \in ToSet(h)
      <4>1. PICK m \in DOMAIN g : g[m] = f BY <3>3 DEF InList
      <4>2. PICK j \in DOMAIN h : h[j] = g[m] BY <1>8, <2>4, <2>6, <4>1
      <4> QED BY <1>21, <4>1, <4>2
    <3> QED BY <2>1, <3>2, <3>3
  <2> QED BY <1>16, <2>6, <2>7, <2>8
<1>23. ToSet(h) \intersect ToSet(r) = {}
  <2>1. ASSUME NEW j \in DOMAIN h, NEW k \in DOMAIN r PROVE h[j] # r[k]
    <3>1. h[j].q \in Nat /\ h[j].q <= after /\ r[k].q > after BY <1>17, <1>19
    <3>2. ~(h[j].q > after) BY <1>16, <3>1
    <3> QED BY <3>1, <3>2
  <2> QED BY <1>21, <2>1
<1>24. \A j, k \in DOMAIN r : j < k => r[j].q < r[k].q BY <1>3, <1>19
<1> QED BY <1>7, <1>8, <1>20, <1>22, <1>23, <1>24

(* For any connections, requests, sessions, capacities and settings: what  *)
(* a reconnecting client gets, together with what it had, is all of the    *)
(* session that the buffer still has, without a gap, without a frame twice *)
(* and in order, while the session was used on one connection and by one   *)
(* turn at a time (websocket.go handleChatRequest, wsreplay.go             *)
(* ReplaySince).                                                           *)
THEOREM ReplaysComplete == SocketSpec => ReplayCompletes
<1>1. SocketInit => ReplayInv BY ReplayBegins
<1>2. ReplayInv /\ [SocketNext]_socketVars => ReplayInv' BY ReplayGoesOn
<1>3. ReplayInv => [\A c \in Conns, s \in Sessions : Reconnect(c, s) => Completes(c, s)]_socketVars
  BY ReplayIsWhole
<1> QED BY <1>1, <1>2, <1>3, PTL DEF SocketSpec, ReplayCompletes
=============================================================================
