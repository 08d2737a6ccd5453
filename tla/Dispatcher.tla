----------------------------- MODULE Dispatcher -----------------------------
(***************************************************************************)
(* The dispatcher (internal/agent/dispatcher.go): messages become turns of *)
(* an engine, and /stop, /panic and /resume, from a chat or from the API,  *)
(* reach the turns that are under way.  A stop is asked of the engines     *)
(* first; a turn that has not ended after the grace period has its context *)
(* cancelled.  A panic also cancels the turns in the in-flight table and   *)
(* pauses the scheduler, which cancels no turn: it waits for the scheduled *)
(* turn to end.                                                            *)
(*                                                                         *)
(* A step is one critical section of a mutex, or what a goroutine does     *)
(* between two of them.  What a turn does inside the engine is in Turn,    *)
(* what the scheduler does in Scheduler: here a turn that runs may end at  *)
(* any time, one schedule stands for all, and its Pause and Resume are one *)
(* step each, but for the wait of Pause.                                   *)
(***************************************************************************)
EXTENDS Naturals

CONSTANTS
    Turns,      \* messages, and the turns they become
    Origin,     \* where each comes from: an adapter, the API or a schedule
    Chats,      \* chat keys: adapter and external id
    ChatOf,     \* the chat of each turn
    NoTurn,     \* "no entry under that key"
    Engines,    \* the agents of the dispatcher's map
    Callers,    \* goroutines that call /stop, /panic or /resume
    Loop,       \* the one of them that is Dispatcher.Run
    Loads,      \* bound: the sets of turns of which those that arrive are part
    MaxCalls    \* bound: calls made

Origins == {"adapter", "api", "schedule"}

ASSUME TurnsAssumption == /\ NoTurn \notin Turns
                          /\ Origin \in [Turns -> Origins]
                          /\ ChatOf \in [Turns -> Chats]
ASSUME LoopAssumption == Loop \in Callers
ASSUME BoundsAssumption == Loads \subseteq SUBSET Turns /\ MaxCalls \in Nat

VARIABLES
    panicked,
    inFlight,     \* adapter turns by chat
    cancels,      \* chatCancels: API turns that registered their context
    timers,       \* hard kills armed and not yet due, by the turn they are for
    dead,         \* turns under way whose context is cancelled
    turn,         \* where each turn is, its engine and the generation it captured
    stopGen,      \* each engine's stop generation
    fired,        \* turns under way whose stop handle was fired
    schedPaused,  \* the scheduler's flag
    jobsLive,     \* the context with which the schedule's goroutine waits is live
    ticker,       \* that goroutine runs
    call,         \* callers: where they are and what they work on
    calls,
    fresh,        \* history: turns that no stop or panic was raised at
    swept,        \* history: turns cancelled by a panic that found them in their engine
    raced         \* history: a resume overlapped a panic

engineVars == <<stopGen, fired>>
tableVars  == <<inFlight, cancels, timers>>
schedVars  == <<schedPaused, jobsLive, ticker>>
vars == <<panicked, tableVars, dead, turn, engineVars, schedVars, call, calls,
          fresh, swept, raced>>

-----------------------------------------------------------------------------

TurnPcs  == {"new", "checked", "spawned", "entered", "captured", "running", "over", "done"}
StopPcs  == {"ask", "arm", "armed"}
PanicPcs == {"flag", "stop", "fire", "sweep", "pause", "wait"}
CallPcs  == {"idle", "route", "unpause"} \union StopPcs \union PanicPcs

IdleCall == [pc |-> "idle", left |-> {}, engine |-> "none", chat |-> "none",
             observed |-> FALSE, seen |-> {}]
NewTurn  == [pc |-> "new", engine |-> "none", gen |-> 0]

At(t, pc)    == turn[t].pc = pc
InFlight(t)  == turn[t].pc \in {"entered", "captured", "running", "over"}
Running      == {t \in Turns : At(t, "running")}
OfChat(c)    == {t \in Turns : ChatOf[t] = c}
Scheduled    == {t \in Turns : Origin[t] = "schedule"}

(* Mutant: the turn looks at its handle only.                              *)
RequestedByHandle(t) == t \in fired

(* turnStopRequested: the handle, or the engine's generation.              *)
Requested(t) == t \in fired \/ stopGen[turn[t].engine] # turn[t].gen

Arrivals     == {t \in Turns : ~At(t, "new")}
UnderPanic   == \E c \in Callers : call[c].pc \in PanicPcs
UnderStop(k) == \E c \in Callers : call[c].pc \in StopPcs /\ call[c].chat = k

Init ==
    /\ panicked = FALSE
    /\ inFlight = [k \in Chats |-> NoTurn]
    /\ cancels = {}
    /\ timers = {}
    /\ dead = {}
    /\ turn = [t \in Turns |-> NewTurn]
    /\ stopGen = [e \in Engines |-> 0]
    /\ fired = {}
    /\ schedPaused = FALSE
    /\ jobsLive = TRUE
    /\ ticker = TRUE
    /\ call = [c \in Callers |-> IdleCall]
    /\ calls = 0
    /\ fresh = {}
    /\ swept = {}
    /\ raced = FALSE

-----------------------------------------------------------------------------
(* A message becomes a turn.                                               *)

Move(t, pc) == turn' = [turn EXCEPT ![t].pc = pc]

(* History: a turn that begins while nobody stops its chat or panics.      *)
Began(t) == fresh' = IF UnderPanic \/ UnderStop(ChatOf[t]) THEN fresh ELSE fresh \union {t}

(* dispatchMessage, on the goroutine of Run: a panic blocks the message ... *)
Dispatch(t) ==
    /\ Origin[t] = "adapter" /\ At(t, "new")
    /\ call[Loop].pc = "idle"
    /\ \/ panicked /\ Move(t, "done") /\ UNCHANGED call
       \/ ~panicked /\ Move(t, "checked") /\ call' = [call EXCEPT ![Loop].pc = "route"]
    /\ UNCHANGED <<panicked, tableVars, dead, engineVars, schedVars, calls,
                   fresh, swept, raced>>

(* ... or it is routed to an agent and handled on a goroutine of its own.  *)
Spawn(t) ==
    /\ Origin[t] = "adapter" /\ At(t, "checked")
    /\ \E e \in Engines : turn' = [turn EXCEPT ![t] = [pc |-> "spawned", engine |-> e, gen |-> 0]]
    /\ call' = [call EXCEPT ![Loop] = IdleCall]
    /\ UNCHANGED <<panicked, tableVars, dead, engineVars, schedVars, calls,
                   fresh, swept, raced>>

(* handleMessage enters the in-flight table under the chat's key, whoever  *)
(* is there already.                                                       *)
Enter(t) ==
    /\ At(t, "spawned")
    /\ Move(t, "entered")
    /\ inFlight' = [inFlight EXCEPT ![ChatOf[t]] = t]
    /\ Began(t)
    /\ UNCHANGED <<panicked, cancels, timers, dead, engineVars, schedVars, call,
                   calls, swept, raced>>

(* A WebSocket frame or a REST request: the handler checks for a panic,    *)
(* then finds the agent and registers its cancel.                          *)
Arrive(t) ==
    /\ Origin[t] = "api" /\ At(t, "new")
    /\ Move(t, IF panicked THEN "done" ELSE "checked")
    /\ UNCHANGED <<panicked, tableVars, dead, engineVars, schedVars, call, calls,
                   fresh, swept, raced>>

RegisterChatCancel(t) ==
    /\ Origin[t] = "api" /\ At(t, "checked")
    /\ \E e \in Engines : turn' = [turn EXCEPT ![t] = [pc |-> "entered", engine |-> e, gen |-> 0]]
    /\ cancels' = cancels \union {t}
    /\ Began(t)
    /\ UNCHANGED <<panicked, inFlight, timers, dead, engineVars, schedVars, call,
                   calls, swept, raced>>

(* The schedule is due: its job is a turn, on the entry's goroutine and    *)
(* under the context of the process (the job is given the entry, not its   *)
(* context).  Nobody asks whether there is a panic; and a select whose     *)
(* context is cancelled may still take the tick.                           *)
Tick(t) ==
    /\ t \in Scheduled /\ At(t, "new") /\ ticker
    /\ \A u \in Scheduled : ~InFlight(u)
    /\ \E e \in Engines : turn' = [turn EXCEPT ![t] = [pc |-> "entered", engine |-> e, gen |-> 0]]
    /\ UNCHANGED <<panicked, tableVars, dead, engineVars, schedVars, call, calls,
                   fresh, swept, raced>>

(* The engine: the generation, then the handle.                            *)
Capture(t) ==
    /\ At(t, "entered")
    /\ turn' = [turn EXCEPT ![t] = [@ EXCEPT !.pc = "captured", !.gen = stopGen[turn[t].engine]]]
    /\ UNCHANGED <<panicked, tableVars, dead, engineVars, schedVars, call, calls,
                   fresh, swept, raced>>

(* From its handle to its end, and its end.                                *)
Run(t) ==
    /\ \/ At(t, "captured") /\ Move(t, "running")
       \/ At(t, "running") /\ Move(t, "over")
    /\ UNCHANGED <<panicked, tableVars, dead, engineVars, schedVars, call, calls,
                   fresh, swept, raced>>

(* Mutant: the entry stays.                                                *)
FreedNot(k) == inFlight

(* The table once a turn of chat k has deleted the key, whoever entered it. *)
Freed(k) == [inFlight EXCEPT ![k] = NoTurn]

Leave(t) ==
    /\ At(t, "over")
    /\ turn' = [turn EXCEPT ![t] = [NewTurn EXCEPT !.pc = "done"]]
    /\ inFlight' = IF Origin[t] = "adapter" THEN Freed(ChatOf[t]) ELSE inFlight
    /\ cancels' = cancels \ {t}
    /\ dead' = dead \ {t} /\ fired' = fired \ {t}
    /\ fresh' = fresh \ {t} /\ swept' = swept \ {t}
    /\ UNCHANGED <<panicked, timers, stopGen, schedVars, call, calls, raced>>

-----------------------------------------------------------------------------
(* StopChat.                                                               *)

Begin(c, record) ==
    /\ call[c].pc = "idle"
    /\ calls < MaxCalls /\ calls' = calls + 1
    /\ call' = [call EXCEPT ![c] = record]

(* requestChatStop: a snapshot of the agents.                              *)
StopChat(c) ==
    \E k \in {ChatOf[t] : t \in Turns \ Scheduled} :
        /\ Begin(c, [IdleCall EXCEPT !.pc = "ask", !.left = Engines, !.chat = k,
                                     !.seen = Running \intersect OfChat(k)])
        /\ fresh' = fresh \ OfChat(k)
        /\ UNCHANGED <<panicked, tableVars, dead, turn, engineVars, schedVars,
                       swept, raced>>

(* Mutant: an engine keeps one handle for a chat.                          *)
HandlesOne(e, k) ==
    LET all == {t \in Running \intersect OfChat(k) : turn[t].engine = e}
    IN  IF all = {} THEN {} ELSE {CHOOSE t \in all : TRUE}

(* The turns of a chat whose handles an engine holds.                      *)
Handles(e, k) == {t \in Running \intersect OfChat(k) : turn[t].engine = e}

(* RequestStopChat of one engine fires the handles of the chat's turns.    *)
Ask(c) ==
    /\ call[c].pc = "ask"
    /\ \E e \in call[c].left :
         LET hit == Handles(e, call[c].chat)
         IN  /\ fired' = fired \union hit
             /\ call' = [call EXCEPT ![c].left = @ \ {e},
                                     ![c].observed = @ \/ hit # {},
                                     ![c].pc = IF call[c].left = {e} THEN "arm" ELSE "ask"]
    /\ UNCHANGED <<panicked, tableVars, dead, turn, stopGen, schedVars, calls,
                   fresh, swept, raced>>

(* armHardKill: the chat's entry in the table ...                          *)
ArmInFlight(c) ==
    /\ call[c].pc = "arm"
    /\ timers' = timers \union ({inFlight[call[c].chat]} \ {NoTurn})
    /\ call' = [call EXCEPT ![c].pc = "armed"]
    /\ UNCHANGED <<panicked, inFlight, cancels, dead, turn, engineVars, schedVars,
                   calls, fresh, swept, raced>>

(* Mutant: nothing is armed behind a stop that a turn has observed.        *)
FallbacksUnobserved(c) == IF call[c].observed THEN {} ELSE cancels \intersect OfChat(call[c].chat)

(* ... and every cancel registered for it.                                 *)
Fallbacks(c) == cancels \intersect OfChat(call[c].chat)

ArmCancels(c) ==
    /\ call[c].pc = "armed"
    /\ timers' = timers \union Fallbacks(c)
    /\ call' = [call EXCEPT ![c] = IdleCall]
    /\ UNCHANGED <<panicked, inFlight, cancels, dead, turn, engineVars, schedVars,
                   calls, fresh, swept, raced>>

(* Mutant: the registration is looked up again when the timer is due.      *)
VictimsByKey(t) == ({inFlight[ChatOf[t]]} \ {NoTurn}) \union (cancels \intersect OfChat(ChatOf[t]))

(* Whom the timer of turn t cancels: t itself, if it is still registered.  *)
Victims(t) == {t} \intersect (cancels \union {inFlight[ChatOf[t]]})

(* The grace period is over.                                               *)
HardKill(t) ==
    /\ t \in timers
    /\ timers' = timers \ {t}
    /\ dead' = dead \union Victims(t)
    /\ UNCHANGED <<panicked, inFlight, cancels, turn, engineVars, schedVars, call,
                   calls, fresh, swept, raced>>

-----------------------------------------------------------------------------
(* Panic and Resume.                                                       *)

(* Mutant: contexts are cancelled before the engines are told.             *)
NextPhaseSwapped(pc) ==
    CASE pc = "flag" -> "sweep" [] pc = "sweep" -> "stop" [] pc = "stop" -> "pause"

(* executePanic: the flag, the engines, the contexts, the hook.            *)
NextPhase(pc) ==
    CASE pc = "flag" -> "stop" [] pc = "stop" -> "sweep" [] pc = "sweep" -> "pause"

Panic(c) ==
    /\ Begin(c, [IdleCall EXCEPT !.pc = NextPhase("flag"), !.left = Engines,
                                 !.seen = {t \in Turns : turn[t].pc \in {"captured", "running"}}])
    /\ panicked' = TRUE
    /\ fresh' = {}
    /\ raced' = (raced \/ \E d \in Callers : call[d].pc = "unpause")
    /\ UNCHANGED <<tableVars, dead, turn, engineVars, schedVars, swept>>

(* RequestStop of one agent after the other: the generation, then the     *)
(* handles.                                                                *)
RaiseGeneration(c) ==
    /\ call[c].pc = "stop"
    /\ \E e \in call[c].left :
         /\ stopGen' = [stopGen EXCEPT ![e] = @ + 1]
         /\ call' = [call EXCEPT ![c].pc = "fire", ![c].engine = e, ![c].left = @ \ {e}]
    /\ UNCHANGED <<panicked, tableVars, dead, turn, fired, schedVars, calls, fresh,
                   swept, raced>>

FireHandles(c) ==
    /\ call[c].pc = "fire"
    /\ fired' = fired \union {t \in Running : turn[t].engine = call[c].engine}
    /\ call' = [call EXCEPT ![c] =
                  [@ EXCEPT !.engine = "none",
                            !.pc = IF call[c].left = {} THEN NextPhase("stop") ELSE "stop"]]
    /\ UNCHANGED <<panicked, tableVars, dead, turn, stopGen, schedVars, calls, fresh,
                   swept, raced>>

(* The in-flight table is cancelled and emptied.                           *)
Sweep(c) ==
    /\ call[c].pc = "sweep"
    /\ LET hit == {inFlight[k] : k \in Chats} \ {NoTurn}
       IN  dead' = dead \union hit /\ swept' = swept \union (hit \intersect call[c].seen)
    /\ inFlight' = [k \in Chats |-> NoTurn]
    /\ call' = [call EXCEPT ![c].pc = NextPhase("sweep")]
    /\ UNCHANGED <<panicked, cancels, timers, turn, engineVars, schedVars, calls,
                   fresh, raced>>

(* The hook calls Scheduler.Pause: a paused scheduler lets it return, else *)
(* the context the entry's goroutine waits with is cancelled, and that     *)
(* goroutine, with the turn it may be running, is waited for.              *)
Pause(c) ==
    /\ call[c].pc = "pause"
    /\ \/ /\ schedPaused
          /\ call' = [call EXCEPT ![c] = IdleCall]
          /\ UNCHANGED <<schedPaused, jobsLive>>
       \/ /\ ~schedPaused
          /\ schedPaused' = TRUE /\ jobsLive' = FALSE
          /\ call' = [call EXCEPT ![c].pc = "wait"]
    /\ UNCHANGED <<panicked, tableVars, dead, turn, engineVars, ticker, calls,
                   fresh, swept, raced>>

(* The entry's goroutine ends when its context is cancelled and its job,   *)
(* if it runs one, has returned.                                           *)
TickerEnds ==
    /\ ticker /\ ~jobsLive
    /\ \A t \in Scheduled : ~InFlight(t)
    /\ ticker' = FALSE
    /\ UNCHANGED <<panicked, tableVars, dead, turn, engineVars, schedPaused, jobsLive,
                   call, calls, fresh, swept, raced>>

(* Pause waits for it.                                                     *)
Paused(c) ==
    /\ call[c].pc = "wait" /\ ~ticker
    /\ call' = [call EXCEPT ![c] = IdleCall]
    /\ UNCHANGED <<panicked, tableVars, dead, turn, engineVars, schedVars, calls,
                   fresh, swept, raced>>

Resume(c) ==
    /\ Begin(c, [IdleCall EXCEPT !.pc = "unpause"])
    /\ panicked' = FALSE
    /\ raced' = (raced \/ UnderPanic)
    /\ UNCHANGED <<tableVars, dead, turn, engineVars, schedVars, fresh, swept>>

(* Scheduler.Resume: nothing, unless it is paused; then the schedule gets  *)
(* a new context and a goroutine.  One stands for the old and the new when *)
(* the pause was still waiting: Scheduler tells them apart.                *)
Unpause(c) ==
    /\ call[c].pc = "unpause"
    /\ schedPaused' = FALSE
    /\ jobsLive' = (jobsLive \/ schedPaused) /\ ticker' = (ticker \/ schedPaused)
    /\ call' = [call EXCEPT ![c] = IdleCall]
    /\ UNCHANGED <<panicked, tableVars, dead, turn, engineVars, calls, fresh, swept, raced>>

-----------------------------------------------------------------------------

Handler(t) == Spawn(t) \/ Enter(t) \/ RegisterChatCancel(t) \/ Capture(t) \/ Leave(t)
Message(t) == /\ \E load \in Loads : Arrivals \union {t} \subseteq load
              /\ Dispatch(t) \/ Arrive(t) \/ Tick(t)

Work(c)  == \/ Ask(c) \/ ArmInFlight(c) \/ ArmCancels(c)
            \/ RaiseGeneration(c) \/ FireHandles(c) \/ Sweep(c) \/ Pause(c) \/ Paused(c)
            \/ Unpause(c)
Start(c) == StopChat(c) \/ Panic(c) \/ Resume(c)

Next ==
    \/ \E t \in Turns : Message(t) \/ Handler(t) \/ Run(t) \/ HardKill(t)
    \/ \E c \in Callers : Start(c) \/ Work(c)
    \/ TickerEnds

(* What a turn does however long its tools take; and a scheduled one, that *)
(* has no context to cancel, ends when it is asked to: it makes no further *)
(* call, and the engine bounds the one under way (toolExecTimeout).        *)
MustRun(t) == /\ At(t, "captured") \/ t \in dead \/ (t \in Scheduled /\ InFlight(t) /\ Requested(t))
              /\ Run(t)

(* Goroutines proceed and timers expire.  A turn need not end by itself: a *)
(* call of a tool may last.  One whose context is cancelled does end, and  *)
(* a goroutine whose context stays cancelled leaves its select, for the    *)
(* schedule cannot be due for ever.                                        *)
Fairness == /\ \A t \in Turns : WF_vars(Handler(t) \/ MustRun(t)) /\ WF_vars(HardKill(t))
            /\ \A c \in Callers : WF_vars(Work(c))
            /\ SF_vars(TickerEnds)

Spec     == Init /\ [][Next]_vars
FairSpec == Spec /\ Fairness
=============================================================================
