-------------------------------- MODULE Turn --------------------------------
(***************************************************************************)
(* A turn of the engine (internal/agent/engine.go): the message is stored, *)
(* the model answers, its tool calls are run one by one, the results go    *)
(* back to it, and the answer is stored with the records of the calls.     *)
(* Meanwhile /panic stops every turn of the engine (RequestStop) and /stop *)
(* the turns of one chat (RequestStopChat); a turn notices at a boundary   *)
(* between steps, or in an approval wait.                                  *)
(*                                                                         *)
(* A step runs from one point where a goroutine blocks, locks or reads     *)
(* what another writes, to the next.  The model, the tools, the approvals  *)
(* and the store answer as they like; a cancelled context is one way for   *)
(* each of them to fail.                                                   *)
(***************************************************************************)
EXTENDS Naturals, Sequences, FiniteSets

CONSTANTS
    Turns,       \* live turns
    Chats,
    ChatOf,      \* the chat a turn answers
    Calls,       \* tool calls the model makes: a tool's name with its arguments
    NoCall,      \* "no call yet"
    ReadOnly,    \* calls of read-only tools: the restricted tier allows no others
    Idempotent,  \* calls whose results are kept for the turn
    MaxRounds,   \* the turn's tool-round budget
    MaxFan,      \* bound: calls the model asks for at once
    Stoppers,    \* goroutines that raise stops
    MaxStops     \* bound: stops raised

ASSUME ChatAssumption == ChatOf \in [Turns -> Chats]
ASSUME CallAssumption ==
    NoCall \notin Calls /\ ReadOnly \subseteq Calls /\ Idempotent \subseteq Calls
(* SetMaxToolRounds ignores 0, the configuration's word for the default.   *)
ASSUME RoundAssumption == MaxRounds \in Nat \ {0} /\ MaxFan \in Nat /\ MaxStops \in Nat

VARIABLES
    stopGen,    \* Engine.stopGen
    active,     \* turns in activeStops
    handle,     \* reason each turn's stop handle was fired for
    turn,       \* each turn's own state
    stop,       \* what each stopper is doing
    stops,      \* bound
    told,       \* history: turns that were under way when a RequestStop began
    cancelled,  \* history: turns a /stop was fired at
    after       \* history, per turn: calls and completions started once told

vars == <<stopGen, active, handle, turn, stop, stops, told, cancelled, after>>

-----------------------------------------------------------------------------

Reasons  == {"none", "repeated", "rounds", "requested", "cancelled"}
Tiers    == {"autonomous", "supervised", "restricted"}
Contents == {"text", "blank", "thought"}     \* thought: reasoning, blank content
TurnPcs  == {"new", "register", "prepare", "complete", "loop", "boundary", "review", "start",
             "exec", "stopped", "wrapup", "finish", "nudge", "persist", "fail", "leave", "end"}

(* What a model answers: the calls it wants, or its final word.            *)
Asked    == UNION {[1 .. n -> Calls] : n \in 1 .. MaxFan}
Response == [calls : Asked \union {<< >>}, content : Contents \union {"truncated"}]
Answers  == {a \in Response : a.calls # << >> => a.content # "truncated"}

NoResp  == [calls |-> << >>, content |-> "blank"]
NewTurn == [pc |-> "new", tier |-> "autonomous", gen |-> 0, rounds |-> 0, resp |-> NoResp,
            todo |-> << >>, owed |-> 0, text |-> FALSE, last |-> NoCall, same |-> 0,
            denied |-> {}, cache |-> {}, records |-> 0, ran |-> 0, applied |-> 0,
            reason |-> "none", spent |-> 0, outcome |-> "none", saved |-> 0]

IdleStop == [pc |-> "idle", left |-> {}]

Init ==
    /\ stopGen = 0
    /\ active = {}
    /\ handle = [t \in Turns |-> "none"]
    /\ turn = [t \in Turns |-> NewTurn]
    /\ stop = [s \in Stoppers |-> IdleStop]
    /\ stops = 0
    /\ told = {}
    /\ cancelled = {}
    /\ after = [t \in Turns |-> [calls |-> 0, spent |-> 0]]

-----------------------------------------------------------------------------
(* Helpers.                                                                *)

Set(t, x) == turn' = [turn EXCEPT ![t] = x]
At(t, pc) == turn[t].pc = pc
Quiet     == UNCHANGED <<stopGen, active, handle, stop, stops, told, cancelled>>

(* Mutant: only the turn's own handle is looked at.                        *)
TurnStopByHandle(t) == handle[t] # "none"

(* turnStopRequested.                                                      *)
TurnStopRequested(t) == handle[t] # "none" \/ stopGen # turn[t].gen

(* turnStopReason: an unfired handle means the engine-wide signal.         *)
TurnStopReason(t) == IF handle[t] = "none" THEN "requested" ELSE handle[t]

(* turnStop.fire: the first reason stays.                                  *)
Fired(old, reason) == IF old = "none" THEN reason ELSE old

(* A completion goes out to the model.                                     *)
Spend(t, x) ==
    /\ Set(t, [x EXCEPT !.spent = @ + 1])
    /\ after' = [after EXCEPT ![t].spent = IF t \in told THEN @ + 1 ELSE @]

(* Mutant: the call at which the round was cut short gets no result.       *)
SkipRest(x) == [x EXCEPT !.owed = @ - (Len(x.todo) - 1), !.todo = << >>]

(* appendSyntheticResults: one tool message for every call not executed.   *)
Skip(x) == [x EXCEPT !.owed = @ - Len(x.todo), !.todo = << >>]

(* The loop is left: its detector and its memory of calls go with it.      *)
Left(x, pc) == [x EXCEPT !.pc = pc, !.denied = {}, !.cache = {}, !.last = NoCall, !.same = 0]

CutShort(x, reason) == [Left(Skip(x), "stopped") EXCEPT !.reason = reason]

(* One call is dealt with: its record and its tool message are appended.   *)
Recorded(x) == [x EXCEPT !.pc = "boundary", !.records = @ + 1, !.owed = @ - 1, !.todo = Tail(@)]

-----------------------------------------------------------------------------
(* chatWithApproval up to the first completion.                            *)

(* Mutant: the generation is not captured.                                 *)
CapturedNot == 0

(* The generation a turn starts under.                                     *)
Captured == stopGen

(* The tier is the agent's or the schedule's.                              *)
Begin(t) ==
    /\ At(t, "new")
    /\ \E tier \in Tiers :
          Set(t, [turn[t] EXCEPT !.pc = "register", !.tier = tier, !.gen = Captured])
    /\ Quiet /\ UNCHANGED after

Register(t) ==
    /\ At(t, "register")
    /\ active' = active \union {t}
    /\ Set(t, [turn[t] EXCEPT !.pc = "prepare"])
    /\ UNCHANGED <<stopGen, handle, stop, stops, told, cancelled, after>>

(* prepareTurn stores the user's message; it may fail, and a scheduled     *)
(* skill that has nothing to do is answered with a notice.                 *)
Prepare(t) ==
    /\ At(t, "prepare")
    /\ \/ Spend(t, [turn[t] EXCEPT !.pc = "complete"])
       \/ /\ \E pc \in {"persist", "leave"} :
                Set(t, [turn[t] EXCEPT !.pc = pc, !.outcome = IF pc = "leave" THEN "error" ELSE @])
          /\ UNCHANGED after
    /\ Quiet

-----------------------------------------------------------------------------
(* The tool loop.                                                          *)

(* The completion returns; its response is kept until the loop, or the     *)
(* end of the turn, has read it.  After a tool round the soft cost limit may end *)
(* the loop with the model's calls still pending.                          *)
Complete(t) ==
    /\ At(t, "complete")
    /\ \/ \E a \in Answers, costly \in BOOLEAN :
             /\ costly => turn[t].rounds > 0
             /\ Set(t, [turn[t] EXCEPT !.resp = IF costly THEN [a EXCEPT !.calls = << >>] ELSE a,
                                       !.pc = IF costly THEN "finish" ELSE "loop"])
       \/ Set(t, [turn[t] EXCEPT !.pc = "fail"])
    /\ Quiet /\ UNCHANGED after

(* Mutant: a full extra round is granted.                                  *)
RoundsLeftOver(x) == x.rounds <= MaxRounds

(* The round budget is not exhausted.                                      *)
RoundsLeft(x) == x.rounds < MaxRounds

Heard(x) == x.text \/ x.resp.content = "text"

(* The head of runToolLoop: no calls, budget, stop, in this order.  Only a *)
(* round that starts appends the assistant's calls.                        *)
Loop(t) ==
    LET x == turn[t] IN
    /\ At(t, "loop")
    /\ \/ /\ x.resp.calls = << >>
          /\ Set(t, Left(x, "finish"))
       \/ /\ x.resp.calls # << >> /\ ~RoundsLeft(x)
          /\ Set(t, [Left(x, "stopped") EXCEPT !.reason = "rounds", !.resp = NoResp])
       \/ /\ x.resp.calls # << >> /\ RoundsLeft(x) /\ TurnStopRequested(t)
          /\ Set(t, [Left(x, "stopped") EXCEPT !.reason = TurnStopReason(t),
                                               !.resp = NoResp, !.text = Heard(x)])
       \/ /\ x.resp.calls # << >> /\ RoundsLeft(x) /\ ~TurnStopRequested(t)
          /\ Set(t, [x EXCEPT !.pc = "boundary", !.rounds = @ + 1, !.text = Heard(x),
                              !.resp = NoResp, !.todo = x.resp.calls,
                              !.owed = @ + Len(x.resp.calls)])
    /\ Quiet /\ UNCHANGED after

(* The round is over: its results go to the model (completeToolRound).     *)
NextRound(t) ==
    /\ At(t, "boundary") /\ turn[t].todo = << >>
    /\ Spend(t, [turn[t] EXCEPT !.pc = "complete"])
    /\ Quiet

(* The detector's count when call k comes next.                            *)
Same(x, k) == IF k = x.last THEN x.same + 1 ELSE 1

Allowed(x, k) == x.tier = "restricted" => k \in ReadOnly

(* executeToolCallDeduped: the tier may refuse the call; one that was      *)
(* denied, or whose result is kept, is answered from memory; the others    *)
(* are reviewed under the supervised tier, and run.                        *)
Lookup(x, k) ==
    IF ~Allowed(x, k) \/ k \in x.denied \union x.cache THEN Recorded(x)
    ELSE [x EXCEPT !.pc = IF x.tier = "supervised" THEN "review" ELSE "start"]

(* Before each call of the round (runRoundToolCalls): a stop, then the     *)
(* repeat detector (threshold 3), then the call.                           *)
Boundary(t) ==
    LET x == turn[t]
        k == Head(x.todo)
        y == [x EXCEPT !.last = k, !.same = Same(x, k)]
    IN  /\ At(t, "boundary") /\ x.todo # << >>
        /\ \/ /\ TurnStopRequested(t)
              /\ Set(t, CutShort(x, TurnStopReason(t)))
           \/ /\ ~TurnStopRequested(t) /\ y.same >= 3
              /\ Set(t, CutShort(y, "repeated"))
           \/ /\ ~TurnStopRequested(t) /\ y.same < 3
              /\ Set(t, Lookup(y, k))
        /\ Quiet /\ UNCHANGED after

(* A call whose approval wait was cut short joins those not started.       *)
Aborted(x, t) == CutShort(x, TurnStopReason(t))

(* resolveSupervisedApproval: granted, refused (by a human, a reviewer, a  *)
(* timeout, a cancelled context); a wait that a stop found without a grant *)
(* is aborted.                                                             *)
Review(t) ==
    LET x == turn[t] IN
    /\ At(t, "review")
    /\ \/ Set(t, [x EXCEPT !.pc = "start"])
       \/ Set(t, Recorded([x EXCEPT !.denied = @ \union {Head(x.todo)}]))
       \/ TurnStopRequested(t) /\ Set(t, Aborted(x, t))
    /\ Quiet /\ UNCHANGED after

(* tools.Execute: from here on the call may take effect.                   *)
Execute(t) ==
    /\ At(t, "start")
    /\ Set(t, [turn[t] EXCEPT !.pc = "exec", !.applied = @ + 1])
    /\ after' = [after EXCEPT ![t].calls = IF t \in told \union cancelled THEN @ + 1 ELSE @]
    /\ Quiet

(* It returns, or fails; an idempotent call that succeeded is kept.        *)
Return(t) ==
    LET x == turn[t] IN
    /\ At(t, "exec")
    /\ \E ok \in BOOLEAN :
          Set(t, Recorded([x EXCEPT !.ran = @ + 1,
                                    !.cache = IF ok THEN @ \union ({Head(x.todo)} \intersect Idempotent)
                                              ELSE @]))
    /\ Quiet /\ UNCHANGED after

-----------------------------------------------------------------------------
(* How the loop ends.                                                      *)

(* A stopped turn asks the model for a last word, unless the stop is an    *)
(* emergency or no call was made.                                          *)
WrapsUp(x) == x.records > 0 /\ x.reason # "requested"

(* Mutant: a cancelled turn with nothing to sum up is an error too.        *)
MarkerOnlyPanic(x) == x.reason = "requested"

(* These answer with a marker where there is no last word.                 *)
Marker(x) == x.reason \in {"requested", "cancelled"}

(* finishStoppedToolLoop.                                                  *)
Stopped(t) ==
    LET x == turn[t] IN
    /\ At(t, "stopped")
    /\ \/ /\ WrapsUp(x)
          /\ Spend(t, [x EXCEPT !.pc = "wrapup"])
       \/ /\ ~WrapsUp(x)
          /\ Set(t, [x EXCEPT !.pc = IF Marker(x) THEN "persist" ELSE "fail"])
          /\ UNCHANGED after
    /\ Quiet

(* The last word arrives, is blank, or the completion fails.               *)
WrapUp(t) ==
    LET x == turn[t] IN
    /\ At(t, "wrapup")
    /\ \E answer \in {"text", "blank", "error"} :
          Set(t, [x EXCEPT !.pc = IF \/ Marker(x)
                                     \/ answer = "text"
                                     \/ (answer = "blank" /\ x.text)
                                  THEN "persist" ELSE "fail"])
    /\ Quiet /\ UNCHANGED after

(* A normal end: a truncated response is an error; a blank one after tool  *)
(* rounds is replaced by what the model said before, or asked for again.   *)
Finish(t) ==
    LET x == turn[t] IN
    /\ At(t, "finish")
    /\ \/ /\ x.resp.content = "truncated"
          /\ Set(t, [x EXCEPT !.pc = "fail"]) /\ UNCHANGED after
       \/ /\ x.resp.content # "truncated"
          /\ x.resp.content = "text" \/ x.rounds = 0 \/ (x.resp.content = "blank" /\ x.text)
          /\ Set(t, [x EXCEPT !.pc = "persist"]) /\ UNCHANGED after
       \/ /\ x.rounds > 0
          /\ x.resp.content = "thought" \/ (x.resp.content = "blank" /\ ~x.text)
          /\ Spend(t, [x EXCEPT !.pc = "nudge"])
    /\ Quiet

Nudge(t) ==
    /\ At(t, "nudge")
    /\ \E pc \in {"persist", "fail"} : Set(t, [turn[t] EXCEPT !.pc = pc])
    /\ Quiet /\ UNCHANGED after

(* persistTurn: the answer, then its records; the store may fail.          *)
Persist(t) ==
    LET x == turn[t] IN
    /\ At(t, "persist")
    /\ \/ Set(t, [x EXCEPT !.pc = "leave", !.outcome = "answered", !.saved = x.ran])
       \/ Set(t, [x EXCEPT !.pc = "leave", !.outcome = "unsaved"])
    /\ Quiet /\ UNCHANGED after

(* Mutant: records are saved with an answer only.                          *)
KeptNone(x) == {[x EXCEPT !.outcome = "error"]}

(* persistInterruptedProgress: a marker with the records of the calls that *)
(* ran.  Without records, what was streamed when the caller went away.     *)
Kept(x) ==
    IF x.records = 0 THEN {[x EXCEPT !.outcome = o] : o \in {"error", "partial"}}
    ELSE {[x EXCEPT !.outcome = "marked", !.saved = x.ran], [x EXCEPT !.outcome = "unsaved"]}

Fail(t) ==
    /\ At(t, "fail")
    /\ \E y \in Kept(turn[t]) : Set(t, [y EXCEPT !.pc = "leave"])
    /\ Quiet /\ UNCHANGED after

(* unregisterTurnStop.                                                     *)
Leave(t) ==
    /\ At(t, "leave")
    /\ active' = active \ {t}
    /\ Set(t, [turn[t] EXCEPT !.pc = "end"])
    /\ UNCHANGED <<stopGen, handle, stop, stops, told, cancelled, after>>

-----------------------------------------------------------------------------
(* Stops.                                                                  *)

Underway == {t \in Turns : turn[t].pc \notin {"new", "end"}}

(* RequestStop: the generation first, the handles after.                   *)
RequestStop(s) ==
    /\ stop[s].pc = "idle" /\ stops < MaxStops
    /\ stopGen' = stopGen + 1
    /\ told' = told \union Underway
    /\ stop' = [stop EXCEPT ![s].pc = "fireall"]
    /\ stops' = stops + 1
    /\ UNCHANGED <<active, handle, turn, cancelled, after>>

FireAll(s) ==
    /\ stop[s].pc = "fireall"
    /\ handle' = [t \in Turns |-> IF t \in active THEN Fired(handle[t], "requested") ELSE handle[t]]
    /\ told' = told \union active
    /\ stop' = [stop EXCEPT ![s] = IdleStop]
    /\ UNCHANGED <<stopGen, active, turn, stops, cancelled, after>>

(* RequestStopChat: a snapshot of the chat's handles, fired without lock.  *)
RequestStopChat(s) ==
    /\ stop[s].pc = "idle" /\ stops < MaxStops
    /\ \E c \in Chats :
          LET hit == {t \in active : ChatOf[t] = c}
          IN  hit # {} /\ stop' = [stop EXCEPT ![s] = [pc |-> "fire", left |-> hit]]
    /\ stops' = stops + 1
    /\ UNCHANGED <<stopGen, active, handle, turn, told, cancelled, after>>

FireOne(s) ==
    /\ stop[s].pc = "fire"
    /\ \E t \in stop[s].left :
          /\ handle' = [handle EXCEPT ![t] = Fired(@, "cancelled")]
          /\ cancelled' = cancelled \union {t}
          /\ stop' = [stop EXCEPT ![s] = IF stop[s].left = {t} THEN IdleStop
                                         ELSE [pc |-> "fire", left |-> stop[s].left \ {t}]]
    /\ UNCHANGED <<stopGen, active, turn, stops, told, after>>

-----------------------------------------------------------------------------

TurnStep(t) ==
    \/ Begin(t) \/ Register(t) \/ Prepare(t)
    \/ Complete(t) \/ Loop(t) \/ NextRound(t) \/ Boundary(t) \/ Review(t) \/ Execute(t) \/ Return(t)
    \/ Stopped(t) \/ WrapUp(t) \/ Finish(t) \/ Nudge(t) \/ Persist(t) \/ Fail(t) \/ Leave(t)

StopStep(s) == RequestStop(s) \/ FireAll(s) \/ RequestStopChat(s) \/ FireOne(s)

Next == (\E t \in Turns : TurnStep(t)) \/ (\E s \in Stoppers : StopStep(s))

Spec == Init /\ [][Next]_vars
=============================================================================
