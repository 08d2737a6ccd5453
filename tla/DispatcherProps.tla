--------------------------- MODULE DispatcherProps ---------------------------
(***************************************************************************)
(* What /stop and /panic promise.                                          *)
(***************************************************************************)
EXTENDS Dispatcher

(* A hard kill or a panic cancels no turn that began after it was raised,  *)
(* also when that turn took over the key of the one it was raised at       *)
(* (armHardKill re-checks the registration); and a turn that the sweep of  *)
(* a panic cancels finds the stop already requested (executePanic raises   *)
(* the cooperative stop before it cancels).                                *)
KilledForAReason ==
    /\ fresh \intersect dead = {}
    /\ \A t \in swept : At(t, "running") => Requested(t)

(* Once /stop has asked the engines, every turn that ran for the chat when *)
(* it began has heard it or is over, whichever agent serves it, and the    *)
(* caller knows that something is stopping.                                *)
StopReachesChat ==
    \A c \in Callers :
        call[c].pc \in {"arm", "armed"} =>
            LET still == call[c].seen \intersect Running
            IN  still \subseteq fired /\ (still # {} => call[c].observed)

(* A turn that is under way when its chat is stopped comes to an end or    *)
(* has its context cancelled, though it never reaches a boundary: always   *)
(* for an API turn, for an adapter turn when it is alone in its chat.      *)
Addressed(t) ==
    \/ Origin[t] = "api"
    \/ Origin[t] = "adapter" /\ \A u \in Turns \ {t} : ChatOf[u] # ChatOf[t]

StoppedTurnDies ==
    \A t \in Turns : Addressed(t) =>
        ((InFlight(t) /\ \E c \in Callers : call[c].pc = "ask" /\ call[c].chat = ChatOf[t])
            ~> (t \in dead \/ ~InFlight(t)))

(* /panic returns, so the loop that runs it goes on to read messages:      *)
(* nobody cancels the scheduled turn that Pause waits for, but one that    *)
(* was in its engine when the panic began has been asked to stop, by the   *)
(* generation or by its handle, and ends after its call.  Unless a resume  *)
(* overlapped the panic, or Pause waits for a turn that the schedule began *)
(* so late that no stop reached it: that one takes its own time.           *)
Belated(c) == call[c].pc = "wait" /\ \E t \in Scheduled \ call[c].seen : InFlight(t)
PanicReturns ==
    \A c \in Callers :
        call[c].pc \in PanicPcs ~> (call[c].pc \notin PanicPcs \/ raced \/ Belated(c))

(* Stops take effect: the turn that was stopped ends, and so does the call *)
(* that stopped it.                                                        *)
StopsTakeEffect == StoppedTurnDies /\ PanicReturns

-----------------------------------------------------------------------------
(* "triggers an emergency stop: cancels all in-flight requests"            *)
(* (dispatcher.go, handlePanicCommand): past the sweep, the adapter turns  *)
(* that were in their engine when it began are over or cancelled.          *)
PanicCancelsInFlight ==
    \A c \in Callers :
        call[c].pc \in {"pause", "wait"} =>
            \A t \in call[c].seen : Origin[t] = "adapter" => t \in dead \/ ~InFlight(t)

(* "the dispatcher's panic state is what refuses new work" (engine.go,     *)
(* RequestStop): no scheduled turn runs on, unasked, under a panic whose   *)
(* Pause waits for it.                                                     *)
PanicRefusesSchedules ==
    \A c \in Callers : \A t \in Scheduled :
        call[c].pc = "wait" /\ panicked /\ At(t, "running") => Requested(t)
=============================================================================
