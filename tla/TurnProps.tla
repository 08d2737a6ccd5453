------------------------------ MODULE TurnProps ------------------------------
(***************************************************************************)
(* What a turn promises to the model, to its user and to the operator who  *)
(* stops it.                                                               *)
(***************************************************************************)
EXTENDS Turn

Ended(t)   == turn[t].pc = "end"
AllIdle    == \A s \in Stoppers : stop[s].pc = "idle"

(* Whatever is sent to the model is a valid request: every call of an      *)
(* assistant message has its tool message, also after a round that a stop, *)
(* an aborted approval or the repeat detector cut short.                   *)
RequestsAnswered ==
    \A t \in Turns :
        turn[t].pc \in {"complete", "wrapup", "nudge", "finish", "persist"} => turn[t].owed = 0

(* A stop takes effect within one step: after /panic, or /stop, reached a  *)
(* turn, at most one call still starts, the one that was past its boundary.*)
StopWithinOneCall == \A t \in Turns : after[t].calls <= 1

(* A stop reaches the turns it was raised for and no other: a turn parked  *)
(* in an approval has heard it, though the wait watches the turn's handle  *)
(* only and the generation is read before the handle is registered; and    *)
(* nothing is reset, and later turns are not affected.                     *)
StopIsSelfScoping ==
    /\ AllIdle => \A t \in told : turn[t].pc = "review" => handle[t] # "none"
    /\ \A t \in Turns : /\ turn[t].reason = "requested" => t \in told
                        /\ turn[t].reason = "cancelled" => t \in cancelled

(* What a turn can spend is bounded: one completion for the message, one   *)
(* for each round, one last word.  After an emergency stop, the follow-up  *)
(* of the round under way and one more at most.                            *)
SpendIsBounded ==
    \A t \in Turns : turn[t].spent <= MaxRounds + 2 /\ after[t].spent <= 2

(* The records kept of a turn are the calls it made: at its end, however   *)
(* it ends, as many as ran were saved, unless the store itself failed.     *)
SavedAsApplied ==
    \A t \in Turns : Ended(t) /\ turn[t].outcome # "unsaved" => turn[t].saved = turn[t].applied

(* A turn that was stopped leaves an answer or a marker in the history: a  *)
(* stop never fails a turn and never leaves a user message dangling.       *)
StoppedTurnAnswers ==
    \A t \in Turns : Ended(t) =>
        CASE turn[t].reason \in {"requested", "cancelled"} -> turn[t].outcome \in {"answered", "unsaved"}
          [] turn[t].reason \in {"repeated", "rounds"} -> turn[t].outcome \in {"answered", "marked", "unsaved"}
          [] OTHER -> TRUE

(* "an emergency stop must not spend tokens" (engine.go, loopStopReason):  *)
(* a turn in its tool loop sends no completion after /panic reached it.    *)
EmergencyStopSpendsNothing == \A t \in Turns : turn[t].rounds > 0 => after[t].spent = 0
=============================================================================
