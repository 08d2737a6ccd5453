--------------------------- MODULE ApprovalChain ---------------------------
(***************************************************************************)
(* How the engine decides whether one supervised tool call may run         *)
(* (internal/agent: resolveSupervisedApproval, awaitToolApproval): the     *)
(* auto-approve rules, the decider, the supervisor, and at last a human,   *)
(* asked through the approval manager once per attempt.                    *)
(*                                                                         *)
(* The module extends Approval: attempt a of the call submits request a,   *)
(* the goroutine Engine makes the calls of the turn to the manager, and    *)
(* the other goroutines are the operators.                                 *)
(***************************************************************************)
EXTENDS Approval

CONSTANTS
    MaxAttempts,   \* 1 + the configured approval retries
    Engine         \* the goroutine of the turn

ASSUME AttemptsAssumption == /\ MaxAttempts \in Nat \ {0}
                             /\ Requests = 1..MaxAttempts
ASSUME EngineAssumption == Engine \in Threads

VARIABLES
    call,      \* the tool call: where it is, its attempt, how it ended and why
    waitCtx,   \* context of the current wait: "live", "deadline" or "cancelled"
    turnCtx,   \* context of the turn
    stop       \* stop of the turn: "none", "generation" moved, or handle "fired"

chainVars == <<call, waitCtx, turnCtx, stop>>
allVars   == <<vars, chainVars>>

Operators == Threads \ {Engine}

Outcomes == {"none", "approved", "denied", "approval_timeout", "supervisor_error", "aborted"}

ChainInit ==
    /\ Init
    /\ call = [pc |-> "rules", attempt |-> 1, outcome |-> "none", granted |-> "none",
               reviewFailed |-> FALSE]
    /\ waitCtx = "live"
    /\ turnCtx = "live"
    /\ stop = "none"

Ended(outcome, why) == [call EXCEPT !.pc = "ended", !.outcome = outcome, !.granted = why]

(* A hand-off to a human that nobody answered is put down to the reviewer  *)
(* whose failure caused it (afterReviewerError); an answer stands.         *)
Unanswered(outcome) ==
    Ended(IF call.reviewFailed THEN "supervisor_error" ELSE outcome, "none")

-----------------------------------------------------------------------------
(* Stage 1: the rules, read once for the whole chain.                      *)
Rules ==
    /\ call.pc = "rules"
    /\ IF ShouldAutoApprove(1)
       THEN /\ call' = Ended("approved", "rule")
            /\ UNCHANGED sub
       ELSE /\ call' = [call EXCEPT !.pc = "decider"]
            /\ sub' = [r \in Requests |-> "checked"]
    /\ UNCHANGED <<rowVars, registry, chan, told, ruleVars, thr, runVars, calls, faults,
                   ends, waitCtx, turnCtx, stop>>

(* Stage 2: both reviewers are read here.  The decider acts only in        *)
(* enforce mode and only on a verdict it did reach; its failure is         *)
(* remembered for a call without a supervisor.                             *)
Decider ==
    /\ call.pc = "decider"
    /\ \E decider \in {"off", "shadow", "enforce"}, supervised \in BOOLEAN :
         LET onward == [call EXCEPT !.pc = IF supervised THEN "supervisor" ELSE "submit"]
         IN  \/ call' = onward
             \/ /\ decider = "enforce"
                /\ \/ call' = Ended("approved", "decider")
                   \/ call' = Ended("denied", "none")
                   \/ call' = [onward EXCEPT !.reviewFailed = ~supervised]
    /\ UNCHANGED <<vars, waitCtx, turnCtx, stop>>

(* Stage 3: the supervisor approves, denies, escalates or fails.           *)
Supervisor ==
    /\ call.pc = "supervisor"
    /\ \/ call' = Ended("approved", "supervisor")
       \/ call' = Ended("denied", "none")
       \/ \E failure \in BOOLEAN :
             call' = [call EXCEPT !.pc = "submit", !.reviewFailed = failure]
    /\ UNCHANGED <<vars, waitCtx, turnCtx, stop>>

-----------------------------------------------------------------------------
(* Stage 4: ask a human.                                                   *)

(* No event handler: nobody could see the dialog.                          *)
NoSurface ==
    /\ call.pc = "submit" /\ call.attempt = 1
    /\ call' = Unanswered("denied")
    /\ UNCHANGED <<vars, waitCtx, turnCtx, stop>>

(* Submit persists the row; a store error, or a turn whose context has     *)
(* ended, ends the call.                                                   *)
Submit ==
    /\ call.pc = "submit"
    /\ \/ /\ turnCtx = "live"
          /\ CreateRow(call.attempt)
          /\ call' = IF sub'[call.attempt] = "done" THEN Unanswered("denied")
                     ELSE [call EXCEPT !.pc = "submitting"]
       \/ /\ turnCtx = "cancelled"
          /\ call' = Unanswered("denied")
          /\ UNCHANGED vars
    /\ UNCHANGED <<waitCtx, turnCtx, stop>>

(* Submit returns, the event goes out, and the deadline is armed.          *)
Arm ==
    /\ call.pc = "submitting"
    /\ RegisterClosure(call.attempt)
    /\ call' = [call EXCEPT !.pc = "armed"]
    /\ waitCtx' = turnCtx
    /\ UNCHANGED <<turnCtx, stop>>

Wait ==
    /\ call.pc = "armed"
    /\ EnrollAfter(call.attempt)
    /\ call' = [call EXCEPT !.pc = "waiting"]
    /\ UNCHANGED <<waitCtx, turnCtx, stop>>

(* WaitForResolution returns: with a result, or because its context ended; *)
(* when both are there it may return either way.                           *)
Wake ==
    /\ call.pc = "waiting"
    /\ \/ Receive(call.attempt)
       \/ waitCtx # "live" /\ StopWaiting(call.attempt) /\ UNCHANGED ends
    /\ call' = [call EXCEPT !.pc = "woken"]
    /\ UNCHANGED <<waitCtx, turnCtx, stop>>

(* Mutant: an approval of any attempt counts for the current one.          *)
ApprovedOnce == \E a \in Requests : status[a] = "approved"

Approved == told[call.attempt].status = "approved"
TimedOut == waitCtx = "deadline" /\ turnCtx = "live"

(* A stop wins over everything but an approval.                            *)
StopWins == stop # "none" /\ ~Approved

EngineCalls(c) == thr' = [thr EXCEPT ![Engine] = c]

(* Mutant: the row of a timed-out attempt is left to itself on retry.      *)
WithdrawNothing(a) == UNCHANGED thr

(* Before the next attempt the row of this one is denied, so that only one *)
(* row of the call is open.                                                *)
Withdraw(a) == EngineCalls(ResolveCall(a, "denied", "none"))

(* Mutant: the stopped turn leaves its row behind.                         *)
AbortNothing(a) == UNCHANGED thr

AbortRow(a) == EngineCalls(AbortCall(a))

(* Mutant: a denial is put down to a failed reviewer like a missing answer. *)
DeniedBlamed == Unanswered("denied")

Denied == Ended("denied", "none")

(* Mutant: one attempt too many.                                           *)
LastAttemptMissed(a) == a > MaxAttempts

LastAttempt(a) == a = MaxAttempts

Judge ==
    /\ call.pc = "woken"
    /\ \/ /\ StopWins
          /\ AbortRow(call.attempt)
          /\ call' = [call EXCEPT !.pc = "aborting"]
       \/ /\ ~StopWins /\ TimedOut /\ ~LastAttempt(call.attempt)
          /\ Withdraw(call.attempt)
          /\ call' = [call EXCEPT !.pc = "withdrawing"]
       \/ /\ ~StopWins /\ TimedOut /\ LastAttempt(call.attempt)
          /\ call' = Unanswered("approval_timeout")
          /\ UNCHANGED thr
       \/ /\ ~StopWins /\ ~TimedOut /\ Approved
          /\ call' = Ended("approved", "row")
          /\ UNCHANGED thr
       \/ /\ ~StopWins /\ ~TimedOut /\ ~Approved
          /\ call' = Denied
          /\ UNCHANGED thr
    /\ UNCHANGED <<rowVars, registry, chan, subVars, ruleVars, runVars, calls, faults,
                   ends, waitCtx, turnCtx, stop>>

(* Resolve or Abort has returned; their errors are only logged.            *)
AfterCall ==
    /\ thr[Engine].pc = "idle"
    /\ \/ /\ call.pc = "aborting"
          /\ call' = Ended("aborted", "none")
       \/ /\ call.pc = "withdrawing"
          /\ call' = [call EXCEPT !.pc = "submit", !.attempt = @ + 1]
    /\ UNCHANGED <<vars, waitCtx, turnCtx, stop>>

Chain == \/ Rules \/ Decider \/ Supervisor \/ NoSurface \/ Submit \/ Arm \/ Wait
         \/ Wake \/ Judge \/ AfterCall

-----------------------------------------------------------------------------
(* What happens around the call.                                           *)

InWait == call.pc \in {"armed", "waiting"}

Deadline ==
    /\ InWait /\ waitCtx = "live"
    /\ waitCtx' = "deadline"
    /\ UNCHANGED <<vars, call, turnCtx, stop>>

(* RequestStop moves the generation and then fires the handles;            *)
(* RequestStopChat only fires the handle.                                  *)
StopRequested ==
    /\ call.pc # "ended"
    /\ \/ stop = "none" /\ stop' \in {"generation", "fired"}
       \/ stop = "generation" /\ stop' = "fired"
    /\ UNCHANGED <<vars, call, waitCtx, turnCtx>>

(* watchStop: the fired handle cancels the wait.                           *)
StopSeen ==
    /\ InWait /\ waitCtx = "live" /\ stop = "fired"
    /\ waitCtx' = "cancelled"
    /\ UNCHANGED <<vars, call, turnCtx, stop>>

(* A hard kill of the turn.                                                *)
TurnKilled ==
    /\ call.pc # "ended" /\ turnCtx = "live"
    /\ turnCtx' = "cancelled"
    /\ waitCtx' = IF waitCtx = "live" THEN "cancelled" ELSE waitCtx
    /\ UNCHANGED <<vars, call, stop>>

Manager ==
    /\ \/ \E t \in Operators : Begin(t)
       \/ \E t \in Threads : Work(t)
       \/ ExpireBefore \/ DropSessionRules \/ RemoveAutoApproveRule
    /\ UNCHANGED chainVars

ChainNext == Chain \/ Deadline \/ StopRequested \/ StopSeen \/ TurnKilled \/ Manager

(* The turn's goroutine and the manager's run on; the deadline of a wait   *)
(* passes; nothing makes an operator answer or a stop arrive.              *)
ChainFairness ==
    /\ WF_allVars(Chain)
    /\ WF_allVars(Deadline)
    /\ WF_allVars(Work(Engine) /\ UNCHANGED chainVars)

ChainSpec     == ChainInit /\ [][ChainNext]_allVars
ChainFairSpec == ChainSpec /\ ChainFairness
=============================================================================
