------------------------ MODULE ApprovalChainProps ------------------------
(* The properties of one supervised tool call.                             *)
EXTENDS ApprovalChain

(* A call that runs on a human's word runs on the row of its last attempt, *)
(* approved by an operator or by a rule's sweep, never on a withdrawn one; *)
(* and a reviewer that failed approves nothing.                            *)
RunsOnlyWhenGranted ==
    call.outcome = "approved" =>
        /\ call.granted = "row" =>
             /\ status[call.attempt] = "approved"
             /\ by[call.attempt].via \in {"resolve", "callback", "auto"}
             /\ \A a \in 1..(call.attempt - 1) : status[a] # "pending" \/ faults > 0
        /\ call.granted \in {"decider", "supervisor"} => ~call.reviewFailed

(* While the store works, at most one row of a call is pending: the row of *)
(* a timed-out attempt is denied before the next one is submitted; and a   *)
(* turn that was stopped while it waited leaves no row that an operator    *)
(* could still answer (abortPendingApproval).                              *)
OneOpenRow ==
    faults = 0 =>
        /\ \A a, b \in Requests : status[a] = "pending" /\ status[b] = "pending" => a = b
        /\ call.outcome = "aborted" => \A a \in Requests : status[a] # "pending"

(* A denial that arrived in time is reported as such, never as the failure *)
(* of a reviewer (afterReviewerError).                                     *)
AnswerStands ==
    call.outcome = "supervisor_error" /\ waitCtx # "deadline" =>
        told[call.attempt] # [status |-> "denied", err |-> FALSE]

(* Every supervised call ends: each wait has a deadline, there are finitely *)
(* many attempts, and no call to the manager blocks.                       *)
CallEnds == <>(call.pc = "ended")

-----------------------------------------------------------------------------
(* "approvalTimedOutResult is fed to the LLM when no operator answered":   *)
(* a call never ends as timed out when an operator has approved its row.   *)
TimeoutMeansNoAnswer ==
    [][call.outcome # "approval_timeout" /\ call'.outcome = "approval_timeout"
       => \A a \in Requests : status[a] # "approved"]_allVars
=============================================================================
