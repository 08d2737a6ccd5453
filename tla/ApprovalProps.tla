--------------------------- MODULE ApprovalProps ---------------------------
(* The properties of the approval manager.                                 *)
EXTENDS Approval

Thread ==
    [pc : ThrPcs, via : Vias, own : Requests \union {NoRequest},
     cur : Requests \union {NoRequest}, verdict : Decided \union {"none"},
     rule : Rule, todo : SUBSET Tools, queue : SUBSET Requests,
     listed : SUBSET Requests, err : BOOLEAN]

Events == {"approve", "deny", "error", "abort"}

(* Every variable has its type; a thread's own fields included.            *)
TypeOK ==
    /\ status \in [Requests -> Status]
    /\ by \in [Requests -> [via : Vias, rule : Rule]]
    /\ registry \subseteq Requests
    /\ chan \in [Requests -> Mailbox]
    /\ sub \in [Requests -> SubPcs]
    /\ told \in [Requests -> Outcome]
    /\ sessionRules \subseteq Convs \X Tools
    /\ permRules \subseteq Tools
    /\ configRules \subseteq Tools
    /\ thr \in [Threads -> Thread]
    /\ ran \in [Requests -> Nat]
    /\ failed \subseteq Requests
    /\ audits \in [Requests -> Seq(Events)]
    /\ calls \in Nat /\ faults \in Nat /\ ends \in Nat

(* Thread t still has something to do for the row it decided.              *)
Deciding == {"get", "settle", "run", "store", "list", "next", "update", "notify"}
AtWork(t, r) ==
    \/ thr[t].cur = r /\ thr[t].pc \in {"get", "settle", "run", "notify"}
    \/ thr[t].own = r /\ thr[t].via = "callback" /\ status[r] = "approved"
       /\ thr[t].pc \in Deciding

-----------------------------------------------------------------------------
(* The action of a request runs at most once, and only when the row says   *)
(* approved: REST, a chat button, a sweep, an abort and the expiry worker  *)
(* may all reach the same request (manager.go Resolve, settle, runAction). *)
ActionOnceApproved ==
    \A r \in Requests : ran[r] <= 1 /\ (ran[r] = 1 => status[r] = "approved")

(* Why: a closure is in one place.  Until it is registered no row of the   *)
(* request can run it; while it is registered nobody holds it; Pop gives   *)
(* it to one goroutine; and a row is created before any of this.           *)
Unregistered == {"new", "checked", "enrolled", "creating"}
Running(t, r) == thr[t].pc = "run" /\ thr[t].cur = r

RowsFollowSubmit ==
    \A r \in Requests : sub[r] \in {"new", "checked", "enrolled"} => status[r] = "absent"

ClosureInOnePlace ==
    /\ \A r \in registry : sub[r] \notin Unregistered
    /\ \A r \in Requests : sub[r] \in Unregistered \/ r \in registry =>
           ran[r] = 0 /\ \A t \in Threads : ~Running(t, r)

RunnersHoldApproved ==
    /\ \A t \in Threads, r \in Requests : Running(t, r) => status[r] = "approved" /\ ran[r] = 0
    /\ \A t, u \in Threads, r \in Requests : Running(t, r) /\ Running(u, r) => t = u

ActionInv ==
    RowsFollowSubmit /\ ClosureInOnePlace /\ RunnersHoldApproved /\ ActionOnceApproved

(* A decision is never taken back: once a row has left "pending" no call,  *)
(* sweep, expiry or restart changes it (sqlite.go Resolve, ExpireBefore,   *)
(* ExpirePending).                                                         *)
DecisionIsFinal ==
    [][\A r \in Requests : status[r] \in Terminal => status'[r] = status[r]]_vars

(* What the submitter is told is what the row says, and a clean approval   *)
(* is never reported for an action that failed (notifyWaiterWithErr).      *)
WaiterToldTheRow ==
    \A r \in Requests : \A answer \in {chan[r], told[r]} :
        answer.status \in Decided /\ status[r] # "absent" =>
            /\ answer.status = status[r]
            /\ answer.status = "approved" /\ ~answer.err => r \notin failed

(* SubmitAndWait never sleeps through a decision: while its row is decided *)
(* and its channel is empty, some goroutine is still on its way to wake it *)
(* (SubmitAndWait's pre-registered waiter); and a waiter woken by an       *)
(* "approve and remember" button finds the rule already stored, so its     *)
(* next call to the tool matches it (ResolveByCallback creates the rule    *)
(* before it notifies).                                                    *)
NoLostWakeup ==
    \A r \in Requests :
        /\ faults = 0 /\ sub[r] = "blocked" /\ status[r] \in Decided /\ chan[r] = EmptyCh =>
              \E t \in Threads : AtWork(t, r)
        /\ /\ by[r].via = "callback"
           /\ by[r].rule # NoRule /\ faults + ends = 0
           /\ \E answer \in {chan[r], told[r]} : answer.status = "approved" /\ ~answer.err
           => ShouldAutoApprove(r)

(* When a call that made a rule has returned, none of the rows its sweep   *)
(* listed is still pending, also when another goroutine decided some of    *)
(* them meanwhile (autoResolvePending goes on after an error).             *)
SweepLeavesNothingQueued ==
    \A t \in Threads : faults = 0 /\ thr[t].pc = "idle" =>
        \A r \in thr[t].listed : status[r] # "pending"

(* The audit trail: one event per decided row once its goroutine is done,  *)
(* none before the action has run, and the event says what happened        *)
(* (settle audits after the action).                                       *)
AuditSays(r, event) ==
    CASE event = "approve" -> status[r] = "approved" /\ r \notin failed
      [] event = "error"   -> status[r] = "approved"
      [] event = "deny"    -> status[r] = "denied"
      [] event = "abort"   -> status[r] = "aborted"

AuditTrail ==
    \A r \in Requests :
        /\ Len(audits[r]) <= 1
        /\ \A i \in DOMAIN audits[r] : AuditSays(r, audits[r][i])
        /\ status[r] \in Decided /\ faults = 0
           /\ (\A t \in Threads : ~AtWork(t, r))
               => Len(audits[r]) = 1

(* What became of a decision, once its goroutine is done with it: the      *)
(* submitter and the audit trail were told the same, and the truth.        *)
DecisionIsReported == WaiterToldTheRow /\ AuditTrail

(* The manager keeps the contract of ApprovalContract: rows are decided    *)
(* once, actions follow approvals, answers follow rows.                    *)
(* Why: a goroutine wakes a waiter with the verdict the row has, also when *)
(* it comes back to its own row from the sweep of a rule, which its own    *)
(* row is never part of.                                                   *)
Applied == {"get", "settle", "run", "notify"}

VerdictOK(x, rows) ==
    /\ x.pc \in Applied /\ x.cur \in Requests => rows[x.cur] = x.verdict
    /\ x.pc = "select" => x.cur = x.own
    /\ x.via = "callback" /\ x.own \in Requests =>
          /\ x.own \notin x.queue
          /\ x.pc \in {"store", "list", "next"}
             \/ (x.pc \in Applied \union {"update"} /\ x.cur # x.own)
               => rows[x.own] = "approved"

VerdictsApplied == \A t \in Threads : VerdictOK(thr[t], status)

AnswerInv ==
    /\ \A r \in Requests : chan[r].status \in Terminal => chan[r].status = status[r]
    /\ \A r \in Requests : told[r].status # "none" => sub[r] = "done"
    /\ VerdictsApplied

Contract == INSTANCE ApprovalContract
              WITH row <- status, acted <- ran, answer <- [r \in Requests |-> told[r].status]

ContractKept == Contract!Spec

-----------------------------------------------------------------------------
(* What a comment of the code says, and the code does not do.              *)

(* "an ephemeral in-memory rule scoped to a conversation" (ScopeSession):  *)
(* the sweep of a session rule approves only rows of its conversation.     *)
SessionRuleStaysInConversation ==
    \A r \in Requests :
        by[r].via = "auto" /\ by[r].rule.scope = "session" => by[r].rule.conv = ConvOf[r]
=============================================================================
