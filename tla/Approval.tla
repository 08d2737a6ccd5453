------------------------------ MODULE Approval ------------------------------
(***************************************************************************)
(* The approval manager (internal/approval): a persistent table of         *)
(* requests, the in-memory registry of action closures, the waiters        *)
(* blocked on a decision, and the auto-approve rules.                      *)
(*                                                                         *)
(* Many goroutines decide requests: REST, WebSocket and MCP handlers, the  *)
(* chat-button callback, the sweep that follows a new auto-approve rule,   *)
(* the engine's own abort, and the expiry worker.  A step of this module   *)
(* is what one goroutine does between two points where another may run:    *)
(* one SQL statement, one critical section, or one call of the action.     *)
(***************************************************************************)
EXTENDS Integers, Sequences, FiniteSets

CONSTANTS
    Requests,      \* request ids, one per call of Submit or SubmitAndWait
    NoRequest,     \* "no id"
    Threads,       \* goroutines that call the manager to decide or add rules
    Convs,         \* conversations
    Tools,         \* agent/tool pairs: what a permanent rule is keyed by
    ConvOf,        \* the conversation of each request
    ToolOf,        \* the agent/tool pair of each request
    RuleScopes,    \* the scopes a caller may ask a rule for
    MaxCalls,      \* bound: calls that decide requests or add rules
    MaxFaults,     \* bound: store calls that fail, and restarts of the process
    MaxEnds        \* bound: waits given up, TTLs that pass, rules that go away

ASSUME RequestsAssumption == NoRequest \notin Requests
ASSUME RowsAssumption == /\ ConvOf \in [Requests -> Convs]
                         /\ ToolOf \in [Requests -> Tools]
ASSUME ScopesAssumption == RuleScopes \subseteq {"session", "permanent"}
ASSUME BoundsAssumption == MaxCalls \in Nat /\ MaxFaults \in Nat /\ MaxEnds \in Nat

VARIABLES
    status,        \* the rows of the approvals table
    by,            \* resolved_by: which kind of call decided the row, and its rule
    registry,      \* ids that have a registered closure
    chan,          \* the waiter channel of an id, capacity one
    sub,           \* where the goroutine that submits a request is
    told,          \* what that goroutine was told
    sessionRules,  \* in-memory rules: conversation and pair
    permRules,     \* rules in the database: pair
    configRules,   \* rules of the TOML file: pair
    thr,           \* the deciding goroutines
    ran,           \* history: how often the action of a request ran
    failed,        \* history: requests whose action returned an error
    audits,        \* history: audit events of a request, in order
    calls, faults, ends

rowVars  == <<status, by>>
subVars  == <<sub, told>>
ruleVars == <<sessionRules, permRules, configRules>>
runVars  == <<ran, failed, audits>>
vars == <<status, by, registry, chan, sub, told, sessionRules, permRules,
          configRules, thr, ran, failed, audits, calls, faults, ends>>

-----------------------------------------------------------------------------

Decided  == {"approved", "denied", "aborted"}
Terminal == Decided \union {"expired"}
Status   == {"absent", "pending"} \union Terminal

Scopes == {"none", "session", "permanent", "config"}
Rule   == [scope : Scopes, conv : Convs \union {"none"}, tool : Tools \union {"none"}]
NoRule == [scope |-> "none", conv |-> "none", tool |-> "none"]

(* Mutant: the rule is made although ExtractToolName found no name.        *)
RuleForNoName(scope, r) == [scope |-> scope, conv |-> ConvOf[r], tool |-> ""]

(* A rule asked for on behalf of request r, as ExtractToolName and the     *)
(* row's conversation give it.                                             *)
RuleFor(scope, r) ==
    IF scope = "none" THEN NoRule
    ELSE [scope |-> scope, conv |-> ConvOf[r], tool |-> ToolOf[r]]

Vias == {"none", "resolve", "callback", "abort", "rule", "auto", "expired"}

(* A waiter channel: not registered, empty, or holding one waiterResult.   *)
Mailbox  == [status : Terminal \union {"none", "empty"}, err : BOOLEAN]
NoChan   == [status |-> "none", err |-> FALSE]
EmptyCh  == [status |-> "empty", err |-> FALSE]

(* What a submitter is told: nothing yet, allowed by a rule, or a result.  *)
Outcome  == [status : Terminal \union {"none", "auto"}, err : BOOLEAN]

SubPcs == {"new", "checked", "enrolled", "creating", "submitted", "waiting",
           "blocked", "done", "dead"}
ThrPcs == {"idle", "select", "update", "get", "settle", "run", "store", "list", "next", "notify"}

IdleThread ==
    [pc |-> "idle", via |-> "none", own |-> NoRequest, cur |-> NoRequest,
     verdict |-> "none", rule |-> NoRule, todo |-> {}, queue |-> {},
     listed |-> {}, err |-> FALSE]

Init ==
    /\ status = [r \in Requests |-> "absent"]
    /\ by = [r \in Requests |-> [via |-> "none", rule |-> NoRule]]
    /\ registry = {}
    /\ chan = [r \in Requests |-> NoChan]
    /\ sub = [r \in Requests |-> "new"]
    /\ told = [r \in Requests |-> NoChan]
    /\ sessionRules = {}
    /\ permRules = {}
    /\ configRules = {}
    /\ thr = [t \in Threads |-> IdleThread]
    /\ ran = [r \in Requests |-> 0]
    /\ failed = {}
    /\ audits = [r \in Requests |-> <<>>]
    /\ calls = 0
    /\ faults = 0
    /\ ends = 0

Fail == faults < MaxFaults /\ faults' = faults + 1
End  == ends < MaxEnds /\ ends' = ends + 1

-----------------------------------------------------------------------------
(* The submitting goroutine: the engine asks the rules first, then either  *)
(* Submit and WaitForResolution, or SubmitAndWait.                         *)

(* The three scopes of ShouldAutoApprove; a match in any of them is enough. *)
ShouldAutoApprove(r) ==
    \/ ToolOf[r] \in configRules
    \/ <<ConvOf[r], ToolOf[r]>> \in sessionRules
    \/ ToolOf[r] \in permRules

Consult(r) ==
    /\ sub[r] = "new"
    /\ IF ShouldAutoApprove(r)
       THEN /\ sub' = [sub EXCEPT ![r] = "done"]
            /\ told' = [told EXCEPT ![r] = [status |-> "auto", err |-> FALSE]]
       ELSE /\ sub' = [sub EXCEPT ![r] = "checked"]
            /\ UNCHANGED told
    /\ UNCHANGED <<rowVars, registry, chan, ruleVars, thr, runVars, calls, faults, ends>>

(* SubmitAndWait registers its waiter before it persists the request.      *)
EnrollFirst(r) ==
    /\ sub[r] = "checked"
    /\ sub' = [sub EXCEPT ![r] = "enrolled"]
    /\ chan' = [chan EXCEPT ![r] = EmptyCh]
    /\ UNCHANGED <<rowVars, registry, told, ruleVars, thr, runVars, calls, faults, ends>>

(* submit: INSERT the row.  On error Submit returns and SubmitAndWait      *)
(* reports a denial with the error and drops its waiter.                   *)
CreateRow(r) ==
    /\ sub[r] \in {"checked", "enrolled"}
    /\ \/ /\ status' = [status EXCEPT ![r] = "pending"]
          /\ sub' = [sub EXCEPT ![r] = "creating"]
          /\ UNCHANGED <<chan, told, faults>>
       \/ /\ Fail
          /\ sub' = [sub EXCEPT ![r] = "done"]
          /\ chan' = [chan EXCEPT ![r] = NoChan]
          /\ told' = [told EXCEPT ![r] = [status |-> "denied", err |-> TRUE]]
          /\ UNCHANGED status
    /\ UNCHANGED <<by, registry, ruleVars, thr, runVars, calls, ends>>

(* submit: register the closure, after the row is already visible.         *)
RegisterClosure(r) ==
    /\ sub[r] = "creating"
    /\ registry' = registry \union {r}
    /\ sub' = [sub EXCEPT ![r] = IF chan[r] = NoChan THEN "submitted" ELSE "blocked"]
    /\ UNCHANGED <<rowVars, chan, told, ruleVars, thr, runVars, calls, faults, ends>>

(* WaitForResolution registers its waiter once Submit has returned.        *)
EnrollAfter(r) ==
    /\ sub[r] = "submitted"
    /\ sub' = [sub EXCEPT ![r] = "waiting"]
    /\ chan' = [chan EXCEPT ![r] = EmptyCh]
    /\ UNCHANGED <<rowVars, registry, told, ruleVars, thr, runVars, calls, faults, ends>>

(* The wait ends with a result from the channel ...                        *)
Receive(r) ==
    /\ sub[r] \in {"waiting", "blocked"}
    /\ chan[r].status \in Terminal
    /\ told' = [told EXCEPT ![r] = chan[r]]
    /\ sub' = [sub EXCEPT ![r] = "done"]
    /\ chan' = [chan EXCEPT ![r] = NoChan]
    /\ UNCHANGED <<rowVars, registry, ruleVars, thr, runVars, calls, faults, ends>>

(* ... or because the caller's context ended.  The row is left as it is.   *)
StopWaiting(r) ==
    /\ sub[r] \in {"waiting", "blocked"}
    /\ told' = [told EXCEPT ![r] = [status |-> "expired", err |-> FALSE]]
    /\ sub' = [sub EXCEPT ![r] = "done"]
    /\ chan' = [chan EXCEPT ![r] = NoChan]
    /\ UNCHANGED <<rowVars, registry, ruleVars, thr, runVars, calls, faults>>

GiveUp(r) == End /\ StopWaiting(r)

-----------------------------------------------------------------------------
(* The deciding goroutines.                                                *)

(* Whether thread t is deciding a row found by a sweep, not its own.       *)
Sweeping(t) == thr[t].cur # thr[t].own

Start(t, call) ==
    /\ thr[t].pc = "idle"
    /\ thr' = [thr EXCEPT ![t] = call]
    /\ calls < MaxCalls /\ calls' = calls + 1
    /\ UNCHANGED <<rowVars, registry, chan, subVars, ruleVars, runVars, faults, ends>>

(* Any caller may name any row of the table, decided or not.               *)
Known(r) == status[r] # "absent"

(* Manager.Resolve from REST, WebSocket or MCP; the handlers may add a     *)
(* rule after an approval.                                                 *)
ResolveCall(r, v, scope) ==
    [IdleThread EXCEPT !.pc = "update", !.via = "resolve", !.own = r, !.cur = r,
                       !.verdict = v, !.rule = RuleFor(scope, r)]

StartResolve(t) ==
    \E r \in Requests, v \in {"approved", "denied"}, s \in RuleScopes \union {"none"} :
        /\ Known(r)
        /\ v = "denied" => s = "none"
        /\ Start(t, ResolveCall(r, v, s))

(* ResolveByCallback: a button of a chat message.                          *)
StartCallback(t) ==
    \E r \in Requests, v \in {"approved", "denied"}, s \in RuleScopes \union {"none"} :
        /\ Known(r)
        /\ v = "denied" => s = "none"
        /\ Start(t, [ResolveCall(r, v, s) EXCEPT !.pc = "select", !.via = "callback"])

AbortCall(r) == [ResolveCall(r, "aborted", "none") EXCEPT !.via = "abort"]

StartAbort(t) == \E r \in Requests : Known(r) /\ Start(t, AbortCall(r))

(* AddSessionRule or AddPermanentRule called on its own.                   *)
StartAddRule(t) ==
    \E s \in RuleScopes, c \in Convs, k \in Tools :
        Start(t, [IdleThread EXCEPT !.pc = "store", !.via = "rule",
                                    !.rule = [scope |-> s, conv |-> c, tool |-> k]])

(* SetConfigRules: swap the set, then sweep for the pairs that are new.    *)
SetConfigRules(t) ==
    /\ thr[t].pc = "idle"
    /\ \E next \in SUBSET Tools :
        /\ next # configRules
        /\ calls < MaxCalls /\ calls' = calls + 1
        /\ configRules' = next
        /\ thr' = [thr EXCEPT ![t] =
                     [IdleThread EXCEPT !.pc = "list", !.via = "rule",
                                        !.rule = [NoRule EXCEPT !.scope = "config"],
                                        !.todo = next \ configRules]]
    /\ UNCHANGED <<rowVars, registry, chan, subVars, sessionRules, permRules,
                   runVars, faults, ends>>

(* The call of thread t returns.                                           *)
Return(t) == [IdleThread EXCEPT !.listed = thr[t].listed]

(* Mutant: the sweep gives up at the first row it cannot decide.           *)
AfterErrorStop(t) == Return(t)

(* Where thread t goes when the request it is deciding is out of its hands *)
(* with an error: the sweep goes on, a call of its own returns.            *)
AfterError(t) ==
    IF Sweeping(t) THEN [thr[t] EXCEPT !.pc = "next"] ELSE Return(t)

(* ResolveByCallbackPrefix: SELECT ... AND status = 'pending'.  When it    *)
(* finds nothing, GetByCallbackData finds the decided row: a stale button. *)
Select(t) ==
    /\ thr[t].pc = "select"
    /\ \/ /\ status[thr[t].cur] = "pending"
          /\ thr' = [thr EXCEPT ![t] = [thr[t] EXCEPT !.pc = "update"]]
          /\ UNCHANGED faults
       \/ /\ status[thr[t].cur] # "pending"
          /\ thr' = [thr EXCEPT ![t] = Return(t)]
          /\ UNCHANGED faults
       \/ /\ Fail
          /\ thr' = [thr EXCEPT ![t] = Return(t)]
    /\ UNCHANGED <<rowVars, registry, chan, subVars, ruleVars, runVars, calls, ends>>

(* Mutant: the UPDATE without AND status = 'pending'.                      *)
UpdatableAlways(r) == status[r] # "absent"

(* Store.Resolve: UPDATE ... WHERE id = ? AND status = 'pending'.          *)
Updatable(r) == status[r] = "pending"

Update(t) ==
    LET r == thr[t].cur
        via == IF Sweeping(t) THEN "auto" ELSE thr[t].via
    IN  /\ thr[t].pc = "update"
        /\ \/ /\ Updatable(r)
              /\ status' = [status EXCEPT ![r] = thr[t].verdict]
              /\ by' = [by EXCEPT ![r] = [via |-> via, rule |-> thr[t].rule]]
              /\ thr' = [thr EXCEPT ![t] = [thr[t] EXCEPT !.pc = IF via = "abort" THEN "settle" ELSE "get"]]
              /\ UNCHANGED faults
           \/ /\ ~Updatable(r)
              /\ thr' = [thr EXCEPT ![t] = AfterError(t)]
              /\ UNCHANGED <<rowVars, faults>>
           \/ /\ Fail
              /\ thr' = [thr EXCEPT ![t] = AfterError(t)]
              /\ UNCHANGED rowVars
        /\ UNCHANGED <<registry, chan, subVars, ruleVars, runVars, calls, ends>>

(* Mutant: the outcome of the action does not reach the audit event.       *)
AuditBlind(r, event) ==
    audits' = [audits EXCEPT ![r] = Append(@, IF event = "error" THEN "approve" ELSE event)]

Audit(r, event) == audits' = [audits EXCEPT ![r] = Append(@, event)]

(* Store.Get of the decided row.  When it fails, Resolve drops the closure *)
(* and still wakes the waiter, with an error; ResolveByCallback returns.   *)
Get(t) ==
    LET r == thr[t].cur
        callback == thr[t].via = "callback" /\ ~Sweeping(t)
    IN  /\ thr[t].pc = "get"
        /\ \/ /\ thr' = [thr EXCEPT ![t] = [thr[t] EXCEPT !.pc = "settle"]]
              /\ UNCHANGED <<registry, audits, faults>>
           \/ /\ Fail
              /\ ~callback
              /\ registry' = registry \ {r}
              /\ Audit(r, IF thr[t].verdict = "approved" THEN "error" ELSE "deny")
              /\ thr' = [thr EXCEPT ![t] = [thr[t] EXCEPT !.pc = "notify",
                                    !.err = (thr[t].verdict = "approved")]]
           \/ /\ Fail
              /\ callback
              /\ thr' = [thr EXCEPT ![t] = Return(t)]
              /\ UNCHANGED <<registry, audits>>
        /\ UNCHANGED <<rowVars, chan, subVars, ruleVars, ran, failed, calls, ends>>

(* Mutant: the action's error is lost on the way to the waiter.            *)
AfterActionClean(t, err) ==
    [thr[t] EXCEPT
        !.pc = IF thr[t].via = "callback" /\ ~Sweeping(t) /\ ~err /\ thr[t].rule # NoRule
               THEN "store" ELSE "notify"]

(* Mutant: a callback wakes its waiter first, and the rule is skipped.     *)
AfterActionNoRule(t, err) == [thr[t] EXCEPT !.pc = "notify", !.err = err]

(* Where an approved request goes once its action is done: a callback      *)
(* stores its rule before it wakes the waiter.                             *)
AfterAction(t, err) ==
    [thr[t] EXCEPT
        !.pc = IF thr[t].via = "callback" /\ ~Sweeping(t) /\ ~err /\ thr[t].rule # NoRule
               THEN "store" ELSE "notify",
        !.err = err]

(* settle, first half: Pop the closure of an approved row, Delete that of  *)
(* a denied or aborted one.  An approved row without a closure counts as   *)
(* done.                                                                   *)
Settle(t) ==
    LET r == thr[t].cur
    IN  /\ thr[t].pc = "settle"
        /\ registry' = registry \ {r}
        /\ \/ /\ status[r] = "approved"
              /\ r \in registry
              /\ thr' = [thr EXCEPT ![t] = [thr[t] EXCEPT !.pc = "run"]]
              /\ UNCHANGED audits
           \/ /\ status[r] = "approved"
              /\ r \notin registry
              /\ thr' = [thr EXCEPT ![t] = AfterAction(t, FALSE)]
              /\ Audit(r, "approve")
           \/ /\ status[r] # "approved"
              /\ thr' = [thr EXCEPT ![t] = [thr[t] EXCEPT !.pc = "notify"]]
              /\ Audit(r, IF thr[t].via = "abort" THEN "abort" ELSE "deny")
        /\ UNCHANGED <<rowVars, chan, subVars, ruleVars, ran, failed, calls, faults, ends>>

(* settle, second half: run the action, then audit how it went.            *)
RunAction(t) ==
    LET r == thr[t].cur
    IN  /\ thr[t].pc = "run"
        /\ ran' = [ran EXCEPT ![r] = @ + 1]
        /\ \E err \in BOOLEAN :
            /\ failed' = IF err THEN failed \union {r} ELSE failed
            /\ Audit(r, IF err THEN "error" ELSE "approve")
            /\ thr' = [thr EXCEPT ![t] = AfterAction(t, err)]
        /\ UNCHANGED <<rowVars, registry, chan, subVars, ruleVars, calls, faults, ends>>

(* Mutant: the callback returns from its sweep without the notification.   *)
EndOfSweepSilent(t) == Return(t)

(* After the sweep: a callback still has to wake its own waiter.           *)
EndOfSweep(t) ==
    IF thr[t].via = "callback"
    THEN [thr[t] EXCEPT !.pc = "notify", !.cur = thr[t].own,
                        !.verdict = "approved", !.err = FALSE]
    ELSE Return(t)

(* AddSessionRule / AddPermanentRule: store the rule, then sweep.          *)
StoreRule(t) ==
    LET rule == thr[t].rule
    IN  /\ thr[t].pc = "store"
        /\ \/ /\ rule.scope = "session"
              /\ sessionRules' = sessionRules \union {<<rule.conv, rule.tool>>}
              /\ thr' = [thr EXCEPT ![t] = [thr[t] EXCEPT !.pc = "list", !.todo = {rule.tool}]]
              /\ UNCHANGED <<permRules, faults>>
           \/ /\ rule.scope = "permanent"
              /\ permRules' = permRules \union {rule.tool}
              /\ thr' = [thr EXCEPT ![t] = [thr[t] EXCEPT !.pc = "list", !.todo = {rule.tool}]]
              /\ UNCHANGED <<sessionRules, faults>>
           \/ /\ rule.scope = "permanent"
              /\ Fail
              /\ thr' = [thr EXCEPT ![t] = EndOfSweep(t)]
              /\ UNCHANGED <<sessionRules, permRules>>
        /\ UNCHANGED <<rowVars, registry, chan, subVars, configRules, runVars, calls, ends>>

(* autoResolvePending: List the pending rows of one agent/tool pair.  The  *)
(* conversation of the rule plays no part in the match.                    *)
Matches(r, tool) == status[r] = "pending" /\ ToolOf[r] = tool

List(t) ==
    /\ thr[t].pc = "list"
    /\ \/ /\ thr[t].todo = {}
          /\ thr' = [thr EXCEPT ![t] = EndOfSweep(t)]
          /\ UNCHANGED faults
       \/ \E k \in thr[t].todo :
            LET found == {r \in Requests : Matches(r, k)}
            IN  \/ /\ thr' = [thr EXCEPT ![t] = [thr[t] EXCEPT !.pc = "next", !.todo = @ \ {k},
                                         !.queue = found, !.listed = @ \union found]]
                   /\ UNCHANGED faults
                \/ /\ Fail
                   /\ thr' = [thr EXCEPT ![t] = [thr[t] EXCEPT !.todo = @ \ {k}]]
    /\ UNCHANGED <<rowVars, registry, chan, subVars, ruleVars, runVars, calls, ends>>

(* The loop of autoResolvePending: one Resolve for each listed row.        *)
SweepNext(t) ==
    /\ thr[t].pc = "next"
    /\ \/ /\ thr[t].queue = {}
          /\ thr' = [thr EXCEPT ![t] = [thr[t] EXCEPT !.pc = "list"]]
       \/ \E r \in thr[t].queue :
            thr' = [thr EXCEPT ![t] = [thr[t] EXCEPT !.pc = "update", !.queue = @ \ {r},
                               !.cur = r, !.verdict = "approved", !.err = FALSE]]
    /\ UNCHANGED <<rowVars, registry, chan, subVars, ruleVars, runVars, calls, faults, ends>>

(* Mutant: an unbuffered channel, which only a receiver already blocked    *)
(* on it can take from.                                                    *)
SendUnbuffered(r, result) ==
    chan' = IF chan[r] = EmptyCh /\ sub[r] \in {"waiting", "blocked"}
            THEN [chan EXCEPT ![r] = result] ELSE chan

(* Mutant: the send waits for a receiver.                                  *)
SendBlocking(r, result) == chan[r] = EmptyCh /\ chan' = [chan EXCEPT ![r] = result]

(* notifyWaiterWithErr: a send that never blocks; without a waiter, or     *)
(* with a full channel, the result is dropped.                             *)
Send(r, result) ==
    chan' = IF chan[r] = EmptyCh THEN [chan EXCEPT ![r] = result] ELSE chan

Notify(t) ==
    /\ thr[t].pc = "notify"
    /\ Send(thr[t].cur, [status |-> thr[t].verdict, err |-> thr[t].err])
    /\ thr' = [thr EXCEPT ![t] =
                 IF Sweeping(t) THEN [thr[t] EXCEPT !.pc = "next"]
                 ELSE IF /\ thr[t].via = "resolve" 
                         /\ thr[t].rule # NoRule
                         /\ ~thr[t].err
                      THEN [thr[t] EXCEPT !.pc = "store"]
                      ELSE Return(t)]
    /\ UNCHANGED <<rowVars, registry, subVars, ruleVars, runVars, calls, faults, ends>>

-----------------------------------------------------------------------------
(* Time and the process.                                                   *)

(* The expiry worker: one UPDATE over the pending rows whose TTL is past.  *)
ExpireBefore ==
    \E due \in SUBSET {r \in Requests : status[r] = "pending"} :
        /\ due # {}
        /\ End
        /\ status' = [r \in Requests |-> IF r \in due THEN "expired" ELSE status[r]]
        /\ by' = [r \in Requests |-> IF r \in due
                                     THEN [via |-> "expired", rule |-> NoRule] ELSE by[r]]
        /\ UNCHANGED <<registry, chan, subVars, ruleVars, thr, runVars, calls, faults>>

(* A session rule ends with its TTL, or with ClearSessionRules.            *)
DropSessionRules ==
    /\ End
    /\ \/ \E rule \in sessionRules : sessionRules' = sessionRules \ {rule}
       \/ \E c \in Convs :
            /\ \E k \in Tools : <<c, k>> \in sessionRules
            /\ sessionRules' = {rule \in sessionRules : rule[1] # c}
    /\ UNCHANGED <<rowVars, registry, chan, subVars, permRules, configRules, thr,
                   runVars, calls, faults>>

RemoveAutoApproveRule ==
    /\ End
    /\ \E k \in permRules : permRules' = permRules \ {k}
    /\ UNCHANGED <<rowVars, registry, chan, subVars, sessionRules, configRules, thr,
                   runVars, calls, faults>>

(* The process dies: closures, waiters, goroutines and in-memory rules are *)
(* gone.  initStores expires the pending rows before anything else starts, *)
(* and only logs it when that fails.                                       *)
Restart ==
    /\ Fail
    /\ registry' = {}
    /\ chan' = [r \in Requests |-> NoChan]
    /\ sub' = [r \in Requests |-> IF sub[r] \in {"new", "done"} THEN sub[r] ELSE "dead"]
    /\ thr' = [t \in Threads |-> IdleThread]
    /\ sessionRules' = {}
    /\ LET open == {r \in Requests : status[r] = "pending"}
       IN  \/ /\ status' = [r \in Requests |-> IF r \in open THEN "expired" ELSE status[r]]
              /\ by' = [r \in Requests |-> IF r \in open
                                           THEN [via |-> "expired", rule |-> NoRule] ELSE by[r]]
           \/ UNCHANGED rowVars
    /\ UNCHANGED <<told, permRules, configRules, runVars, calls, ends>>

-----------------------------------------------------------------------------

Submitter(r) == \/ Consult(r) \/ EnrollFirst(r) \/ CreateRow(r) \/ RegisterClosure(r)
                \/ EnrollAfter(r) \/ Receive(r)

Work(t) == \/ Select(t) \/ Update(t) \/ Get(t) \/ Settle(t) \/ RunAction(t)
           \/ StoreRule(t) \/ List(t) \/ SweepNext(t) \/ Notify(t)

Begin(t) == \/ StartResolve(t) \/ StartCallback(t) \/ StartAbort(t)
            \/ StartAddRule(t) \/ SetConfigRules(t)

Next ==
    \/ \E r \in Requests : Submitter(r) \/ GiveUp(r)
    \/ \E t \in Threads : Begin(t) \/ Work(t)
    \/ ExpireBefore \/ DropSessionRules \/ RemoveAutoApproveRule \/ Restart

Spec == Init /\ [][Next]_vars
=============================================================================
