--------------------------- MODULE ApprovalProofs ---------------------------
(* What holds of the approval manager for any number of requests,          *)
(* goroutines, conversations and tools, and any number of faults; and, in  *)
(* the last part, of a supervised tool call that drives it.                *)
EXTENDS ApprovalChainProps, ApprovalProps, TLAPS

(* What a deciding goroutine carries: a verdict once it has one to apply,  *)
(* a request once it runs an action, a rule that names what it is for.     *)
WellFormed(x) ==
    /\ x \in Thread
    /\ x.pc \in {"select", "update", "get", "settle", "run", "notify"}
         => x.verdict \in Decided
    /\ x.pc = "run" => x.cur \in Requests
    /\ x.rule.scope \in {"session", "permanent"}
         => x.rule.conv \in Convs /\ x.rule.tool \in Tools

ThreadsOK == \A t \in Threads : WellFormed(thr[t])

TInv == TypeOK /\ ThreadsOK

-----------------------------------------------------------------------------
(* A thread at rest is well formed.                                        *)
LEMMA IdleOK == WellFormed(IdleThread)
BY DEF WellFormed, Thread, IdleThread, ThrPcs, Vias, NoRule, Rule, Scopes, Decided

(* A call that decides a request starts well formed.                       *)
LEMMA CallOK ==
    ASSUME NEW r \in Requests, NEW v \in Decided,
           NEW s \in RuleScopes \union {"none"}
    PROVE  WellFormed(ResolveCall(r, v, s)) /\ ResolveCall(r, v, s).verdict \in Decided
<1>1. RuleFor(s, r) \in Rule
      /\ (RuleFor(s, r).scope \in {"session", "permanent"} =>
            RuleFor(s, r).conv \in Convs /\ RuleFor(s, r).tool \in Tools)
  BY RowsAssumption, ScopesAssumption DEF RuleFor, NoRule, Rule, Scopes
<1> QED
  BY <1>1 DEF WellFormed, ResolveCall, Thread, IdleThread, ThrPcs, Vias, Decided

(* A thread that returns, or goes on with its sweep, stays well formed.    *)
LEMMA ReturnOK ==
    ASSUME ThreadsOK, NEW t \in Threads
    PROVE  WellFormed(Return(t)) /\ WellFormed(AfterError(t)) /\ WellFormed(EndOfSweep(t))
<1>1. WellFormed(thr[t])
  BY DEF ThreadsOK
<1>2. WellFormed(Return(t))
  BY ZenonT(60), <1>1 DEF WellFormed, Return, Thread, IdleThread, ThrPcs, Vias, NoRule, Rule, Scopes, Decided
<1>3. WellFormed([thr[t] EXCEPT !.pc = "next"])
  BY <1>1 DEF WellFormed, Thread, ThrPcs
<1>4. WellFormed([thr[t] EXCEPT !.pc = "notify", !.cur = thr[t].own,
                                !.verdict = "approved", !.err = FALSE])
  BY <1>1 DEF WellFormed, Thread, ThrPcs, Decided
<1> QED
  BY <1>2, <1>3, <1>4 DEF AfterError, EndOfSweep

(* So does one whose action has run.                                       *)
LEMMA AfterActionOK ==
    ASSUME ThreadsOK, NEW t \in Threads, NEW err \in BOOLEAN, thr[t].verdict \in Decided
    PROVE  WellFormed(AfterAction(t, err))
BY ZenonT(60) DEF ThreadsOK, WellFormed, AfterAction, Thread, ThrPcs, Decided

-----------------------------------------------------------------------------
(* Type correctness.                                                       *)
LEMMA TypeInit == Init => TInv
<1> SUFFICES ASSUME Init PROVE TInv
  OBVIOUS
<1>1. TypeOK
  BY IdleOK DEF TypeOK, Init, Status, Rule, NoRule, Scopes, Vias, SubPcs, Outcome, Mailbox, NoChan, WellFormed
<1>2. ThreadsOK
  BY IdleOK DEF Init, ThreadsOK
<1> QED
  BY <1>1, <1>2 DEF TInv

(* The results and channel contents the code builds have their types.      *)
LEMMA MailOK ==
    /\ NoChan \in Mailbox /\ EmptyCh \in Mailbox
    /\ \A s \in Terminal, e \in BOOLEAN : [status |-> s, err |-> e] \in Mailbox
    /\ \A s \in Terminal \union {"auto"}, e \in BOOLEAN : [status |-> s, err |-> e] \in Outcome
    /\ \A c \in Mailbox : c.status \in Terminal => c \in Outcome
    /\ {"denied", "expired"} \subseteq Terminal
BY DEF Mailbox, Outcome, NoChan, EmptyCh, Terminal, Decided

(* What a submitting goroutine does keeps the types.                       *)
LEMMA SubmitterTypes ==
    ASSUME TInv, NEW r \in Requests, Submitter(r) \/ GiveUp(r)
    PROVE  TInv'
<1> USE MailOK DEF TInv, TypeOK, SubPcs, rowVars, ruleVars, runVars
<1>1. CASE Consult(r)
  <2>1. told' \in [Requests -> Outcome]
    <3>1. [status |-> "auto", err |-> FALSE] \in Outcome
      OBVIOUS
    <3> QED
      BY <3>1, <1>1 DEF Consult
  <2>2. sub' \in [Requests -> SubPcs]
    BY <1>1 DEF Consult
  <2> QED
    BY <2>1, <2>2, <1>1 DEF Consult, ThreadsOK
<1>2. CASE EnrollFirst(r)
  BY <1>2 DEF EnrollFirst, ThreadsOK
<1>3. CASE CreateRow(r)
  <2>1. status' \in [Requests -> Status]
    BY <1>3 DEF CreateRow, Status
  <2>2. told' \in [Requests -> Outcome]
    BY <1>3 DEF CreateRow
  <2>3. chan' \in [Requests -> Mailbox]
    BY ZenonT(60), <1>3 DEF CreateRow
  <2>4. sub' \in [Requests -> SubPcs]
    BY <1>3 DEF CreateRow
  <2>5. faults' \in Nat
    BY <1>3, BoundsAssumption DEF CreateRow, Fail
  <2> QED
    BY <2>1, <2>2, <2>3, <2>4, <2>5, <1>3 DEF CreateRow, ThreadsOK
<1>4. CASE RegisterClosure(r)
  BY <1>4 DEF RegisterClosure, ThreadsOK
<1>5. CASE EnrollAfter(r)
  BY <1>5 DEF EnrollAfter, ThreadsOK
<1>6. CASE Receive(r)
  <2>1. told' \in [Requests -> Outcome]
    BY <1>6 DEF Receive
  <2>2. chan' \in [Requests -> Mailbox]
    BY <1>6 DEF Receive
  <2>3. sub' \in [Requests -> SubPcs]
    BY <1>6 DEF Receive
  <2> QED
    BY <2>1, <2>2, <2>3, <1>6 DEF Receive, ThreadsOK
<1>7. CASE GiveUp(r)
  <2>1. told' \in [Requests -> Outcome]
    BY <1>7 DEF GiveUp, StopWaiting
  <2>2. chan' \in [Requests -> Mailbox]
    BY <1>7 DEF GiveUp, StopWaiting
  <2>3. sub' \in [Requests -> SubPcs]
    BY <1>7 DEF GiveUp, StopWaiting
  <2>4. ends' \in Nat
    BY <1>7, BoundsAssumption DEF GiveUp, End
  <2> QED
    BY <2>1, <2>2, <2>3, <2>4, <1>7 DEF GiveUp, StopWaiting, ThreadsOK
<1> QED
  BY <1>1, <1>2, <1>3, <1>4, <1>5, <1>6, <1>7 DEF Submitter

-----------------------------------------------------------------------------
(* Thread t moves to a well formed record, the other threads stay.         *)
Moved(t, x) == WellFormed(x) /\ thr' = [thr EXCEPT ![t] = x]

LEMMA MovedOK ==
    ASSUME TInv, NEW t \in Threads, NEW x, Moved(t, x)
    PROVE  thr' \in [Threads -> Thread] /\ ThreadsOK'
BY DEF TInv, TypeOK, ThreadsOK, Moved, WellFormed

(* Beginning a call keeps the types.                                       *)
LEMMA BeginTypes ==
    ASSUME TInv, NEW t \in Threads, Begin(t)
    PROVE  TInv'
<1> USE DEF TInv, TypeOK, rowVars, subVars, ruleVars, runVars
<1>1. ASSUME NEW x, WellFormed(x), Start(t, x)
      PROVE  TInv'
  <2>1. thr' \in [Threads -> Thread] /\ ThreadsOK'
    BY <1>1, MovedOK DEF Moved, Start
  <2>2. calls' \in Nat
    BY <1>1, BoundsAssumption DEF Start
  <2> QED
    BY <2>1, <2>2, <1>1 DEF Start
<1>2. CASE StartResolve(t)
  BY <1>2, <1>1, CallOK DEF StartResolve, Decided
<1>3. CASE StartCallback(t)
  <2>1. PICK r \in Requests, v \in {"approved", "denied"}, s \in RuleScopes \union {"none"} :
          Start(t, [ResolveCall(r, v, s) EXCEPT !.pc = "select", !.via = "callback"])
    BY <1>3 DEF StartCallback
  <2>2. WellFormed(ResolveCall(r, v, s)) /\ ResolveCall(r, v, s).verdict \in Decided
    BY CallOK DEF Decided
  <2>3. WellFormed([ResolveCall(r, v, s) EXCEPT !.pc = "select", !.via = "callback"])
    BY <2>2 DEF WellFormed, Thread, ThrPcs, Vias
  <2> QED
    BY <2>1, <2>3, <1>1
<1>4. CASE StartAbort(t)
  <2>1. PICK r \in Requests : Start(t, AbortCall(r))
    BY <1>4 DEF StartAbort
  <2>2. /\ WellFormed(ResolveCall(r, "aborted", "none"))
        /\ ResolveCall(r, "aborted", "none").verdict \in Decided
    BY CallOK DEF Decided
  <2>3. WellFormed(AbortCall(r))
    BY ZenonT(60), <2>2 DEF AbortCall, WellFormed, Thread, ThrPcs, Vias
  <2> QED
    BY <2>1, <2>3, <1>1
<1>5. CASE StartAddRule(t)
  <2>1. PICK s \in RuleScopes, c \in Convs, k \in Tools :
          Start(t, [IdleThread EXCEPT !.pc = "store", !.via = "rule",
                                      !.rule = [scope |-> s, conv |-> c, tool |-> k]])
    BY <1>5 DEF StartAddRule
  <2>2. WellFormed([IdleThread EXCEPT !.pc = "store", !.via = "rule",
                                      !.rule = [scope |-> s, conv |-> c, tool |-> k]])
    BY ScopesAssumption DEF WellFormed, IdleThread, Thread, ThrPcs, Vias, Rule, Scopes, Decided
  <2> QED
    BY <2>1, <2>2, <1>1
<1>6. CASE SetConfigRules(t)
  <2>1. PICK next \in SUBSET Tools :
          /\ configRules' = next
          /\ thr' = [thr EXCEPT ![t] =
                       [IdleThread EXCEPT !.pc = "list", !.via = "rule",
                                          !.rule = [NoRule EXCEPT !.scope = "config"],
                                          !.todo = next \ configRules]]
    BY <1>6 DEF SetConfigRules
  <2>2. WellFormed([IdleThread EXCEPT !.pc = "list", !.via = "rule",
                                      !.rule = [NoRule EXCEPT !.scope = "config"],
                                      !.todo = next \ configRules])
    BY DEF WellFormed, IdleThread, Thread, ThrPcs, Vias, NoRule, Rule, Scopes, Decided
  <2>3. thr' \in [Threads -> Thread] /\ ThreadsOK'
    BY <2>1, <2>2, MovedOK DEF Moved
  <2>4. calls' \in Nat
    BY <1>6, BoundsAssumption DEF SetConfigRules
  <2> QED
    BY <2>1, <2>3, <2>4, <1>6 DEF SetConfigRules
<1> QED
  BY <1>2, <1>3, <1>4, <1>5, <1>6 DEF Begin

(* One more audit event of a request.                                      *)
LEMMA AuditOK ==
    ASSUME TypeOK, NEW r, NEW e \in Events, Audit(r, e)
    PROVE  audits' \in [Requests -> Seq(Events)]
<1>1. CASE r \in Requests
  <2>1. Append(audits[r], e) \in Seq(Events)
    BY <1>1 DEF TypeOK
  <2> QED
    BY <1>1, <2>1 DEF TypeOK, Audit
<1>2. CASE r \notin Requests
  BY <1>2 DEF TypeOK, Audit
<1> QED
  BY <1>1, <1>2

(* The steps inside a call keep the types.                                 *)
LEMMA WorkTypes ==
    ASSUME TInv, NEW t \in Threads, Work(t)
    PROVE  TInv'
<1> USE DEF TInv, rowVars, subVars, ruleVars, runVars
<1>1. WellFormed(thr[t]) /\ TypeOK /\ ThreadsOK
  BY DEF ThreadsOK
<1>2. /\ WellFormed(Return(t)) /\ WellFormed(AfterError(t)) /\ WellFormed(EndOfSweep(t))
      /\ \A err \in BOOLEAN : thr[t].verdict \in Decided => WellFormed(AfterAction(t, err))
  BY <1>1, ReturnOK, AfterActionOK
<1>3. ASSUME Fail PROVE faults' \in Nat
  BY <1>1, <1>3, BoundsAssumption DEF Fail, TypeOK
<1>4. ASSUME NEW x, Moved(t, x) PROVE thr' \in [Threads -> Thread] /\ ThreadsOK'
  BY <1>4, MovedOK
<1>5. CASE Select(t)
  <2>1. PICK x : Moved(t, x)
    <3>1. thr[t].pc = "select" => WellFormed([thr[t] EXCEPT !.pc = "update"])
      BY <1>1 DEF WellFormed, Thread, ThrPcs
    <3>2. thr' = [thr EXCEPT ![t] = [thr[t] EXCEPT !.pc = "update"]]
          \/ thr' = [thr EXCEPT ![t] = Return(t)]
      BY <1>1, <1>5 DEF Select, TypeOK
    <3> QED
      BY <1>2, <1>5, <3>1, <3>2 DEF Moved, Select
  <2>2. faults' \in Nat
    BY <1>1, <1>3, <1>5 DEF Select, TypeOK
  <2> QED
    BY <1>1, <1>4, <1>5, <2>1, <2>2 DEF Select, TypeOK
<1>6. CASE Update(t)
  <2> DEFINE via == IF Sweeping(t) THEN "auto" ELSE thr[t].via
             moved == [thr[t] EXCEPT !.pc = IF via = "abort" THEN "settle" ELSE "get"]
  <2>1. PICK x : Moved(t, x)
    <3>1. thr[t].pc = "update" => WellFormed(moved)
      BY <1>1 DEF WellFormed, Thread, ThrPcs
    <3>2. thr' = [thr EXCEPT ![t] = moved] \/ thr' = [thr EXCEPT ![t] = AfterError(t)]
      BY <1>1, <1>6 DEF Update, TypeOK
    <3> QED
      BY <1>2, <1>6, <3>1, <3>2 DEF Moved, Update
  <2>2. thr[t].verdict \in Status /\ via \in Vias /\ thr[t].rule \in Rule
    BY <1>1, <1>6 DEF Update, WellFormed, Thread, Status, Terminal, Vias
  <2>3. status' \in [Requests -> Status]
    BY <1>1, <1>6, <2>2 DEF Update, TypeOK
  <2>4. by' \in [Requests -> [via : Vias, rule : Rule]]
    <3>1. [via |-> via, rule |-> thr[t].rule] \in [via : Vias, rule : Rule]
      BY <2>2
    <3>2. by' = by \/ by' = [by EXCEPT ![thr[t].cur] = [via |-> via, rule |-> thr[t].rule]]
      BY <1>6 DEF Update
    <3> QED
      BY <1>1, <3>1, <3>2 DEF TypeOK
  <2>5. faults' \in Nat
    BY <1>1, <1>3, <1>6 DEF Update, TypeOK
  <2> QED
    BY <1>1, <1>4, <1>6, <2>1, <2>3, <2>4, <2>5 DEF Update, TypeOK
<1>7. CASE Get(t)
  <2> DEFINE woken == [thr EXCEPT ![t] = [thr[t] EXCEPT !.pc = "notify", !.err = (thr[t].verdict = "approved")]]
             settled == [thr EXCEPT ![t] = [thr[t] EXCEPT !.pc = "settle"]]
  <2>1. thr[t].verdict \in Decided
    BY <1>1, <1>7 DEF Get, WellFormed
  <2>2. WellFormed([thr[t] EXCEPT !.pc = "settle"])
    BY <1>1, <2>1 DEF WellFormed, Thread, ThrPcs
  <2>3. WellFormed([thr[t] EXCEPT !.pc = "notify", !.err = (thr[t].verdict = "approved")])
    BY <1>1, <2>1 DEF WellFormed, Thread, ThrPcs
  <2>4. thr' \in [Threads -> Thread] /\ ThreadsOK'
    <3>1. CASE thr' = settled
      BY <1>1, <1>4, <2>2, <3>1 DEF Moved, TypeOK
    <3>2. CASE thr' = woken
      BY <1>1, <1>4, <2>3, <3>2 DEF Moved, TypeOK
    <3>3. CASE thr' = [thr EXCEPT ![t] = Return(t)]
      BY <1>2, <1>4, <3>3 DEF Moved
    <3> QED
      BY <1>7, <3>1, <3>2, <3>3 DEF Get
  <2>5. faults' \in Nat
    BY <1>1, <1>3, <1>7 DEF Get, TypeOK
  <2>6. audits' \in [Requests -> Seq(Events)]
    <3>1. CASE UNCHANGED audits
      BY <1>1, <3>1 DEF TypeOK
    <3>2. CASE Audit(thr[t].cur, IF thr[t].verdict = "approved" THEN "error" ELSE "deny")
      BY <1>1, <3>2, AuditOK DEF Events
    <3> QED
      BY <1>7, <3>1, <3>2 DEF Get
  <2> QED
    BY <1>1, <1>7, <2>4, <2>5, <2>6 DEF Get, TypeOK
<1>8. CASE Settle(t)
  <2>1. thr[t].verdict \in Decided
    BY <1>1, <1>8 DEF Settle, WellFormed
  <2>2. thr[t].cur \in registry => WellFormed([thr[t] EXCEPT !.pc = "run"])
    BY <1>1, <2>1 DEF WellFormed, Thread, ThrPcs, TypeOK
  <2>3. WellFormed([thr[t] EXCEPT !.pc = "notify"])
    BY <1>1, <2>1 DEF WellFormed, Thread, ThrPcs
  <2>4. thr' \in [Threads -> Thread] /\ ThreadsOK'
    <3>1. CASE thr[t].cur \in registry /\ thr' = [thr EXCEPT ![t] = [thr[t] EXCEPT !.pc = "run"]]
      BY <1>1, <1>4, <2>2, <3>1 DEF Moved, TypeOK
    <3>2. CASE thr' = [thr EXCEPT ![t] = [thr[t] EXCEPT !.pc = "notify"]]
      BY <1>1, <1>4, <2>3, <3>2 DEF Moved, TypeOK
    <3>3. CASE thr' = [thr EXCEPT ![t] = AfterAction(t, FALSE)]
      BY <1>2, <1>4, <2>1, <3>3 DEF Moved
    <3> QED
      BY <1>8, <3>1, <3>2, <3>3 DEF Settle
  <2>5. audits' \in [Requests -> Seq(Events)]
    <3>1. CASE UNCHANGED audits
      BY <1>1, <3>1 DEF TypeOK
    <3>2. CASE Audit(thr[t].cur, "approve")
      BY <1>1, <3>2, AuditOK DEF Events
    <3>3. CASE Audit(thr[t].cur, IF thr[t].via = "abort" THEN "abort" ELSE "deny")
      BY <1>1, <3>3, AuditOK DEF Events
    <3> QED
      BY <1>8, <3>1, <3>2, <3>3 DEF Settle
  <2> QED
    BY <1>1, <1>8, <2>4, <2>5 DEF Settle, TypeOK
<1>9. CASE RunAction(t)
  <2>1. thr[t].verdict \in Decided /\ thr[t].cur \in Requests
    BY <1>1, <1>9 DEF RunAction, WellFormed
  <2>2. PICK err \in BOOLEAN :
          /\ failed' = IF err THEN failed \union {thr[t].cur} ELSE failed
          /\ Audit(thr[t].cur, IF err THEN "error" ELSE "approve")
          /\ thr' = [thr EXCEPT ![t] = AfterAction(t, err)]
    BY <1>9 DEF RunAction
  <2>3. thr' \in [Threads -> Thread] /\ ThreadsOK'
    BY <1>2, <1>4, <2>1, <2>2 DEF Moved
  <2>4. failed' \subseteq Requests
    <3>1. failed' = failed \/ failed' = failed \union {thr[t].cur}
      BY <2>2
    <3> QED
      BY <1>1, <2>1, <3>1 DEF TypeOK
  <2>5. audits' \in [Requests -> Seq(Events)]
    BY <1>1, <2>2, AuditOK DEF Events
  <2>6. ran' \in [Requests -> Nat]
    <3>1. ran' = [ran EXCEPT ![thr[t].cur] = @ + 1]
      BY <1>9 DEF RunAction
    <3> QED
      BY <1>1, <2>1, <3>1 DEF TypeOK
  <2> QED
    BY <1>1, <1>9, <2>3, <2>4, <2>5, <2>6 DEF RunAction, TypeOK
<1>10. CASE StoreRule(t)
  <2> DEFINE rule == thr[t].rule
             listing == [thr[t] EXCEPT !.pc = "list", !.todo = {rule.tool}]
  <2>1. rule.scope \in {"session", "permanent"} =>
          rule.conv \in Convs /\ rule.tool \in Tools /\ WellFormed(listing)
    <3>1. rule.scope \in {"session", "permanent"} => rule.conv \in Convs /\ rule.tool \in Tools
      BY <1>1 DEF WellFormed
    <3>2. rule.tool \in Tools => WellFormed(listing)
      BY <1>1 DEF WellFormed, Thread, ThrPcs
    <3> QED
      BY <3>1, <3>2
  <2>2. thr' \in [Threads -> Thread] /\ ThreadsOK'
    <3>1. CASE rule.scope \in {"session", "permanent"} /\ thr' = [thr EXCEPT ![t] = listing]
      BY <1>4, <2>1, <3>1 DEF Moved
    <3>2. CASE thr' = [thr EXCEPT ![t] = EndOfSweep(t)]
      BY <1>2, <1>4, <3>2 DEF Moved
    <3> QED
      BY <1>10, <3>1, <3>2 DEF StoreRule
  <2>3. sessionRules' \subseteq Convs \X Tools /\ permRules' \subseteq Tools
    BY <1>1, <1>10, <2>1 DEF StoreRule, TypeOK
  <2>4. faults' \in Nat
    BY <1>1, <1>3, <1>10 DEF StoreRule, TypeOK
  <2> QED
    BY <1>1, <1>10, <2>2, <2>3, <2>4 DEF StoreRule, TypeOK
<1>11. CASE List(t)
  <2> DEFINE step(k) == [thr[t] EXCEPT !.todo = @ \ {k}]
             scan(k, found) == [thr[t] EXCEPT !.pc = "next", !.todo = @ \ {k},
                                              !.queue = found, !.listed = @ \union found]
  <2>1. \A k \in Tools, found \in SUBSET Requests : WellFormed(scan(k, found))
    <3> SUFFICES ASSUME NEW k \in Tools, NEW found \in SUBSET Requests
                 PROVE  WellFormed(scan(k, found))
      OBVIOUS
    <3>1. thr[t].todo \ {k} \in SUBSET Tools /\ thr[t].listed \union found \in SUBSET Requests
      BY <1>1 DEF WellFormed, Thread
    <3>2. scan(k, found) \in Thread
      BY <1>1, <3>1 DEF WellFormed, Thread, ThrPcs
    <3>3. /\ scan(k, found).pc = "next" /\ scan(k, found).verdict = thr[t].verdict
          /\ scan(k, found).rule = thr[t].rule /\ scan(k, found).cur = thr[t].cur
      BY <1>1 DEF WellFormed, Thread
    <3> QED
      BY <1>1, <3>2, <3>3 DEF WellFormed
  <2>2. \A k \in Tools : WellFormed(step(k))
    BY <1>1 DEF WellFormed, Thread, ThrPcs
  <2>3. thr' \in [Threads -> Thread] /\ ThreadsOK'
    <3>1. CASE thr' = [thr EXCEPT ![t] = EndOfSweep(t)]
      BY <1>2, <1>4, <3>1 DEF Moved
    <3>2. ASSUME NEW k \in thr[t].todo, NEW found \in SUBSET Requests,
                 thr' = [thr EXCEPT ![t] = scan(k, found)]
          PROVE  thr' \in [Threads -> Thread] /\ ThreadsOK'
      <4>1. k \in Tools
        BY <1>1 DEF WellFormed, Thread
      <4> QED
        BY <1>4, <2>1, <3>2, <4>1 DEF Moved
    <3>3. ASSUME NEW k \in thr[t].todo, thr' = [thr EXCEPT ![t] = step(k)]
          PROVE  thr' \in [Threads -> Thread] /\ ThreadsOK'
      <4>1. k \in Tools
        BY <1>1 DEF WellFormed, Thread
      <4> QED
        BY <1>4, <2>2, <3>3, <4>1 DEF Moved
    <3>4. thr' = [thr EXCEPT ![t] = EndOfSweep(t)]
          \/ \E k \in thr[t].todo :
               \/ thr' = [thr EXCEPT ![t] = scan(k, {r \in Requests : Matches(r, k)})]
               \/ thr' = [thr EXCEPT ![t] = step(k)]
      BY <1>11 DEF List
    <3>5. \A k : {r \in Requests : Matches(r, k)} \in SUBSET Requests
      OBVIOUS
    <3> HIDE DEF step, scan
    <3> QED
      BY <3>1, <3>2, <3>3, <3>4, <3>5
  <2>4. faults' \in Nat
    BY <1>1, <1>3, <1>11 DEF List, TypeOK
  <2> QED
    BY <1>1, <1>11, <2>3, <2>4 DEF List, TypeOK
<1>12. CASE SweepNext(t)
  <2> DEFINE rest == [thr[t] EXCEPT !.pc = "list"]
             take(r) == [thr[t] EXCEPT !.pc = "update", !.queue = @ \ {r}, !.cur = r,
                                       !.verdict = "approved", !.err = FALSE]
  <2>1. WellFormed(rest) /\ \A r \in thr[t].queue : WellFormed(take(r))
    BY ZenonT(60), <1>1 DEF WellFormed, Thread, ThrPcs, Decided
  <2>2. thr' = [thr EXCEPT ![t] = rest]
        \/ \E r \in thr[t].queue : thr' = [thr EXCEPT ![t] = take(r)]
    BY <1>1, <1>12 DEF SweepNext, TypeOK
  <2>3. thr' \in [Threads -> Thread] /\ ThreadsOK'
    BY <1>4, <2>1, <2>2 DEF Moved
  <2> QED
    BY <1>1, <1>12, <2>3 DEF SweepNext, TypeOK
<1>13. CASE Notify(t)
  <2>1. thr[t].verdict \in Terminal /\ thr[t].err \in BOOLEAN
    BY <1>1, <1>13 DEF Notify, WellFormed, Thread, Terminal
  <2>2. chan' \in [Requests -> Mailbox]
    BY <1>1, <1>13, <2>1, MailOK DEF Notify, Send, TypeOK
  <2>3. WellFormed([thr[t] EXCEPT !.pc = "next"]) /\ WellFormed([thr[t] EXCEPT !.pc = "store"])
    BY <1>1 DEF WellFormed, Thread, ThrPcs
  <2>4. thr' \in [Threads -> Thread] /\ ThreadsOK'
    BY <1>2, <1>4, <1>13, <2>3 DEF Notify, Moved
  <2> QED
    BY <1>1, <1>13, <2>2, <2>4 DEF Notify, TypeOK
<1> QED
  BY <1>5, <1>6, <1>7, <1>8, <1>9, <1>10, <1>11, <1>12, <1>13 DEF Work

(* Deadlines and restarts keep the types.                                  *)
LEMMA WorldTypes ==
    ASSUME TInv, ExpireBefore \/ DropSessionRules \/ RemoveAutoApproveRule \/ Restart
    PROVE  TInv'
<1> USE DEF TInv, rowVars, subVars, ruleVars, runVars
<1>1. TypeOK /\ ThreadsOK
  OBVIOUS
<1>2. [via |-> "expired", rule |-> NoRule] \in [via : Vias, rule : Rule]
  BY DEF Vias, Rule, NoRule, Scopes
<1>3. ASSUME End PROVE ends' \in Nat
  BY <1>1, <1>3, BoundsAssumption DEF End, TypeOK
<1>4. CASE ExpireBefore
  <2>1. PICK due \in SUBSET Requests :
          /\ status' = [r \in Requests |-> IF r \in due THEN "expired" ELSE status[r]]
          /\ by' = [r \in Requests |-> IF r \in due
                                       THEN [via |-> "expired", rule |-> NoRule] ELSE by[r]]
    BY <1>4 DEF ExpireBefore
  <2>2. status' \in [Requests -> Status]
    BY <1>1, <2>1 DEF TypeOK, Status, Terminal
  <2>3. by' \in [Requests -> [via : Vias, rule : Rule]]
    BY <1>1, <1>2, <2>1 DEF TypeOK
  <2> QED
    BY <1>1, <1>3, <1>4, <2>2, <2>3 DEF ExpireBefore, TypeOK, ThreadsOK
<1>5. CASE DropSessionRules
  <2>1. sessionRules' \subseteq sessionRules
    BY <1>5 DEF DropSessionRules
  <2> QED
    BY <1>1, <1>3, <1>5, <2>1 DEF DropSessionRules, TypeOK, ThreadsOK
<1>6. CASE RemoveAutoApproveRule
  <2>1. permRules' \subseteq permRules
    BY <1>6 DEF RemoveAutoApproveRule
  <2> QED
    BY <1>1, <1>3, <1>6, <2>1 DEF RemoveAutoApproveRule, TypeOK, ThreadsOK
<1>7. CASE Restart
  <2> DEFINE open == {r \in Requests : status[r] = "pending"}
  <2>1. status' \in [Requests -> Status]
    BY <1>1, <1>7 DEF Restart, TypeOK, Status, Terminal
  <2>2. by' \in [Requests -> [via : Vias, rule : Rule]]
    <3>1. CASE by' = by
      BY <1>1, <3>1 DEF TypeOK
    <3>2. CASE by' = [r \in Requests |-> IF r \in open
                        THEN [via |-> "expired", rule |-> NoRule] ELSE by[r]]
      BY <1>1, <1>2, <3>2 DEF TypeOK
    <3> QED
      BY <1>7, <3>1, <3>2 DEF Restart
  <2>3. chan' \in [Requests -> Mailbox]
    BY <1>7, MailOK DEF Restart
  <2>4. sub' \in [Requests -> SubPcs]
    BY <1>1, <1>7 DEF Restart, TypeOK, SubPcs
  <2>5. thr' \in [Threads -> Thread] /\ ThreadsOK'
    BY <1>7, IdleOK DEF Restart, ThreadsOK, WellFormed
  <2>6. faults' \in Nat
    BY <1>1, <1>7, BoundsAssumption DEF Restart, Fail, TypeOK
  <2> QED
    BY <1>1, <1>7, <2>1, <2>2, <2>3, <2>4, <2>5, <2>6 DEF Restart, TypeOK
<1> QED
  BY <1>4, <1>5, <1>6, <1>7

LEMMA TypeStep == TInv /\ [Next]_vars => TInv'
<1> SUFFICES ASSUME TInv, [Next]_vars PROVE TInv'
  OBVIOUS
<1>1. CASE UNCHANGED vars
  BY <1>1 DEF vars, TInv, TypeOK, ThreadsOK
<1>2. CASE Next
  BY <1>2, SubmitterTypes, BeginTypes, WorkTypes, WorldTypes DEF Next
<1> QED
  BY <1>1, <1>2

(* Rows, channels, rules and goroutines stay within their types, however   *)
(* many calls, faults and deadlines there are.                             *)
THEOREM TypeCorrect == Spec => []TypeOK
<1>1. Spec => []TInv
  BY TypeInit, TypeStep, PTL DEF Spec
<1>2. TInv => TypeOK
  BY DEF TInv
<1> QED
  BY <1>1, <1>2, PTL
-----------------------------------------------------------------------------
(* Decisions are final.                                                    *)

(* A row that was decided is as it was after any step of the manager: only *)
(* a row that is absent is created, only one that is pending is decided.   *)
LEMMA DecidedStays ==
    ASSUME TInv, RowsFollowSubmit, Next, NEW r \in Requests, status[r] \in Terminal
    PROVE  status'[r] = status[r]
<1> USE DEF TInv, TypeOK, rowVars, subVars, ruleVars, runVars
<1>1. status[r] # "absent" /\ status[r] # "pending"
  BY DEF Terminal, Decided
<1>2. ASSUME NEW q \in Requests, Submitter(q) PROVE status'[r] = status[r]
  <2>1. CASE CreateRow(q)
    BY <1>1, <2>1 DEF CreateRow, RowsFollowSubmit
  <2> QED
    BY <1>2, <2>1
    DEF Submitter, Consult, EnrollFirst, RegisterClosure, EnrollAfter, Receive
<1>3. ASSUME NEW q \in Requests, GiveUp(q) PROVE status'[r] = status[r]
  BY <1>3 DEF GiveUp, StopWaiting
<1>4. ASSUME NEW t \in Threads, Begin(t) PROVE status'[r] = status[r]
  BY <1>4 DEF Begin, StartResolve, StartCallback, StartAbort, StartAddRule, SetConfigRules, Start
<1>5. ASSUME NEW t \in Threads, Work(t) PROVE status'[r] = status[r]
  <2>1. CASE Update(t)
    BY <1>1, <2>1 DEF Update, Updatable
  <2> QED
    BY <1>5, <2>1
    DEF Work, Select, Get, Settle, RunAction, StoreRule, List, SweepNext, Notify
<1>6. CASE ExpireBefore
  BY <1>1, <1>6 DEF ExpireBefore
<1>7. CASE Restart
  BY <1>1, <1>7 DEF Restart
<1> QED
  BY <1>2, <1>3, <1>4, <1>5, <1>6, <1>7 DEF Next, DropSessionRules, RemoveAutoApproveRule

-----------------------------------------------------------------------------
(* Actions run at most once, and only after an approval.                   *)

(* Steps that register no closure, hand none out and run none.             *)
LEMMA Quiet ==
    ASSUME TInv, ActionInv, registry' \subseteq registry, ran' = ran, RowsFollowSubmit',
           \A t \in Threads, r \in Requests : Running(t, r)' => Running(t, r),
           \A r \in Requests : sub'[r] \in Unregistered => sub[r] \in Unregistered,
           \A r \in Requests : status[r] = "approved" => status'[r] = "approved"
    PROVE  ActionInv'
BY DEF ActionInv, ClosureInOnePlace, RunnersHoldApproved, ActionOnceApproved, TInv, TypeOK

(* No call ends, fails or goes on to its next row with an action in hand.  *)
LEMMA NotRunning ==
    ASSUME NEW t \in Threads, NEW err \in BOOLEAN
    PROVE  /\ IdleThread.pc # "run" /\ Return(t).pc # "run"
           /\ thr[t] \in Thread => /\ AfterError(t).pc # "run" /\ EndOfSweep(t).pc # "run"
                                   /\ AfterAction(t, err).pc # "run"
BY DEF IdleThread, Return, AfterError, EndOfSweep, AfterAction, Thread

(* A thread that moves to anything but "run" starts no action.             *)
LEMMA NoNewRunner ==
    ASSUME TInv, NEW t \in Threads, NEW x, x.pc # "run", thr' = [thr EXCEPT ![t] = x]
    PROVE  \A u \in Threads, r \in Requests : Running(u, r)' => Running(u, r)
BY DEF TInv, TypeOK, Running

LEMMA SubmitterAction ==
    ASSUME TInv, ActionInv, NEW r \in Requests, Submitter(r) \/ GiveUp(r),
           \A q \in Requests : status[q] = "approved" => status'[q] = "approved"
    PROVE  ActionInv'
<1> USE DEF TInv, TypeOK, Running, Unregistered, rowVars, ruleVars, runVars
<1>1. RowsFollowSubmit
  BY DEF ActionInv
<1>2. CASE Consult(r) \/ EnrollFirst(r) \/ EnrollAfter(r) \/ Receive(r) \/ GiveUp(r)
  <2>1. RowsFollowSubmit'
    BY <1>1, <1>2 DEF RowsFollowSubmit, Consult, EnrollFirst, EnrollAfter, Receive,
                      GiveUp, StopWaiting
  <2>2. \A q \in Requests : sub'[q] \in Unregistered => sub[q] \in Unregistered
    BY <1>2 DEF Consult, EnrollFirst, EnrollAfter, Receive, GiveUp, StopWaiting
  <2>3. registry' = registry /\ ran' = ran /\ thr' = thr
    BY <1>2 DEF Consult, EnrollFirst, EnrollAfter, Receive, GiveUp, StopWaiting
  <2> QED
    BY <2>1, <2>2, <2>3, Quiet
<1>3. CASE CreateRow(r)
  <2>1. RowsFollowSubmit'
    BY <1>1, <1>3 DEF RowsFollowSubmit, CreateRow
  <2>2. \A q \in Requests : sub'[q] \in Unregistered => sub[q] \in Unregistered
    BY <1>3 DEF CreateRow
  <2>3. registry' = registry /\ ran' = ran /\ thr' = thr
    BY <1>3 DEF CreateRow
  <2> QED
    BY <2>1, <2>2, <2>3, Quiet
<1>4. CASE RegisterClosure(r)
  <2>1. /\ registry' = registry \union {r} /\ status' = status /\ ran' = ran /\ thr' = thr
        /\ sub[r] = "creating" /\ sub'[r] \notin Unregistered
        /\ \A q \in Requests \ {r} : sub'[q] = sub[q]
    BY <1>4 DEF RegisterClosure
  <2>2. RowsFollowSubmit'
    BY <1>1, <2>1 DEF RowsFollowSubmit
  <2>3. ClosureInOnePlace'
    BY <2>1 DEF ActionInv, ClosureInOnePlace
  <2>4. RunnersHoldApproved' /\ ActionOnceApproved'
    BY <2>1 DEF ActionInv, RunnersHoldApproved, ActionOnceApproved
  <2> QED
    BY <2>2, <2>3, <2>4 DEF ActionInv
<1> QED
  BY <1>2, <1>3, <1>4 DEF Submitter

LEMMA BeginAction ==
    ASSUME TInv, ActionInv, NEW t \in Threads, Begin(t)
    PROVE  ActionInv'
<1> USE DEF TInv, TypeOK, rowVars, subVars, ruleVars, runVars
<1>1. /\ registry' = registry /\ ran' = ran /\ status' = status /\ sub' = sub
      /\ \E x : x.pc # "run" /\ thr' = [thr EXCEPT ![t] = x]
  <2>1. ASSUME NEW x, x.pc # "run", Start(t, x)
        PROVE  /\ registry' = registry /\ ran' = ran /\ status' = status /\ sub' = sub
               /\ \E y : y.pc # "run" /\ thr' = [thr EXCEPT ![t] = y]
    BY <2>1 DEF Start
  <2>2. CASE StartResolve(t)
    BY <2>1, <2>2 DEF StartResolve, ResolveCall, IdleThread
  <2>3. CASE StartCallback(t)
    BY <2>1, <2>3 DEF StartCallback, ResolveCall, IdleThread
  <2>4. CASE StartAbort(t)
    BY <2>1, <2>4 DEF StartAbort, AbortCall, ResolveCall, IdleThread
  <2>5. CASE StartAddRule(t)
    BY <2>1, <2>5 DEF StartAddRule, IdleThread
  <2>6. CASE SetConfigRules(t)
    BY <2>6 DEF SetConfigRules, IdleThread
  <2> QED
    BY <2>2, <2>3, <2>4, <2>5, <2>6 DEF Begin
<1>2. RowsFollowSubmit'
  BY <1>1 DEF ActionInv, RowsFollowSubmit
<1>3. \A u \in Threads, r \in Requests : Running(u, r)' => Running(u, r)
  BY <1>1, NoNewRunner
<1> QED
  BY <1>1, <1>2, <1>3, Quiet

LEMMA WorkAction ==
    ASSUME TInv, ActionInv, NEW t \in Threads, Work(t),
           \A r \in Requests : status[r] = "approved" => status'[r] = "approved"
    PROVE  ActionInv'
<1> USE DEF TInv, TypeOK, rowVars, subVars, ruleVars, runVars
<1>1. thr[t] \in Thread /\ sub' = sub
  BY DEF Work, Select, Update, Get, Settle, RunAction, StoreRule, List, SweepNext, Notify
<1>2. ASSUME NEW x, x.pc # "run", thr' = [thr EXCEPT ![t] = x],
             registry' \subseteq registry, ran' = ran, RowsFollowSubmit'
      PROVE  ActionInv'
  BY <1>1, <1>2, NoNewRunner, Quiet
<1>3. status' = status => RowsFollowSubmit'
  BY <1>1 DEF ActionInv, RowsFollowSubmit
<1>4. CASE Select(t) \/ StoreRule(t) \/ List(t) \/ SweepNext(t) \/ Notify(t) \/ Get(t)
  <2>1. /\ registry' \subseteq registry /\ ran' = ran /\ status' = status
        /\ \E x : x.pc # "run" /\ thr' = [thr EXCEPT ![t] = x]
    <3>1. CASE Select(t)
      BY <1>1, <3>1, NotRunning DEF Select, Thread
    <3>2. CASE StoreRule(t)
      BY <1>1, <3>2, NotRunning DEF StoreRule, Thread
    <3>3. CASE List(t)
      BY <1>1, <3>3, NotRunning DEF List, Thread
    <3>4. CASE SweepNext(t)
      BY <1>1, <3>4, NotRunning DEF SweepNext, Thread
    <3>5. CASE Notify(t)
      BY <1>1, <3>5, NotRunning DEF Notify, Thread
    <3>6. CASE Get(t)
      BY <1>1, <3>6, NotRunning DEF Get, Thread
    <3> QED
      BY <1>4, <3>1, <3>2, <3>3, <3>4, <3>5, <3>6
  <2> QED
    BY <1>2, <1>3, <2>1
<1>5. CASE Update(t)
  <2>1. registry' = registry /\ ran' = ran
    BY <1>5 DEF Update
  <2>2. \E x : x.pc # "run" /\ thr' = [thr EXCEPT ![t] = x]
    BY <1>1, <1>5, NotRunning DEF Update, Thread
  <2>3. RowsFollowSubmit'
    BY <1>1, <1>5 DEF Update, Updatable, ActionInv, RowsFollowSubmit
  <2> QED
    BY <1>2, <2>1, <2>2, <2>3
<1>6. CASE Settle(t)
  <2>1. registry' = registry \ {thr[t].cur} /\ status' = status /\ ran' = ran
    BY <1>6 DEF Settle
  <2>2. CASE thr' = [thr EXCEPT ![t] = [thr[t] EXCEPT !.pc = "run"]]
             /\ thr[t].cur \in registry /\ status[thr[t].cur] = "approved"
    <3>1. \A u \in Threads, r \in Requests :
            Running(u, r)' => (Running(u, r) /\ u # t) \/ (u = t /\ r = thr[t].cur)
      BY <1>1, <2>2 DEF Running, Thread
    <3>2. ClosureInOnePlace'
      BY <1>1, <2>1, <2>2, <3>1 DEF ActionInv, ClosureInOnePlace
    <3>3. RunnersHoldApproved'
      BY <1>1, <2>1, <2>2, <3>1 DEF ActionInv, RunnersHoldApproved, ClosureInOnePlace
    <3>4. ActionOnceApproved'
      BY <2>1 DEF ActionInv, ActionOnceApproved
    <3> QED
      BY <1>3, <2>1, <3>2, <3>3, <3>4 DEF ActionInv
  <2>3. CASE \E x : x.pc # "run" /\ thr' = [thr EXCEPT ![t] = x]
    BY <1>2, <1>3, <2>1, <2>3
  <2> QED
    BY <1>1, <1>6, <2>2, <2>3, NotRunning DEF Settle, Thread
<1>7. CASE RunAction(t)
  <2> DEFINE r == thr[t].cur
  <2>1. /\ Running(t, r) /\ r \in Requests
        /\ ran' = [ran EXCEPT ![r] = @ + 1] /\ status' = status /\ registry' = registry
        /\ \E x : x.pc # "run" /\ thr' = [thr EXCEPT ![t] = x]
    BY <1>1, <1>7, NotRunning DEF RunAction, Running, ThreadsOK, WellFormed
  <2>2. /\ status[r] = "approved" /\ ran[r] = 0
        /\ r \notin registry /\ sub[r] \notin Unregistered
    BY <2>1 DEF ActionInv, RunnersHoldApproved, ClosureInOnePlace
  <2>3. \A u \in Threads, q \in Requests : Running(u, q)' => Running(u, q) /\ q # r
    BY <1>1, <2>1 DEF Running, ActionInv, RunnersHoldApproved
  <2>4. ran'[r] = 1 /\ \A q \in Requests \ {r} : ran'[q] = ran[q]
    BY <2>1, <2>2
  <2>5. ClosureInOnePlace'
    BY <1>1, <2>1, <2>2, <2>3, <2>4 DEF ActionInv, ClosureInOnePlace
  <2>6. RunnersHoldApproved'
    BY <2>1, <2>3, <2>4 DEF ActionInv, RunnersHoldApproved
  <2>7. ActionOnceApproved'
    BY <2>1, <2>2, <2>4 DEF ActionInv, ActionOnceApproved
  <2> QED
    BY <1>3, <2>1, <2>5, <2>6, <2>7 DEF ActionInv
<1> QED
  BY <1>4, <1>5, <1>6, <1>7 DEF Work

LEMMA WorldAction ==
    ASSUME TInv, ActionInv, ExpireBefore \/ DropSessionRules \/ RemoveAutoApproveRule \/ Restart,
           \A r \in Requests : status[r] = "approved" => status'[r] = "approved"
    PROVE  ActionInv'
<1> USE DEF TInv, TypeOK, rowVars, subVars, ruleVars, runVars
<1>1. registry' \subseteq registry /\ ran' = ran
  BY DEF ExpireBefore, DropSessionRules, RemoveAutoApproveRule, Restart
<1>2. \A u \in Threads, r \in Requests : Running(u, r)' => Running(u, r)
  <2>1. CASE thr' = thr
    BY <2>1 DEF Running
  <2>2. CASE thr' = [t \in Threads |-> IdleThread]
    BY <2>2, NotRunning DEF Running, IdleThread
  <2> QED
    BY <2>1, <2>2 DEF ExpireBefore, DropSessionRules, RemoveAutoApproveRule, Restart
<1>3. \A r \in Requests : sub'[r] \in Unregistered => sub[r] = sub'[r]
  BY DEF ExpireBefore, DropSessionRules, RemoveAutoApproveRule, Restart, Unregistered
<1>4. \A r \in Requests : status[r] = "absent" => status'[r] = "absent"
  BY DEF ExpireBefore, DropSessionRules, RemoveAutoApproveRule, Restart
<1>5. RowsFollowSubmit'
  BY <1>3, <1>4 DEF ActionInv, RowsFollowSubmit, Unregistered
<1> QED
  BY <1>1, <1>2, <1>3, <1>5, Quiet

LEMMA ActionInit == Init => ActionInv
BY DEF Init, ActionInv, RowsFollowSubmit, ClosureInOnePlace, RunnersHoldApproved,
       ActionOnceApproved, Running, IdleThread, Unregistered

LEMMA ActionStep == TInv /\ ActionInv /\ [Next]_vars => ActionInv'
<1> SUFFICES ASSUME TInv, ActionInv, [Next]_vars PROVE ActionInv'
  OBVIOUS
<1>1. CASE UNCHANGED vars
  BY <1>1 DEF vars, ActionInv, RowsFollowSubmit, ClosureInOnePlace, RunnersHoldApproved,
              ActionOnceApproved, Running
<1>2. CASE Next
  <2>1. \A r \in Requests : status[r] = "approved" => status'[r] = "approved"
    BY <1>2, DecidedStays DEF ActionInv, Terminal, Decided
  <2> QED
    BY <1>2, <2>1, SubmitterAction, BeginAction, WorkAction, WorldAction DEF Next
<1> QED
  BY <1>1, <1>2

LEMMA ActionAlways == Spec => [](TInv /\ ActionInv)
<1>1. Init => TInv /\ ActionInv
  BY TypeInit, ActionInit
<1>2. TInv /\ ActionInv /\ [Next]_vars => TInv' /\ ActionInv'
  BY TypeStep, ActionStep
<1> QED
  BY <1>1, <1>2, PTL DEF Spec

(* The action of a request runs at most once, and only when its row says   *)
(* approved, for any number of goroutines, restarts and store failures.    *)
THEOREM ActionSafe == Spec => []ActionOnceApproved
<1>1. ActionInv => ActionOnceApproved
  BY DEF ActionInv
<1> QED
  BY <1>1, ActionAlways, PTL

(* No step takes a decision back: what a caller was told of a decided row  *)
(* stays true whatever arrives later.                                      *)
THEOREM DecisionsFinal == Spec => DecisionIsFinal
<1>1. TInv /\ ActionInv /\ [Next]_vars
        => [\A r \in Requests : status[r] \in Terminal => status'[r] = status[r]]_vars
  BY DecidedStays DEF ActionInv
<1> QED
  BY <1>1, ActionAlways, PTL DEF Spec, DecisionIsFinal
-----------------------------------------------------------------------------
(* The manager implements its contract.                                    *)

(* What was decided stays decided, for the threads that act on it.         *)
LEMMA VerdictStays ==
    ASSUME TInv, VerdictsApplied, NEW t \in Threads,
           \A r \in Requests : status[r] \in Terminal => status'[r] = status[r]
    PROVE  VerdictOK(thr[t], status')
<1>1. WellFormed(thr[t]) /\ VerdictOK(thr[t], status)
  BY DEF TInv, ThreadsOK, VerdictsApplied
<1> QED
  BY <1>1 DEF VerdictOK, Applied, WellFormed, Terminal, Decided

LEMMA AnswerSubmitter ==
    ASSUME TInv, ActionInv, AnswerInv, NEW r \in Requests, Submitter(r) \/ GiveUp(r),
           \A q \in Requests : status[q] \in Terminal => status'[q] = status[q]
    PROVE  AnswerInv'
<1> USE DEF TInv, TypeOK, rowVars, ruleVars, runVars
<1>1. thr' = thr
  BY DEF Submitter, Consult, EnrollFirst, CreateRow, RegisterClosure, EnrollAfter, Receive,
         GiveUp, StopWaiting
<1>2. VerdictsApplied'
  BY <1>1, VerdictStays DEF AnswerInv, VerdictsApplied
<1>3. \A q \in Requests : chan'[q] \in {chan[q], EmptyCh, NoChan}
  BY DEF Submitter, Consult, EnrollFirst, CreateRow, RegisterClosure, EnrollAfter, Receive,
         GiveUp, StopWaiting
<1>4. \A q \in Requests : chan'[q].status \in Terminal => chan'[q].status = status'[q]
  <2>1. EmptyCh.status \notin Terminal /\ NoChan.status \notin Terminal
    BY DEF EmptyCh, NoChan, Terminal, Decided
  <2> QED
    BY <1>3, <2>1 DEF AnswerInv
<1>5. \A q \in Requests : told'[q].status # "none" => sub'[q] = "done"
  <2>1. sub[r] # "done" /\ \A q \in Requests \ {r} : told'[q] = told[q] /\ sub'[q] = sub[q]
    BY DEF Submitter, Consult, EnrollFirst, CreateRow, RegisterClosure, EnrollAfter, Receive,
           GiveUp, StopWaiting
  <2>2. sub'[r] = "done" \/ told'[r] = told[r]
    BY DEF Submitter, Consult, EnrollFirst, CreateRow, RegisterClosure, EnrollAfter, Receive,
           GiveUp, StopWaiting
  <2> QED
    BY <2>1, <2>2 DEF AnswerInv
<1> QED
  BY <1>2, <1>4, <1>5 DEF AnswerInv

(* A call as it begins: nothing swept, nothing decided, no rule stored.    *)
Fresh(x) ==
    /\ x.queue = {}
    /\ x.pc \notin Applied \union {"next"}
    /\ x.pc \in {"store", "list"} => x.via # "callback"
    /\ x.pc \in {"select", "update"} => x.cur = x.own

LEMMA AnswerBegin ==
    ASSUME TInv, AnswerInv, NEW t \in Threads, Begin(t)
    PROVE  AnswerInv'
<1> USE DEF TInv, TypeOK, rowVars, subVars, ruleVars, runVars
<1>1. UNCHANGED <<status, chan, sub, told>>
  BY DEF Begin, StartResolve, StartCallback, StartAbort, StartAddRule, SetConfigRules, Start
<1>2. ASSUME NEW x, Fresh(x), thr' = [thr EXCEPT ![t] = x]
      PROVE  AnswerInv'
  <2>1. VerdictOK(x, status')
    BY <1>2 DEF Fresh, VerdictOK, Applied
  <2>2. VerdictsApplied'
    BY <1>1, <1>2, <2>1, VerdictStays DEF AnswerInv, VerdictsApplied
  <2> QED
    BY <1>1, <2>2 DEF AnswerInv
<1>3. ASSUME NEW r, NEW v, NEW s PROVE Fresh(ResolveCall(r, v, s))
  BY DEF Fresh, ResolveCall, IdleThread, Applied
<1>4. CASE StartResolve(t)
  BY <1>2, <1>3, <1>4 DEF StartResolve, Start
<1>5. CASE StartCallback(t)
  <2>1. PICK r \in Requests, v \in {"approved", "denied"}, s \in RuleScopes \union {"none"} :
          Start(t, [ResolveCall(r, v, s) EXCEPT !.pc = "select", !.via = "callback"])
    BY <1>5 DEF StartCallback
  <2>2. Fresh([ResolveCall(r, v, s) EXCEPT !.pc = "select", !.via = "callback"])
    BY DEF Fresh, ResolveCall, IdleThread, Applied
  <2> QED
    BY <1>2, <2>1, <2>2 DEF Start
<1>6. CASE StartAbort(t)
  <2>1. PICK r \in Requests : Start(t, AbortCall(r))
    BY <1>6 DEF StartAbort
  <2>2. Fresh(AbortCall(r))
    BY DEF Fresh, AbortCall, ResolveCall, IdleThread, Applied
  <2> QED
    BY <1>2, <2>1, <2>2 DEF Start
<1>7. CASE StartAddRule(t)
  <2>1. PICK s \in RuleScopes, c \in Convs, k \in Tools :
          Start(t, [IdleThread EXCEPT !.pc = "store", !.via = "rule",
                                      !.rule = [scope |-> s, conv |-> c, tool |-> k]])
    BY <1>7 DEF StartAddRule
  <2>2. Fresh([IdleThread EXCEPT !.pc = "store", !.via = "rule",
                                 !.rule = [scope |-> s, conv |-> c, tool |-> k]])
    BY DEF Fresh, IdleThread, Applied
  <2> QED
    BY <1>2, <2>1, <2>2 DEF Start
<1>8. CASE SetConfigRules(t)
  <2>1. PICK next \in SUBSET Tools :
          thr' = [thr EXCEPT ![t] =
                   [IdleThread EXCEPT !.pc = "list", !.via = "rule",
                                      !.rule = [NoRule EXCEPT !.scope = "config"],
                                      !.todo = next \ configRules]]
    BY <1>8 DEF SetConfigRules
  <2>2. Fresh([IdleThread EXCEPT !.pc = "list", !.via = "rule",
                                 !.rule = [NoRule EXCEPT !.scope = "config"],
                                 !.todo = next \ configRules])
    BY DEF Fresh, IdleThread, Applied
  <2> QED
    BY <1>2, <2>1, <2>2
<1> QED
  BY <1>4, <1>5, <1>6, <1>7, <1>8 DEF Begin

LEMMA AnswerWork ==
    ASSUME TInv, ActionInv, AnswerInv, NEW t \in Threads, Work(t),
           \A r \in Requests : status[r] \in Terminal => status'[r] = status[r]
    PROVE  AnswerInv'
<1> DEFINE x == thr[t]
<1> USE DEF TInv, TypeOK, rowVars, subVars, ruleVars, runVars
<1>1. x \in Thread /\ WellFormed(x) /\ VerdictOK(x, status) /\ VerdictOK(x, status')
  BY VerdictStays DEF WellFormed, ThreadsOK, AnswerInv, VerdictsApplied
<1>2. sub' = sub /\ told' = told
  BY DEF Work, Select, Update, Get, Settle, RunAction, StoreRule, List, SweepNext, Notify
<1>3. ASSUME NEW y, thr' = [thr EXCEPT ![t] = y], VerdictOK(y, status')
      PROVE  VerdictsApplied'
  BY <1>3, VerdictStays DEF AnswerInv, VerdictsApplied
<1>4. VerdictOK(Return(t), status')
  BY DEF VerdictOK, Return, IdleThread, Applied
<1>5. x.pc = "update" => VerdictOK(AfterError(t), status')
  BY <1>1, <1>4 DEF AfterError, Sweeping, VerdictOK, Applied, Thread
<1>6. x.pc \in {"store", "list"} => VerdictOK(EndOfSweep(t), status')
  BY <1>1, <1>4 DEF EndOfSweep, VerdictOK, Applied, Thread
<1>7. ASSUME NEW err \in BOOLEAN, x.pc \in {"settle", "run"},
             x.cur \in Requests => status'[x.cur] = "approved"
      PROVE  VerdictOK(AfterAction(t, err), status')
  BY <1>1, <1>7 DEF AfterAction, Sweeping, VerdictOK, Applied, Thread
<1>8. CASE Select(t)
  <2>1. x.pc = "select" /\ chan' = chan
    BY <1>8 DEF Select
  <2>2. VerdictOK([x EXCEPT !.pc = "update"], status')
    BY <1>1, <2>1 DEF VerdictOK, Applied, Thread
  <2>3. VerdictsApplied'
    BY <1>3, <1>4, <1>8, <2>2 DEF Select
  <2> QED
    BY <1>2, <2>1, <2>3 DEF AnswerInv
<1>9. CASE Update(t)
  <2>1. x.pc = "update" /\ chan' = chan
    BY <1>9 DEF Update
  <2>2. ASSUME NEW p \in {"settle", "get"}, thr' = [thr EXCEPT ![t] = [x EXCEPT !.pc = p]],
               status' = [status EXCEPT ![x.cur] = x.verdict]
        PROVE  VerdictsApplied'
    <3>1. x.cur \in Requests => status'[x.cur] = x.verdict
      BY <2>2
    <3>2. VerdictOK([x EXCEPT !.pc = p], status')
      BY <1>1, <2>1, <3>1 DEF VerdictOK, Applied, Thread
    <3> QED
      BY <1>3, <2>2, <3>2
  <2>3. ASSUME thr' = [thr EXCEPT ![t] = AfterError(t)] PROVE VerdictsApplied'
    <3>1. VerdictOK(AfterError(t), status')
      BY <1>5, <2>1
    <3> QED
      BY <1>3, <2>3, <3>1
  <2>4. \/ /\ status' = [status EXCEPT ![x.cur] = x.verdict]
           /\ \E p \in {"settle", "get"} : thr' = [thr EXCEPT ![t] = [x EXCEPT !.pc = p]]
        \/ thr' = [thr EXCEPT ![t] = AfterError(t)]
    BY <1>9 DEF Update
  <2>5. VerdictsApplied'
    <3>1. CASE /\ status' = [status EXCEPT ![x.cur] = x.verdict]
               /\ \E p \in {"settle", "get"} : thr' = [thr EXCEPT ![t] = [x EXCEPT !.pc = p]]
      BY <2>2, <3>1
    <3> QED
      BY <2>3, <2>4, <3>1
  <2> QED
    BY <1>2, <2>1, <2>5 DEF AnswerInv
<1>10. CASE Get(t)
  <2>1. x.pc = "get" /\ chan' = chan
    BY <1>10 DEF Get
  <2>2. /\ VerdictOK([x EXCEPT !.pc = "settle"], status')
        /\ VerdictOK([x EXCEPT !.pc = "notify", !.err = (x.verdict = "approved")], status')
    BY <1>1, <2>1 DEF VerdictOK, Applied, Thread
  <2>3. VerdictsApplied'
    BY <1>3, <1>4, <1>10, <2>2 DEF Get
  <2> QED
    BY <1>2, <2>1, <2>3 DEF AnswerInv
<1>11. CASE Settle(t)
  <2>1. x.pc = "settle" /\ chan' = chan /\ status' = status
    BY <1>11 DEF Settle
  <2>2. /\ VerdictOK([x EXCEPT !.pc = "run"], status')
        /\ VerdictOK([x EXCEPT !.pc = "notify"], status')
    BY <1>1, <2>1 DEF VerdictOK, Applied, Thread
  <2>3. status[x.cur] = "approved" => VerdictOK(AfterAction(t, FALSE), status')
    BY <1>7, <2>1
  <2>4. VerdictsApplied'
    BY <1>3, <1>11, <2>2, <2>3 DEF Settle
  <2> QED
    BY <1>2, <2>1, <2>4 DEF AnswerInv
<1>12. CASE RunAction(t)
  <2>1. x.pc = "run" /\ chan' = chan /\ status' = status /\ x.cur \in Requests
    BY <1>1, <1>12 DEF RunAction, WellFormed
  <2>2. status'[x.cur] = "approved"
    BY <2>1 DEF ActionInv, RunnersHoldApproved, Running
  <2>3. PICK err \in BOOLEAN : thr' = [thr EXCEPT ![t] = AfterAction(t, err)]
    BY <1>12 DEF RunAction
  <2>4. VerdictsApplied'
    BY <1>3, <1>7, <2>1, <2>2, <2>3
  <2> QED
    BY <1>2, <2>1, <2>4 DEF AnswerInv
<1>13. CASE StoreRule(t)
  <2>1. x.pc = "store" /\ chan' = chan /\ status' = status
    BY <1>13 DEF StoreRule
  <2>2. VerdictOK([x EXCEPT !.pc = "list", !.todo = {x.rule.tool}], status')
    BY <1>1, <2>1 DEF VerdictOK, Applied, Thread
  <2>3. VerdictsApplied'
    BY <1>3, <1>6, <1>13, <2>1, <2>2 DEF StoreRule
  <2> QED
    BY <1>2, <2>1, <2>3 DEF AnswerInv
<1>14. CASE List(t)
  <2> DEFINE found(k) == {r \in Requests : Matches(r, k)}
             scan(k) == [x EXCEPT !.pc = "next", !.todo = @ \ {k}, !.queue = found(k),
                                  !.listed = @ \union found(k)]
             skip(k) == [x EXCEPT !.todo = @ \ {k}]
  <2>1. x.pc = "list" /\ chan' = chan /\ status' = status
    BY <1>14 DEF List
  <2>2. \A k : VerdictOK(scan(k), status')
    BY <1>1, <2>1 DEF VerdictOK, Applied, Thread, Matches
  <2>3. \A k : VerdictOK(skip(k), status')
    BY <1>1, <2>1 DEF VerdictOK, Applied, Thread
  <2>4. \/ thr' = [thr EXCEPT ![t] = EndOfSweep(t)]
        \/ \E k : thr' = [thr EXCEPT ![t] = scan(k)] \/ thr' = [thr EXCEPT ![t] = skip(k)]
    BY <1>14 DEF List
  <2> HIDE DEF scan, skip
  <2>5. VerdictsApplied'
    BY <1>3, <1>6, <2>1, <2>2, <2>3, <2>4
  <2> QED
    BY <1>2, <2>1, <2>5 DEF AnswerInv
<1>15. CASE SweepNext(t)
  <2> DEFINE take(r) == [x EXCEPT !.pc = "update", !.queue = @ \ {r}, !.cur = r,
                                  !.verdict = "approved", !.err = FALSE]
  <2>1. x.pc = "next" /\ chan' = chan /\ status' = status
    BY <1>15 DEF SweepNext
  <2>2. VerdictOK([x EXCEPT !.pc = "list"], status')
    BY <1>1, <2>1 DEF VerdictOK, Applied, Thread
  <2>3. \A r : VerdictOK(take(r), status')
    BY <1>1, <2>1 DEF VerdictOK, Applied, Thread
  <2>4. VerdictsApplied'
    BY <1>3, <1>15, <2>2, <2>3 DEF SweepNext
  <2> QED
    BY <1>2, <2>1, <2>4 DEF AnswerInv
<1>16. CASE Notify(t)
  <2>1. x.pc = "notify" /\ status' = status /\ Send(x.cur, [status |-> x.verdict, err |-> x.err])
    BY <1>16 DEF Notify
  <2>2. \A r \in Requests : chan'[r].status \in Terminal => chan'[r].status = status'[r]
    BY <1>1, <2>1 DEF Send, AnswerInv, VerdictOK, Applied
  <2>3. /\ Sweeping(t) => VerdictOK([x EXCEPT !.pc = "next"], status')
        /\ x.via = "resolve" => VerdictOK([x EXCEPT !.pc = "store"], status')
    BY <1>1, <2>1 DEF Sweeping, VerdictOK, Applied, Thread
  <2>4. VerdictsApplied'
    BY <1>3, <1>4, <1>16, <2>3 DEF Notify
  <2> QED
    BY <1>2, <2>2, <2>4 DEF AnswerInv
<1> QED
  BY <1>8, <1>9, <1>10, <1>11, <1>12, <1>13, <1>14, <1>15, <1>16 DEF Work

LEMMA AnswerWorld ==
    ASSUME TInv, AnswerInv, ExpireBefore \/ DropSessionRules \/ RemoveAutoApproveRule \/ Restart,
           \A r \in Requests : status[r] \in Terminal => status'[r] = status[r]
    PROVE  AnswerInv'
<1> USE DEF TInv, TypeOK, rowVars, subVars, ruleVars, runVars
<1>1. CASE Restart
  <2>1. \A r \in Requests : chan'[r] = NoChan
    BY <1>1 DEF Restart
  <2>2. \A t \in Threads : VerdictOK(thr'[t], status')
    BY <1>1 DEF Restart, VerdictOK, IdleThread, Applied
  <2>3. \A r \in Requests : told'[r] = told[r] /\ (sub[r] = "done" => sub'[r] = "done")
    BY <1>1 DEF Restart
  <2> QED
    BY <2>1, <2>2, <2>3 DEF AnswerInv, VerdictsApplied, NoChan, Terminal, Decided
<1>2. CASE UNCHANGED <<chan, told, sub, thr>>
  BY <1>2, VerdictStays DEF AnswerInv, VerdictsApplied
<1> QED
  BY <1>1, <1>2 DEF ExpireBefore, DropSessionRules, RemoveAutoApproveRule

LEMMA AnswerInit == Init => AnswerInv
BY DEF Init, AnswerInv, VerdictsApplied, VerdictOK, IdleThread, NoChan, Applied, Terminal, Decided

LEMMA AnswerStep == TInv /\ ActionInv /\ AnswerInv /\ [Next]_vars => AnswerInv'
<1> SUFFICES ASSUME TInv, ActionInv, AnswerInv, [Next]_vars PROVE AnswerInv'
  OBVIOUS
<1>1. CASE UNCHANGED vars
  BY <1>1 DEF vars, AnswerInv, VerdictsApplied
<1>2. CASE Next
  <2>1. \A r \in Requests : status[r] \in Terminal => status'[r] = status[r]
    BY <1>2, DecidedStays DEF ActionInv
  <2> QED
    BY <1>2, <2>1, AnswerSubmitter, AnswerBegin, AnswerWork, AnswerWorld DEF Next
<1> QED
  BY <1>1, <1>2

LEMMA AnswerAlways == Spec => [](TInv /\ ActionInv /\ AnswerInv)
<1>1. Init => AnswerInv
  BY AnswerInit
<1>2. TInv /\ ActionInv /\ AnswerInv /\ [Next]_vars => AnswerInv'
  BY AnswerStep
<1> QED
  BY <1>1, <1>2, ActionAlways, PTL DEF Spec

(* The contract's view of the answers.                                     *)
Answers == [r \in Requests |-> told[r].status]

LEMMA ContractSubmitter ==
    ASSUME TInv, ActionInv, AnswerInv, NEW r \in Requests, Submitter(r) \/ GiveUp(r)
    PROVE  Contract!Next \/ UNCHANGED Contract!vars
<1> USE DEF TInv, TypeOK, rowVars, ruleVars, runVars
<1>1. sub[r] # "done" => Answers[r] = "none"
  BY DEF AnswerInv, Answers
<1>2. sub[r] \in {"new", "checked", "enrolled"} => status[r] = "absent"
  BY DEF ActionInv, RowsFollowSubmit
<1>3. ASSUME NEW a, told' = [told EXCEPT ![r] = a] PROVE Answers' = [Answers EXCEPT ![r] = a.status]
  BY <1>3 DEF Answers
<1>4. ASSUME NEW a, told' = [told EXCEPT ![r] = a], sub[r] # "done",
             status' = status, ran' = ran,
             \/ a.status \in {status[r]} \intersect Decided
             \/ a.status = "expired"
             \/ status[r] = "absent" /\ a.status \in {"auto", "denied"}
      PROVE  Contract!Tell(r)
  BY <1>1, <1>3, <1>4 DEF Contract!Tell, Contract!Decisions, Answers, Decided
<1>5. told' = told => Answers' = Answers
  BY DEF Answers
<1>6. CASE Consult(r)
  BY <1>2, <1>4, <1>5, <1>6 DEF Consult, Contract!Next, Contract!vars, Answers
<1>7. CASE CreateRow(r)
  BY <1>1, <1>2, <1>4, <1>5, <1>7 DEF CreateRow, Contract!Open, Contract!Next, Answers
<1>8. CASE EnrollFirst(r) \/ RegisterClosure(r) \/ EnrollAfter(r)
  BY <1>5, <1>8 DEF EnrollFirst, RegisterClosure, EnrollAfter, Contract!vars, Answers
<1>9. CASE Receive(r)
  BY <1>4, <1>9 DEF Receive, AnswerInv, Terminal, Contract!Next
<1>10. CASE GiveUp(r)
  BY <1>4, <1>10 DEF GiveUp, StopWaiting, Contract!Next
<1> QED
  BY <1>6, <1>7, <1>8, <1>9, <1>10 DEF Submitter

LEMMA ContractStep ==
    TInv /\ ActionInv /\ AnswerInv /\ [Next]_vars => [Contract!Next]_Contract!vars
<1> SUFFICES ASSUME TInv, ActionInv, AnswerInv, Next PROVE Contract!Next \/ UNCHANGED Contract!vars
  BY DEF vars, Contract!vars
<1> USE DEF TInv, TypeOK, rowVars, subVars, ruleVars, runVars
<1>1. ASSUME told' = told, ran' = ran, status' = status PROVE UNCHANGED Contract!vars
  BY <1>1 DEF Contract!vars
<1>2. ASSUME NEW r \in Requests, Submitter(r) \/ GiveUp(r)
      PROVE  Contract!Next \/ UNCHANGED Contract!vars
  BY <1>2, ContractSubmitter
<1>3. ASSUME NEW t \in Threads, Begin(t) PROVE UNCHANGED Contract!vars
  BY <1>1, <1>3 DEF Begin, StartResolve, StartCallback, StartAbort, StartAddRule,
                    SetConfigRules, Start
<1>4. ASSUME NEW t \in Threads, Work(t) PROVE Contract!Next \/ UNCHANGED Contract!vars
  <2>1. CASE Update(t)
    <3>1. WellFormed(thr[t]) /\ thr[t].pc = "update"
      BY <2>1 DEF Update, ThreadsOK
    <3>2. thr[t].verdict \in Contract!Decisions
      BY <3>1 DEF WellFormed, Decided, Contract!Decisions
    <3>3. CASE status' = status
      BY <1>1, <2>1, <3>3 DEF Update
    <3>4. CASE thr[t].cur \in Requests /\ status[thr[t].cur] = "pending"
               /\ status' = [status EXCEPT ![thr[t].cur] = thr[t].verdict]
      <4>1. Contract!Decide(thr[t].cur)
        BY <2>1, <3>2, <3>4 DEF Update, Contract!Decide
      <4> QED
        BY <3>4, <4>1 DEF Contract!Next
    <3> QED
      BY <2>1, <3>3, <3>4 DEF Update, Updatable
  <2>2. CASE RunAction(t)
    <3>1. thr[t].cur \in Requests /\ Running(t, thr[t].cur)
      BY <2>2 DEF RunAction, Running, ThreadsOK, WellFormed
    <3>2. status[thr[t].cur] = "approved" /\ ran[thr[t].cur] = 0
      BY <3>1 DEF ActionInv, RunnersHoldApproved
    <3>3. Contract!Act(thr[t].cur)
      BY <2>2, <3>1, <3>2 DEF RunAction, Contract!Act
    <3> QED
      BY <3>1, <3>3 DEF Contract!Next
  <2> QED
    BY <1>1, <1>4, <2>1, <2>2 DEF Work, Select, Get, Settle, StoreRule, List, SweepNext, Notify
<1>5. CASE ExpireBefore
  <2>1. Contract!Expire
    BY <1>5 DEF ExpireBefore, Contract!Expire
  <2> QED
    BY <2>1 DEF Contract!Next
<1>6. CASE Restart
  <2>1. CASE status' = status
    BY <1>1, <1>6, <2>1 DEF Restart
  <2>2. CASE status' # status
    <3>1. Contract!Expire
      BY <1>6, <2>2 DEF Restart, Contract!Expire
    <3> QED
      BY <3>1 DEF Contract!Next
  <2> QED
    BY <2>1, <2>2
<1>7. CASE DropSessionRules \/ RemoveAutoApproveRule
  BY <1>1, <1>7 DEF DropSessionRules, RemoveAutoApproveRule
<1> QED
  BY <1>2, <1>3, <1>4, <1>5, <1>6, <1>7 DEF Next

(* The manager, with its goroutines, channels, rules, restarts and store   *)
(* failures, implements the contract: rows are decided once, an action     *)
(* follows an approval, and no answer contradicts the row.                 *)
THEOREM ManagerKeepsContract == Spec => ContractKept
<1>1. Init => Contract!Init
  BY DEF Init, Contract!Init, NoChan
<1>2. TInv /\ ActionInv /\ AnswerInv /\ [Next]_vars => [Contract!Next]_Contract!vars
  BY ContractStep
<1> QED
  BY <1>1, <1>2, AnswerAlways, PTL DEF Spec, ContractKept, Contract!Spec

-----------------------------------------------------------------------------
(* A sweep leaves none of its rows behind.                                 *)

(* A call is past its own row: it stores a rule, or sweeps for one.        *)
PastOwn(x) == \/ x.pc \in {"store", "list", "next"}
              \/ x.pc \in Applied \union {"update"} /\ x.cur # x.own

BeforeSweep(x) == x.pc # "next" /\ (x.pc \in Applied \union {"update"} => x.cur = x.own)

(* What each kind of call does: an abort neither sweeps nor makes a rule,  *)
(* a denial makes none, a callback makes the rule of its own row.          *)
KindOK(x) ==
    /\ x.pc \in Applied \union {"select", "update"} => x.cur \in Requests
    /\ x.via = "abort" => /\ x.pc \in {"update", "settle", "notify"} /\ x.cur = x.own
                          /\ x.verdict = "aborted" /\ x.rule = NoRule
    /\ x.via # "abort" => x.verdict # "aborted"
    /\ x.verdict = "denied" => x.rule = NoRule /\ x.cur = x.own
    /\ x.via = "callback" => /\ x.own \in Requests
                             /\ x.rule \in {RuleFor(s, x.own) : s \in RuleScopes \union {"none"}}
    /\ PastOwn(x) => x.rule # NoRule

(* What a sweep has listed is decided, or still in its queue, or the row   *)
(* it is about to decide; its caller's own row is decided before it lists. *)
SweepOK(x) ==
    /\ BeforeSweep(x) => x.queue = {}
    /\ x.own \notin x.queue
    /\ x.own \in Requests /\ PastOwn(x) => status[x.own] \in Decided
    /\ \A r \in x.listed : status[r] # "absent"
    /\ faults = 0 => \A r \in x.listed :
          status[r] = "pending" => r \in x.queue \/ (x.pc = "update" /\ x.cur = r)

CallsOK == \A t \in Threads : KindOK(thr[t]) /\ SweepOK(thr[t])

(* Rows move from absent to pending to a decision, faults only add up.     *)
Moves == /\ \A r \in Requests : status[r] # "absent" =>
               /\ status'[r] # "absent"
               /\ status'[r] = "pending" => status[r] = "pending"
               /\ status[r] \in Terminal => status'[r] = status[r]
         /\ faults' = 0 => faults = 0

LEMMA RowsMove == ASSUME TInv, ActionInv, Next PROVE Moves
<1> USE DEF TInv, TypeOK, rowVars, subVars, ruleVars, runVars
<1>1. \A r \in Requests : status[r] \in Terminal => status'[r] = status[r]
  BY DecidedStays DEF ActionInv
<1>2. \A r \in Requests : status[r] # "absent" =>
         status'[r] # "absent" /\ (status'[r] = "pending" => status[r] = "pending")
  <2>1. \A r \in Requests : status[r] = "pending" => status'[r] # "absent"
    <3>1. ASSUME NEW q \in Requests, Submitter(q) \/ GiveUp(q), NEW r \in Requests, status[r] = "pending"
          PROVE  status'[r] # "absent"
      BY <3>1 DEF Submitter, Consult, EnrollFirst, CreateRow, RegisterClosure, EnrollAfter,
                  Receive, GiveUp, StopWaiting
    <3>2. ASSUME NEW t \in Threads, Begin(t) PROVE status' = status
      BY <3>2 DEF Begin, StartResolve, StartCallback, StartAbort, StartAddRule, SetConfigRules, Start
    <3>3. ASSUME NEW t \in Threads, Work(t), NEW r \in Requests, status[r] = "pending"
          PROVE  status'[r] # "absent"
      <4>1. CASE Update(t)
        <5>1. thr[t].verdict # "absent"
          BY <4>1 DEF Update, ThreadsOK, WellFormed, Decided
        <5> QED
          BY <3>3, <4>1, <5>1 DEF Update
      <4> QED
        BY <3>3, <4>1 DEF Work, Select, Get, Settle, RunAction, StoreRule, List, SweepNext, Notify
    <3>4. ASSUME ExpireBefore \/ DropSessionRules \/ RemoveAutoApproveRule \/ Restart,
                 NEW r \in Requests, status[r] = "pending"
          PROVE  status'[r] # "absent"
      BY <3>4 DEF ExpireBefore, DropSessionRules, RemoveAutoApproveRule, Restart
    <3> QED
      BY <3>1, <3>2, <3>3, <3>4 DEF Next
  <2> QED
    BY <1>1, <2>1 DEF Status, Terminal, Decided
<1>3. faults' = 0 => faults = 0
  <2>1. faults' = faults \/ (faults \in Nat /\ faults' = faults + 1)
    <3>1. ASSUME NEW q \in Requests, Submitter(q) \/ GiveUp(q)
          PROVE  faults' = faults \/ (faults \in Nat /\ faults' = faults + 1)
      BY <3>1 DEF Submitter, Consult, EnrollFirst, CreateRow, RegisterClosure, EnrollAfter,
                  Receive, GiveUp, StopWaiting, Fail
    <3>2. ASSUME NEW t \in Threads, Begin(t) PROVE faults' = faults
      BY <3>2 DEF Begin, StartResolve, StartCallback, StartAbort, StartAddRule, SetConfigRules, Start
    <3>3. ASSUME NEW t \in Threads, Work(t)
          PROVE  faults' = faults \/ (faults \in Nat /\ faults' = faults + 1)
      BY <3>3 DEF Work, Select, Update, Get, Settle, RunAction, StoreRule, List, SweepNext, Notify, Fail
    <3>4. ASSUME ExpireBefore \/ DropSessionRules \/ RemoveAutoApproveRule \/ Restart
          PROVE  faults' = faults \/ (faults \in Nat /\ faults' = faults + 1)
      BY <3>4 DEF ExpireBefore, DropSessionRules, RemoveAutoApproveRule, Restart, Fail
    <3> QED
      BY <3>1, <3>2, <3>3, <3>4 DEF Next
  <2> QED
    BY <2>1
<1> QED
  BY <1>1, <1>2, <1>3 DEF Moves

(* Another's steps keep what a sweep promises.                             *)
LEMMA SweepStays ==
    ASSUME NEW x, x \in Thread, SweepOK(x), Moves
    PROVE  SweepOK(x)'
BY DEF SweepOK, Moves, Thread, Terminal, Decided

LEMMA CallsStay ==
    ASSUME TInv, CallsOK, Moves, NEW t \in Threads, NEW y, thr' = [thr EXCEPT ![t] = y],
           KindOK(y), SweepOK(y)'
    PROVE  CallsOK'
<1> SUFFICES ASSUME NEW u \in Threads PROVE (KindOK(thr[u]) /\ SweepOK(thr[u]))'
  BY DEF CallsOK
<1>1. PICK z : z = thr'[u]
  OBVIOUS
<1>2. CASE u = t
  <2>1. z = y
    BY <1>1, <1>2 DEF TInv, TypeOK
  <2>2. KindOK(z)' /\ SweepOK(z)'
    BY <2>1 DEF KindOK, PastOwn
  <2> QED
    BY <1>1, <2>2 DEF KindOK, SweepOK, PastOwn
<1>3. CASE u # t
  <2>1. z = thr[u] /\ z \in Thread
    BY <1>1, <1>3 DEF TInv, TypeOK
  <2>2. KindOK(z) /\ SweepOK(z)
    BY <2>1 DEF CallsOK, KindOK, SweepOK, PastOwn
  <2>3. SweepOK(z)'
    BY <2>1, <2>2, SweepStays
  <2> QED
    BY <1>1, <2>2, <2>3 DEF KindOK, SweepOK, PastOwn
<1> QED
  BY <1>2, <1>3

-----------------------------------------------------------------------------
LEMMA CallsInit == Init => CallsOK
BY DEF Init, CallsOK, KindOK, SweepOK, PastOwn, IdleThread, Applied, NoRule

LEMMA CallsBegin ==
    ASSUME TInv, CallsOK, Moves, NEW t \in Threads, Begin(t)
    PROVE  CallsOK'
<1> USE DEF TInv, TypeOK
<1>1. ASSUME NEW y, y.listed = {}, y.queue = {}, KindOK(y), y.own \in Requests => ~PastOwn(y),
             thr' = [thr EXCEPT ![t] = y]
      PROVE  CallsOK'
  <2>1. SweepOK(y)'
    BY <1>1 DEF SweepOK, PastOwn
  <2> QED
    BY <1>1, <2>1, CallsStay
<1>2. CASE StartResolve(t)
  <2>1. PICK r \in Requests, v \in {"approved", "denied"}, s \in RuleScopes \union {"none"} :
          /\ v = "denied" => s = "none"
          /\ thr' = [thr EXCEPT ![t] = ResolveCall(r, v, s)]
    BY <1>2 DEF StartResolve, Start
  <2>2. PICK y : y = ResolveCall(r, v, s)
    OBVIOUS
  <2>3. KindOK(y) /\ ~PastOwn(y) /\ y.listed = {} /\ y.queue = {}
    BY <2>1, <2>2 DEF ResolveCall, IdleThread, KindOK, PastOwn, Applied, RuleFor
  <2> QED
    BY <1>1, <2>1, <2>2, <2>3
<1>3. CASE StartCallback(t)
  <2>1. PICK r \in Requests, v \in {"approved", "denied"}, s \in RuleScopes \union {"none"} :
          /\ v = "denied" => s = "none"
          /\ thr' = [thr EXCEPT ![t] = [ResolveCall(r, v, s) EXCEPT !.pc = "select", !.via = "callback"]]
    BY <1>3 DEF StartCallback, Start
  <2>2. PICK y : y = [ResolveCall(r, v, s) EXCEPT !.pc = "select", !.via = "callback"]
    OBVIOUS
  <2>3. KindOK(y) /\ ~PastOwn(y) /\ y.listed = {} /\ y.queue = {}
    BY <2>1, <2>2 DEF ResolveCall, IdleThread, KindOK, PastOwn, Applied, RuleFor
  <2> QED
    BY <1>1, <2>1, <2>2, <2>3
<1>4. CASE StartAbort(t)
  <2>1. PICK r \in Requests : thr' = [thr EXCEPT ![t] = AbortCall(r)]
    BY <1>4 DEF StartAbort, Start
  <2>2. PICK y : y = AbortCall(r)
    OBVIOUS
  <2>3. KindOK(y) /\ ~PastOwn(y) /\ y.listed = {} /\ y.queue = {}
    BY <2>1, <2>2 DEF AbortCall, ResolveCall, IdleThread, KindOK, PastOwn, Applied, RuleFor
  <2> QED
    BY <1>1, <2>1, <2>2, <2>3
<1>5. CASE StartAddRule(t)
  <2>1. PICK s \in RuleScopes, c \in Convs, k \in Tools :
          thr' = [thr EXCEPT ![t] = [IdleThread EXCEPT !.pc = "store", !.via = "rule",
                                        !.rule = [scope |-> s, conv |-> c, tool |-> k]]]
    BY <1>5 DEF StartAddRule, Start
  <2>2. PICK y : y = [IdleThread EXCEPT !.pc = "store", !.via = "rule",
                                        !.rule = [scope |-> s, conv |-> c, tool |-> k]]
    OBVIOUS
  <2>3. KindOK(y) /\ y.own \notin Requests /\ y.listed = {} /\ y.queue = {}
    BY <2>2, RequestsAssumption, ScopesAssumption DEF IdleThread, KindOK, PastOwn, Applied, NoRule
  <2> QED
    BY <1>1, <2>1, <2>2, <2>3
<1>6. CASE SetConfigRules(t)
  <2>1. PICK next \in SUBSET Tools :
          thr' = [thr EXCEPT ![t] = [IdleThread EXCEPT !.pc = "list", !.via = "rule",
                                        !.rule = [NoRule EXCEPT !.scope = "config"],
                                        !.todo = next \ configRules]]
    BY <1>6 DEF SetConfigRules
  <2>2. PICK y : y = [IdleThread EXCEPT !.pc = "list", !.via = "rule",
                                        !.rule = [NoRule EXCEPT !.scope = "config"],
                                        !.todo = next \ configRules]
    OBVIOUS
  <2>3. KindOK(y) /\ y.own \notin Requests /\ y.listed = {} /\ y.queue = {}
    BY <2>2, RequestsAssumption DEF IdleThread, KindOK, PastOwn, Applied, NoRule
  <2> QED
    BY <1>1, <2>1, <2>2, <2>3
<1> QED
  BY <1>2, <1>3, <1>4, <1>5, <1>6 DEF Begin

(* A call that returns leaves nothing behind, if nothing was left to do.   *)
LEMMA CallsReturn ==
    ASSUME TInv, CallsOK, Moves, NEW t \in Threads, thr' = [thr EXCEPT ![t] = Return(t)],
           thr[t].queue = {}, faults' = 0 => thr[t].pc # "update" \/ status[thr[t].cur] # "pending"
    PROVE  CallsOK'
<1> USE DEF TInv, TypeOK
<1>1. PICK y : y = Return(t)
  OBVIOUS
<1>2. thr[t] \in Thread /\ SweepOK(thr[t])
  BY DEF CallsOK
<1>3. KindOK(y)
  BY <1>1 DEF Return, IdleThread, KindOK, PastOwn, Applied
<1>4. y.own \notin Requests /\ y.queue = {} /\ y.pc = "idle" /\ y.listed = thr[t].listed
  BY <1>1, RequestsAssumption DEF Return, IdleThread
<1>5. \A r \in y.listed : /\ status'[r] # "absent"
                          /\ faults' = 0 => status'[r] # "pending"
  <2>1. thr[t].listed \subseteq Requests
    BY <1>2 DEF Thread
  <2> QED
    BY <1>2, <1>4, <2>1 DEF SweepOK, Moves
<1>6. SweepOK(y)'
  BY <1>4, <1>5 DEF SweepOK, PastOwn, Applied
<1> QED
  BY <1>1, <1>3, <1>6, CallsStay

(* A call that goes on, with the queue and the list it had.                *)
LEMMA CallsGoOn ==
    ASSUME TInv, CallsOK, Moves, NEW t \in Threads, NEW y, thr' = [thr EXCEPT ![t] = y], KindOK(y),
           y.own = thr[t].own, y.queue = thr[t].queue, y.listed = thr[t].listed,
           BeforeSweep(y) => BeforeSweep(thr[t]) \/ thr[t].queue = {},
           PastOwn(y) /\ y.own \in Requests => PastOwn(thr[t]) \/ status'[y.own] \in Decided,
           faults' = 0 /\ thr[t].pc = "update" => status'[thr[t].cur] # "pending"
    PROVE  CallsOK'
<1>1. PICK z : z = thr[t]
  OBVIOUS
<1>2. z \in Thread /\ KindOK(z) /\ SweepOK(z)
  BY <1>1 DEF CallsOK, TInv, TypeOK
<1>3. /\ BeforeSweep(y) => y.queue = {}
      /\ y.own \notin y.queue
  BY <1>1, <1>2 DEF SweepOK
<1>4. y.own \in Requests /\ PastOwn(y) => status'[y.own] \in Decided
  BY <1>1, <1>2 DEF SweepOK, Moves, Terminal, Decided
<1>5. \A r \in y.listed : /\ status'[r] # "absent"
                          /\ faults' = 0 /\ status'[r] = "pending" => r \in y.queue
  <2>1. z.listed \subseteq Requests
    BY <1>2 DEF Thread
  <2> QED
    BY <1>1, <1>2, <2>1 DEF SweepOK, Moves
<1>6. SweepOK(y)'
  BY <1>3, <1>4, <1>5 DEF SweepOK, BeforeSweep, PastOwn
<1> QED
  BY <1>6, CallsStay

(* After a sweep: a callback goes to wake its waiter, others return.       *)
LEMMA CallsEnd ==
    ASSUME TInv, CallsOK, Moves, NEW t \in Threads, thr' = [thr EXCEPT ![t] = EndOfSweep(t)],
           thr[t].pc \in {"store", "list"}
    PROVE  CallsOK'
<1> USE DEF TInv, TypeOK
<1>1. thr[t] \in Thread /\ KindOK(thr[t]) /\ SweepOK(thr[t]) /\ BeforeSweep(thr[t])
  BY DEF CallsOK, BeforeSweep, Applied
<1>2. CASE thr[t].via # "callback"
  BY <1>1, <1>2, CallsReturn DEF EndOfSweep, SweepOK
<1>3. CASE thr[t].via = "callback"
  <2>1. PICK y : y = [thr[t] EXCEPT !.pc = "notify", !.cur = thr[t].own,
                        !.verdict = "approved", !.err = FALSE]
    OBVIOUS
  <2>2. thr' = [thr EXCEPT ![t] = y]
    BY <1>3, <2>1 DEF EndOfSweep
  <2>3. KindOK(y)
    BY <1>1, <1>3, <2>1 DEF KindOK, PastOwn, Applied, Thread
  <2>4. /\ y.own = thr[t].own /\ y.queue = thr[t].queue /\ y.listed = thr[t].listed
        /\ ~PastOwn(y)
    BY <1>1, <2>1 DEF Thread, PastOwn
  <2> QED
    BY <1>1, <2>2, <2>3, <2>4, CallsGoOn
<1> QED
  BY <1>2, <1>3

LEMMA CallsWork ==
    ASSUME TInv, ActionInv, AnswerInv, CallsOK, Moves, NEW t \in Threads, Work(t)
    PROVE  CallsOK'
<1> USE DEF TInv, TypeOK
<1>1. PICK x : x = thr[t]
  OBVIOUS
<1>2. x \in Thread /\ WellFormed(x) /\ KindOK(x) /\ SweepOK(x) /\ VerdictOK(x, status)
  BY <1>1 DEF CallsOK, ThreadsOK, AnswerInv, VerdictsApplied
<1>3. CASE Select(t)
  <2>1. x.pc = "select" /\ x.cur = x.own
    BY <1>1, <1>2, <1>3 DEF Select, VerdictOK
  <2>2. CASE thr' = [thr EXCEPT ![t] = Return(t)]
    BY <1>1, <1>2, <2>1, <2>2, CallsReturn DEF SweepOK, BeforeSweep, Applied
  <2>3. CASE thr' = [thr EXCEPT ![t] = [x EXCEPT !.pc = "update"]]
    <3>1. PICK y : y = [x EXCEPT !.pc = "update"]
      OBVIOUS
    <3>2. KindOK(y) /\ ~PastOwn(y) /\ BeforeSweep(x)
      BY <1>2, <2>1, <3>1 DEF KindOK, PastOwn, BeforeSweep, Applied, Thread
    <3> QED
      BY <1>1, <1>2, <2>1, <2>3, <3>1, <3>2, CallsGoOn DEF Thread
  <2> QED
    BY <1>1, <1>3, <2>2, <2>3 DEF Select
<1>4. CASE Update(t)
  <2>1. x.pc = "update" /\ x.cur \in Requests /\ x.verdict \in Decided
    BY <1>1, <1>2, <1>4 DEF Update, KindOK, WellFormed
  <2>2. CASE thr' = [thr EXCEPT ![t] = AfterError(t)] /\ (status[x.cur] # "pending" \/ faults' # 0)
    <3>1. CASE x.cur = x.own
      BY <1>1, <1>2, <2>1, <2>2, <3>1, CallsReturn DEF SweepOK, BeforeSweep, Applied, AfterError, Sweeping
    <3>2. CASE x.cur # x.own
      <4>1. PICK y : y = [x EXCEPT !.pc = "next"]
        OBVIOUS
      <4>2. thr' = [thr EXCEPT ![t] = y]
        BY <1>1, <2>2, <3>2, <4>1 DEF AfterError, Sweeping
      <4>3. KindOK(y) /\ PastOwn(x) /\ ~BeforeSweep(y)
        BY <1>2, <2>1, <3>2, <4>1 DEF KindOK, PastOwn, BeforeSweep, Applied, Thread
      <4>4. faults' = 0 => status'[x.cur] # "pending"
        BY <2>1, <2>2, <1>4, <1>1 DEF Update, Updatable, rowVars
      <4> QED
        BY <1>1, <1>2, <4>1, <4>2, <4>3, <4>4, CallsGoOn DEF Thread
    <3> QED
      BY <3>1, <3>2
  <2>3. ASSUME NEW p \in {"settle", "get"}, thr' = [thr EXCEPT ![t] = [x EXCEPT !.pc = p]],
               p = "settle" <=> (x.via = "abort" /\ x.cur = x.own),
               status' = [status EXCEPT ![x.cur] = x.verdict]
        PROVE  CallsOK'
    <3>1. PICK y : y = [x EXCEPT !.pc = p]
      OBVIOUS
    <3>2. KindOK(y) /\ (PastOwn(y) => PastOwn(x)) /\ (BeforeSweep(y) => BeforeSweep(x))
      BY <1>2, <2>1, <2>3, <3>1 DEF KindOK, PastOwn, BeforeSweep, Applied, Thread
    <3>3. status'[x.cur] # "pending"
      BY <2>1, <2>3 DEF Decided
    <3> QED
      BY <1>1, <1>2, <2>3, <3>1, <3>2, <3>3, CallsGoOn DEF Thread
  <2>4. Fail => faults' # 0
    BY DEF Fail
  <2>5. \/ thr' = [thr EXCEPT ![t] = AfterError(t)] /\ (status[x.cur] # "pending" \/ Fail)
        \/ /\ status' = [status EXCEPT ![x.cur] = x.verdict]
           /\ thr' = [thr EXCEPT ![t] = [x EXCEPT !.pc =
                         IF (IF Sweeping(t) THEN "auto" ELSE x.via) = "abort" THEN "settle" ELSE "get"]]
    BY <1>1, <1>4 DEF Update, Updatable
  <2>6. CASE /\ status' = [status EXCEPT ![x.cur] = x.verdict]
             /\ thr' = [thr EXCEPT ![t] = [x EXCEPT !.pc =
                           IF (IF Sweeping(t) THEN "auto" ELSE x.via) = "abort" THEN "settle" ELSE "get"]]
    <3>1. CASE x.via = "abort" /\ x.cur = x.own
      BY <1>1, <2>3, <2>6, <3>1 DEF Sweeping
    <3>2. CASE ~(x.via = "abort" /\ x.cur = x.own)
      <4>1. thr' = [thr EXCEPT ![t] = [x EXCEPT !.pc = "get"]]
        BY <1>1, <2>6, <3>2 DEF Sweeping
      <4> QED
        BY <2>3, <2>6, <3>2, <4>1
    <3> QED
      BY <3>1, <3>2
  <2> QED
    BY <2>2, <2>4, <2>5, <2>6
<1>5. ASSUME NEW p \in {"settle", "run", "notify"}, NEW e \in BOOLEAN, x.pc \in {"get", "settle"},
             p = "run" => x.via # "abort",
             thr' = [thr EXCEPT ![t] = [x EXCEPT !.pc = p, !.err = e]]
      PROVE  CallsOK'
  <2>1. PICK y : y = [x EXCEPT !.pc = p, !.err = e]
    OBVIOUS
  <2>2. /\ y.pc = p /\ y.own = x.own /\ y.cur = x.cur /\ y.via = x.via /\ y.rule = x.rule
        /\ y.verdict = x.verdict /\ y.queue = x.queue /\ y.listed = x.listed
    BY <1>2, <2>1 DEF Thread
  <2>3. KindOK(y) /\ (PastOwn(y) => PastOwn(x)) /\ (BeforeSweep(y) => BeforeSweep(x))
    BY <1>2, <1>5, <2>2 DEF KindOK, PastOwn, BeforeSweep, Applied
  <2> QED
    BY <1>1, <1>2, <1>5, <2>1, <2>2, <2>3, CallsGoOn
<1>6. CASE Get(t)
  <2>1. x.pc = "get"
    BY <1>1, <1>6 DEF Get
  <2>2. CASE thr' = [thr EXCEPT ![t] = Return(t)] /\ x.cur = x.own
    BY <1>1, <1>2, <2>1, <2>2, CallsReturn DEF SweepOK, BeforeSweep, Applied
  <2>3. \/ thr' = [thr EXCEPT ![t] = [x EXCEPT !.pc = "settle", !.err = x.err]]
        \/ thr' = [thr EXCEPT ![t] = [x EXCEPT !.pc = "notify", !.err = (x.verdict = "approved")]]
        \/ thr' = [thr EXCEPT ![t] = Return(t)] /\ x.cur = x.own
    <3>1. [x EXCEPT !.pc = "settle"] = [x EXCEPT !.pc = "settle", !.err = x.err]
      BY <1>2 DEF Thread
    <3> QED
      BY <1>1, <1>6, <3>1 DEF Get, Sweeping
  <2>4. x.err \in BOOLEAN /\ (x.verdict = "approved") \in BOOLEAN
    BY <1>2 DEF Thread
  <2>5. CASE thr' = [thr EXCEPT ![t] = [x EXCEPT !.pc = "settle", !.err = x.err]]
    BY <1>5, <2>1, <2>4, <2>5
  <2>6. CASE thr' = [thr EXCEPT ![t] = [x EXCEPT !.pc = "notify", !.err = (x.verdict = "approved")]]
    BY <1>5, <2>1, <2>4, <2>6
  <2> QED
    BY <2>2, <2>3, <2>5, <2>6
<1>7. ASSUME NEW e \in BOOLEAN, thr' = [thr EXCEPT ![t] = AfterAction(t, e)], x.pc \in {"settle", "run"},
             status[x.cur] = "approved", status' = status
      PROVE  CallsOK'
  <2>1. PICK y : y = AfterAction(t, e)
    OBVIOUS
  <2>2. /\ y.pc = "store" => x.via = "callback" /\ x.cur = x.own /\ x.rule # NoRule
        /\ y.pc \in {"store", "notify"} /\ y.own = x.own /\ y.cur = x.cur /\ y.via = x.via
        /\ y.rule = x.rule /\ y.verdict = x.verdict /\ y.queue = x.queue /\ y.listed = x.listed
    BY <1>1, <1>2, <2>1 DEF AfterAction, Sweeping, Thread
  <2>3. KindOK(y)
    BY <1>2, <1>7, <2>2 DEF KindOK, PastOwn, Applied, VerdictOK
  <2>4. PastOwn(y) => PastOwn(x) \/ x.own = x.cur
    BY <2>2, <1>7 DEF PastOwn, Applied
  <2>5. BeforeSweep(y) => BeforeSweep(x) \/ x.queue = {}
    BY <2>2, <1>7, <1>2 DEF BeforeSweep, Applied, SweepOK
  <2>6. PastOwn(y) => PastOwn(x) \/ status'[y.own] \in Decided
    BY <1>7, <2>2, <2>4 DEF Decided
  <2>7. thr' = [thr EXCEPT ![t] = y] /\ x.pc # "update"
    BY <1>7, <2>1
  <2> QED
    BY <1>1, <2>2, <2>3, <2>5, <2>6, <2>7, CallsGoOn
<1>8. CASE Settle(t)
  <2>1. x.pc = "settle" /\ status' = status
    BY <1>1, <1>8 DEF Settle, rowVars
  <2>2. status[x.cur] = "approved" => x.via # "abort"
    BY <1>2, <2>1 DEF KindOK, VerdictOK, Applied
  <2>3. \/ thr' = [thr EXCEPT ![t] = [x EXCEPT !.pc = "run", !.err = x.err]] /\ x.via # "abort"
        \/ thr' = [thr EXCEPT ![t] = [x EXCEPT !.pc = "notify", !.err = x.err]]
        \/ thr' = [thr EXCEPT ![t] = AfterAction(t, FALSE)] /\ status[x.cur] = "approved"
    <3>1. \A p : [x EXCEPT !.pc = p] = [x EXCEPT !.pc = p, !.err = x.err]
      BY <1>2 DEF Thread
    <3> QED
      BY <1>1, <1>8, <2>2, <3>1 DEF Settle
  <2>4. x.err \in BOOLEAN
    BY <1>2 DEF Thread
  <2>5. CASE thr' = [thr EXCEPT ![t] = [x EXCEPT !.pc = "run", !.err = x.err]] /\ x.via # "abort"
    BY <1>5, <2>1, <2>4, <2>5
  <2>6. CASE thr' = [thr EXCEPT ![t] = [x EXCEPT !.pc = "notify", !.err = x.err]]
    BY <1>5, <2>1, <2>4, <2>6
  <2> QED
    BY <1>7, <2>1, <2>3, <2>5, <2>6
<1>9. CASE RunAction(t)
  <2>1. x.pc = "run" /\ x.cur \in Requests /\ status' = status
    BY <1>1, <1>2, <1>9 DEF RunAction, WellFormed, rowVars
  <2>2. status[x.cur] = "approved"
    BY <1>1, <2>1 DEF ActionInv, RunnersHoldApproved, Running
  <2>3. PICK e \in BOOLEAN : thr' = [thr EXCEPT ![t] = AfterAction(t, e)]
    BY <1>9 DEF RunAction
  <2> QED
    BY <1>7, <2>1, <2>2, <2>3
<1>10. CASE StoreRule(t)
  <2>1. x.pc = "store"
    BY <1>1, <1>10 DEF StoreRule
  <2>2. PICK y : y = [x EXCEPT !.pc = "list", !.todo = {x.rule.tool}]
    OBVIOUS
  <2>3. thr' = [thr EXCEPT ![t] = y] \/ thr' = [thr EXCEPT ![t] = EndOfSweep(t)]
    BY <1>1, <1>10, <2>2 DEF StoreRule
  <2>4. KindOK(y) /\ PastOwn(x) /\ BeforeSweep(x)
    BY <1>2, <2>1, <2>2 DEF KindOK, PastOwn, BeforeSweep, Applied, Thread
  <2>5. y.own = x.own /\ y.queue = x.queue /\ y.listed = x.listed
    BY <1>2, <2>2 DEF Thread
  <2> QED
    BY <1>1, <2>1, <2>3, <2>4, <2>5, CallsEnd, CallsGoOn
<1>11. CASE List(t)
  <2> DEFINE found(k) == {r \in Requests : Matches(r, k)}
             scan(k) == [x EXCEPT !.pc = "next", !.todo = @ \ {k}, !.queue = found(k),
                                  !.listed = @ \union found(k)]
             skip(k) == [x EXCEPT !.todo = @ \ {k}]
  <2>1. x.pc = "list" /\ PastOwn(x) /\ BeforeSweep(x) /\ status' = status
    BY <1>1, <1>11 DEF List, PastOwn, BeforeSweep, Applied, rowVars
  <2>2. \/ thr' = [thr EXCEPT ![t] = EndOfSweep(t)]
        \/ \E k : thr' = [thr EXCEPT ![t] = scan(k)] \/ thr' = [thr EXCEPT ![t] = skip(k)]
    BY <1>1, <1>11 DEF List
  <2>3. ASSUME NEW k, thr' = [thr EXCEPT ![t] = skip(k)] PROVE CallsOK'
    <3>1. PICK y : y = skip(k)
      OBVIOUS
    <3>2. KindOK(y) /\ y.own = x.own /\ y.queue = x.queue /\ y.listed = x.listed
      BY <1>2, <2>1, <3>1 DEF KindOK, PastOwn, Applied, Thread
    <3> QED
      BY <1>1, <2>1, <2>3, <3>1, <3>2, CallsGoOn
  <2>4. ASSUME NEW k, thr' = [thr EXCEPT ![t] = scan(k)] PROVE CallsOK'
    <3>1. PICK y : y = scan(k)
      OBVIOUS
    <3>2. /\ KindOK(y) /\ y.own = x.own /\ y.pc = "next"
          /\ y.queue = found(k) /\ y.listed = x.listed \union found(k)
      BY <1>2, <2>1, <3>1 DEF KindOK, PastOwn, Applied, Thread
    <3>3. \A r \in x.listed : status[r] # "absent" /\ (faults' = 0 => status[r] # "pending")
      BY <1>2, <2>1 DEF SweepOK, Moves
    <3>4. \A r \in y.listed : /\ status'[r] # "absent"
                              /\ faults' = 0 /\ status'[r] = "pending" => r \in y.queue
      BY <2>1, <3>2, <3>3 DEF Matches
    <3>5. y.own \in Requests => status'[y.own] \in Decided
      BY <1>2, <2>1, <3>2 DEF SweepOK
    <3>6. y.own \notin y.queue
      BY <2>1, <3>2, <3>5 DEF Matches, Decided
    <3>7. SweepOK(y)'
      BY <3>2, <3>4, <3>5, <3>6 DEF SweepOK, BeforeSweep
    <3> QED
      BY <2>4, <3>1, <3>2, <3>7, CallsStay
  <2> HIDE DEF scan, skip
  <2> QED
    BY <1>1, <2>1, <2>2, <2>3, <2>4, CallsEnd
<1>12. CASE SweepNext(t)
  <2> DEFINE take(r) == [x EXCEPT !.pc = "update", !.queue = @ \ {r}, !.cur = r,
                                  !.verdict = "approved", !.err = FALSE]
  <2>1. x.pc = "next" /\ PastOwn(x) /\ status' = status
    BY <1>1, <1>12 DEF SweepNext, PastOwn, rowVars
  <2>2. \/ thr' = [thr EXCEPT ![t] = [x EXCEPT !.pc = "list"]] /\ x.queue = {}
        \/ \E r \in x.queue : thr' = [thr EXCEPT ![t] = take(r)]
    BY <1>1, <1>12 DEF SweepNext
  <2>3. CASE thr' = [thr EXCEPT ![t] = [x EXCEPT !.pc = "list"]] /\ x.queue = {}
    <3>1. PICK y : y = [x EXCEPT !.pc = "list"]
      OBVIOUS
    <3>2. KindOK(y) /\ y.own = x.own /\ y.queue = x.queue /\ y.listed = x.listed
      BY <1>2, <2>1, <3>1 DEF KindOK, PastOwn, Applied, Thread
    <3> QED
      BY <1>1, <2>1, <2>3, <3>1, <3>2, CallsGoOn
  <2>4. ASSUME NEW r \in x.queue, thr' = [thr EXCEPT ![t] = take(r)] PROVE CallsOK'
    <3>1. PICK y : y = take(r)
      OBVIOUS
    <3>2. /\ y.own = x.own /\ y.pc = "update" /\ y.cur = r /\ y.via = x.via /\ y.rule = x.rule
          /\ y.verdict = "approved" /\ y.queue = x.queue \ {r} /\ y.listed = x.listed
      BY <1>2, <3>1 DEF Thread
    <3>3. r \in Requests /\ r # x.own
      BY <1>2, <2>4 DEF SweepOK, Thread
    <3>4. KindOK(y) /\ PastOwn(y) /\ ~BeforeSweep(y)
      BY <1>2, <2>1, <3>2, <3>3 DEF KindOK, PastOwn, BeforeSweep, Applied
    <3>5. \A q \in y.listed : /\ status'[q] # "absent"
                              /\ faults' = 0 /\ status'[q] = "pending" => q \in y.queue \/ y.cur = q
      BY <1>2, <2>1, <3>2 DEF SweepOK, Moves
    <3>6. SweepOK(y)'
      BY <1>2, <2>1, <3>2, <3>4, <3>5 DEF SweepOK
    <3> QED
      BY <2>4, <3>1, <3>4, <3>6, CallsStay
  <2> HIDE DEF take
  <2> QED
    BY <2>2, <2>3, <2>4
<1>13. CASE Notify(t)
  <2>1. x.pc = "notify" /\ status' = status
    BY <1>1, <1>13 DEF Notify, rowVars
  <2>2. CASE thr' = [thr EXCEPT ![t] = Return(t)] /\ x.cur = x.own
    BY <1>1, <1>2, <2>1, <2>2, CallsReturn DEF SweepOK, BeforeSweep, Applied
  <2>3. ASSUME NEW p \in {"next", "store"}, thr' = [thr EXCEPT ![t] = [x EXCEPT !.pc = p]],
               p = "next" => x.cur # x.own,
               p = "store" => x.cur = x.own /\ x.via = "resolve" /\ x.rule # NoRule
        PROVE  CallsOK'
    <3>1. PICK y : y = [x EXCEPT !.pc = p]
      OBVIOUS
    <3>2. /\ y.pc = p /\ y.own = x.own /\ y.cur = x.cur /\ y.via = x.via
          /\ y.rule = x.rule /\ y.verdict = x.verdict /\ y.queue = x.queue /\ y.listed = x.listed
      BY <1>2, <3>1 DEF Thread
    <3>3. KindOK(y)
      BY <1>2, <2>1, <2>3, <3>2 DEF KindOK, PastOwn, Applied
    <3>4. BeforeSweep(y) => BeforeSweep(x)
      BY <2>1, <2>3, <3>2 DEF BeforeSweep, Applied
    <3>5. PastOwn(y) => PastOwn(x) \/ x.own = x.cur
      BY <2>1, <2>3, <3>2 DEF PastOwn, Applied
    <3>6. x.own = x.cur => status'[x.own] \in Decided
      BY <1>2, <2>1 DEF VerdictOK, KindOK, WellFormed, Applied
    <3> QED
      BY <1>1, <2>1, <2>3, <3>1, <3>2, <3>3, <3>4, <3>5, <3>6, CallsGoOn
  <2>4. \/ thr' = [thr EXCEPT ![t] = Return(t)] /\ x.cur = x.own
        \/ thr' = [thr EXCEPT ![t] = [x EXCEPT !.pc = "next"]] /\ x.cur # x.own
        \/ thr' = [thr EXCEPT ![t] = [x EXCEPT !.pc = "store"]]
              /\ x.cur = x.own /\ x.via = "resolve" /\ x.rule # NoRule
    BY <1>1, <1>13 DEF Notify, Sweeping
  <2> QED
    BY <2>2, <2>3, <2>4
<1> QED
  BY <1>3, <1>4, <1>6, <1>8, <1>9, <1>10, <1>11, <1>12, <1>13 DEF Work

LEMMA CallsStep == TInv /\ ActionInv /\ AnswerInv /\ CallsOK /\ [Next]_vars => CallsOK'
<1> SUFFICES ASSUME TInv, ActionInv, AnswerInv, CallsOK, [Next]_vars PROVE CallsOK'
  OBVIOUS
<1>1. ASSUME UNCHANGED <<thr, status, faults>> PROVE CallsOK'
  BY <1>1 DEF CallsOK, KindOK, SweepOK, PastOwn, BeforeSweep
<1>2. CASE UNCHANGED vars
  BY <1>1, <1>2 DEF vars
<1>3. CASE Next
  <2>1. Moves
    BY <1>3, RowsMove
  <2>2. ASSUME thr' = thr PROVE CallsOK'
    <3>1. SUFFICES ASSUME NEW u \in Threads PROVE (KindOK(thr[u]) /\ SweepOK(thr[u]))'
      BY DEF CallsOK
    <3>2. PICK z : z = thr[u]
      OBVIOUS
    <3>3. z \in Thread /\ KindOK(z) /\ SweepOK(z)
      BY <3>2 DEF CallsOK, TInv, TypeOK
    <3>4. SweepOK(z)'
      BY <2>1, <3>3, SweepStays
    <3>5. z = thr'[u]
      BY <2>2, <3>2
    <3> QED
      BY <3>3, <3>4, <3>5 DEF KindOK, SweepOK, PastOwn, BeforeSweep
  <2>3. ASSUME NEW r \in Requests, Submitter(r) \/ GiveUp(r) PROVE thr' = thr
    BY <2>3 DEF Submitter, Consult, EnrollFirst, CreateRow, RegisterClosure, EnrollAfter, Receive,
                GiveUp, StopWaiting
  <2>4. CASE Restart
    <3>1. \A t \in Threads : thr'[t] = IdleThread
      BY <2>4 DEF Restart
    <3>2. \A t \in Threads : (KindOK(thr[t]) /\ SweepOK(thr[t]))'
      BY <3>1, RequestsAssumption DEF KindOK, SweepOK, PastOwn, BeforeSweep, IdleThread, Applied
    <3> QED
      BY <3>2 DEF CallsOK
  <2>5. CASE ExpireBefore \/ DropSessionRules \/ RemoveAutoApproveRule
    BY <2>2, <2>5 DEF ExpireBefore, DropSessionRules, RemoveAutoApproveRule
  <2> QED
    BY <1>3, <2>1, <2>2, <2>3, <2>4, <2>5, CallsBegin, CallsWork DEF Next
<1> QED
  BY <1>2, <1>3

LEMMA CallsAlways == Spec => [](TInv /\ ActionInv /\ AnswerInv /\ CallsOK)
<1>1. Init => CallsOK
  BY CallsInit
<1>2. TInv /\ ActionInv /\ AnswerInv /\ CallsOK /\ [Next]_vars => CallsOK'
  BY CallsStep
<1> QED
  BY <1>1, <1>2, AnswerAlways, PTL DEF Spec

(* When a call has returned, each row its sweep listed has been decided,   *)
(* whoever decided it, if no store call failed: an error on one row does   *)
(* not end the sweep (autoResolvePending).                                 *)
THEOREM SweepsFinish == Spec => []SweepLeavesNothingQueued
<1>1. CallsOK => SweepLeavesNothingQueued
  BY DEF CallsOK, SweepOK, BeforeSweep, Applied, SweepLeavesNothingQueued
<1> QED
  BY <1>1, CallsAlways, PTL

-----------------------------------------------------------------------------
(* What became of a decision.                                              *)

(* A goroutine's record x has row r in hand: it acts on the decision, or   *)
(* tells the waiter, or, a callback past its own row, still has to.        *)
Acting(x, r)  == x.cur = r /\ x.pc \in {"get", "settle", "run"}
Telling(x, r) == x.cur = r /\ x.pc = "notify"
Keeping(x, r) == x.own = r /\ x.via = "callback" /\ PastOwn(x)
Holds(x, r)   == Acting(x, r) \/ Telling(x, r) \/ Keeping(x, r)

(* It has nothing but a clean approval to report.                          *)
Clean(x) == x.verdict = "approved" /\ ~x.err

(* The rule that a callback made for row r is there.                       *)
Remembered(r) == <<ConvOf[r], ToolOf[r]>> \in sessionRules \/ ToolOf[r] \in permRules

(* While row r is in x's hands nobody has been told of it, its action has  *)
(* not failed unless x says so, and x is the callback whose rule it names. *)
HandOK(x, r) ==
    /\ chan[r].status \notin Terminal /\ told[r].status \notin Decided
    /\ by[r].via = "callback" => x.own = r /\ x.via = "callback" /\ x.rule = by[r].rule
    /\ Acting(x, r) => audits[r] = <<>>
    /\ Acting(x, r) \/ Keeping(x, r) \/ Clean(x) => r \notin failed
    /\ /\ faults = 0 /\ ends = 0 /\ x.own = r /\ x.via = "callback" /\ x.rule # NoRule
       /\ (Keeping(x, r) /\ x.pc # "store") \/ (Telling(x, r) /\ Clean(x))
       => Remembered(r)

HeldOnce(r) == \A t, u \in Threads : Holds(thr[t], r) /\ Holds(thr[u], r) => t = u
HandsOK(r)  == \A t \in Threads : Holds(thr[t], r) => HandOK(thr[t], r)

Answered(r) == \A answer \in {chan[r], told[r]} :
    /\ answer.status \in Decided /\ status[r] # "absent" => answer.status = status[r]
    /\ answer.status = "approved" /\ ~answer.err =>
          /\ r \notin failed
          /\ by[r].via = "callback" /\ by[r].rule # NoRule /\ faults = 0 /\ ends = 0 => Remembered(r)

Audited(r) ==
    /\ status[r] \in {"absent", "pending"} => audits[r] = <<>>
    /\ r \in failed => status[r] = "approved"
    /\ Len(audits[r]) <= 1
    /\ \A i \in DOMAIN audits[r] : AuditSays(r, audits[r][i])
    /\ faults = 0 /\ status[r] \in Decided /\ audits[r] = <<>> => \E t \in Threads : Acting(thr[t], r)

Woken(r) ==
    faults = 0 /\ sub[r] \in {"creating", "blocked"} /\ status[r] \in Decided /\ chan[r] = EmptyCh
       => \E t \in Threads : Holds(thr[t], r)

ReportOK(r) == HeldOnce(r) /\ HandsOK(r) /\ Answered(r) /\ Audited(r) /\ Woken(r)
ReportInv   == \A r \in Requests : ReportOK(r)

BaseInv == TInv /\ ActionInv /\ AnswerInv /\ CallsOK

(* Only a decided row is in anyone's hands.                                *)
LEMMA HeldDecided ==
    ASSUME BaseInv, NEW t \in Threads, NEW r \in Requests, Holds(thr[t], r)
    PROVE  status[r] \in Decided
<1>1. WellFormed(thr[t]) /\ SweepOK(thr[t]) /\ VerdictOK(thr[t], status)
  BY DEF BaseInv, TInv, ThreadsOK, CallsOK, AnswerInv, VerdictsApplied
<1>2. CASE Acting(thr[t], r) \/ Telling(thr[t], r)
  BY <1>1, <1>2 DEF Acting, Telling, VerdictOK, Applied, WellFormed
<1>3. CASE Keeping(thr[t], r)
  BY <1>1, <1>3 DEF Keeping, SweepOK
<1> QED
  BY <1>2, <1>3 DEF Holds

(* What a step leaves alone of row r, and of the rules.                    *)
SameRow(r) ==
    /\ status'[r] = status[r] /\ by'[r] = by[r] /\ chan'[r] = chan[r] /\ told'[r] = told[r]
    /\ audits'[r] = audits[r] /\ sub'[r] = sub[r] /\ (r \in failed' => r \in failed)

Lasting(r) ==
    /\ faults' = 0 => faults = 0
    /\ ends' = 0 => ends = 0
    /\ Remembered(r) => faults' # 0 \/ ends' # 0 \/ Remembered(r)'

LEMMA HandStays ==
    ASSUME NEW r, NEW x, HandOK(x, r), SameRow(r), Lasting(r)
    PROVE  HandOK(x, r)'
BY DEF HandOK, SameRow, Lasting, Acting, Keeping, Telling, Clean, PastOwn

LEMMA AnsweredStays ==
    ASSUME NEW r, Answered(r), SameRow(r), Lasting(r)
    PROVE  Answered(r)'
BY DEF Answered, SameRow, Lasting

LEMMA AuditedStays ==
    ASSUME TInv, NEW r \in Requests, Audited(r), SameRow(r), Lasting(r),
           \A t \in Threads : faults' = 0 /\ Acting(thr[t], r) => Acting(thr[t], r)'
    PROVE  Audited(r)'
<1>1. \A i \in DOMAIN audits[r] : audits[r][i] \in Events
  BY DEF TInv, TypeOK
<1>2. \A e \in Events : AuditSays(r, e) => AuditSays(r, e)'
  BY DEF Events, AuditSays, SameRow
<1> QED
  BY <1>1, <1>2 DEF Audited, SameRow, Lasting

(* A goroutine that goes on from x to y with row r as it had it.           *)
GoesOn(x, y, r) ==
    /\ y.own = x.own /\ y.via = x.via /\ y.rule = x.rule
    /\ Acting(y, r) <=> Acting(x, r)
    /\ Telling(y, r) <=> Telling(x, r)
    /\ Telling(y, r) => y.verdict = x.verdict /\ y.err = x.err
    /\ Keeping(y, r) <=> Keeping(x, r)
    /\ Keeping(y, r) => (x.pc = "store" <=> y.pc = "store")

LEMMA HandGoesOn ==
    ASSUME NEW r, NEW x, NEW y, GoesOn(x, y, r), Holds(y, r), HandOK(x, r)
    PROVE  HandOK(y, r)
BY DEF GoesOn, HandOK, Holds, Clean

(* A step of thread t keeps what is said of row r, if it says of its own   *)
(* hand what it should and takes the row out of no hand unseen.            *)
LEMMA ReportMoves ==
    ASSUME TInv, NEW r \in Requests, ReportOK(r), NEW t \in Threads, NEW x, x = thr[t],
           NEW y, thr' = [thr EXCEPT ![t] = y], SameRow(r), Lasting(r),
           Holds(y, r) => Holds(x, r) /\ HandOK(y, r)',
           faults' = 0 => (Acting(x, r) => Acting(y, r)) /\ (Holds(x, r) => Holds(y, r))
    PROVE  ReportOK(r)'
<1> USE DEF TInv, TypeOK
<1>1. thr'[t] = y /\ \A u \in Threads \ {t} : thr'[u] = thr[u]
  OBVIOUS
<1>2. \A u \in Threads : \A z : z = thr'[u] => (Holds(thr[u], r)' <=> Holds(z, r)) /\ (Acting(thr[u], r)' <=> Acting(z, r))
  BY DEF Holds, Acting, Telling, Keeping, PastOwn
<1>3. \A u \in Threads : Holds(thr[u], r)' => Holds(thr[u], r)
  BY <1>1, <1>2
<1>4. HeldOnce(r)'
  BY <1>3 DEF ReportOK, HeldOnce
<1>5. HandsOK(r)'
  <2>1. SUFFICES ASSUME NEW u \in Threads, Holds(thr[u], r)' PROVE HandOK(thr[u], r)'
    BY DEF HandsOK
  <2>2. PICK z : z = thr'[u]
    OBVIOUS
  <2>3. HandOK(z, r)'
    <3>1. CASE u = t
      BY <1>1, <1>2, <2>1, <2>2, <3>1
    <3>2. CASE u # t
      <4>1. z = thr[u] /\ HandOK(z, r)
        BY <1>1, <1>3, <2>1, <2>2, <3>2 DEF ReportOK, HandsOK
      <4> QED
        BY <4>1, HandStays
    <3> QED
      BY <3>1, <3>2
  <2> QED
    BY <2>2, <2>3 DEF HandOK, Acting, Telling, Keeping, PastOwn, Clean
<1>6. Answered(r)'
  BY AnsweredStays DEF ReportOK
<1>7. Audited(r)'
  <2>1. \A u \in Threads : faults' = 0 /\ Acting(thr[u], r) => Acting(thr[u], r)'
    BY <1>1, <1>2
  <2> QED
    BY <2>1, AuditedStays DEF ReportOK
<1>8. Woken(r)'
  <2>1. \A u \in Threads : faults' = 0 /\ Holds(thr[u], r) => Holds(thr[u], r)'
    BY <1>1, <1>2
  <2> QED
    BY <2>1 DEF ReportOK, Woken, SameRow, Lasting
<1> QED
  BY <1>4, <1>5, <1>6, <1>7, <1>8 DEF ReportOK

(* The steps that change nothing of row r: its hand goes on, or had none.  *)
LEMMA ReportStays ==
    ASSUME TInv, NEW r \in Requests, ReportOK(r), NEW t \in Threads, NEW x, x = thr[t],
           NEW y, thr' = [thr EXCEPT ![t] = y], SameRow(r), Lasting(r),
           GoesOn(x, y, r) \/ (~Holds(y, r) /\ (faults' = 0 => ~Holds(x, r)))
    PROVE  ReportOK(r)'
<1>1. CASE GoesOn(x, y, r)
  <2>1. Holds(y, r) <=> Holds(x, r)
    BY <1>1 DEF GoesOn, Holds
  <2>2. Holds(x, r) => HandOK(x, r)
    BY DEF ReportOK, HandsOK
  <2>3. Holds(y, r) => HandOK(y, r)'
    BY <1>1, <2>1, <2>2, HandGoesOn, HandStays
  <2>4. Acting(x, r) => Acting(y, r)
    BY <1>1 DEF GoesOn
  <2> QED
    BY <2>1, <2>3, <2>4, ReportMoves
<1>2. CASE ~Holds(y, r) /\ (faults' = 0 => ~Holds(x, r))
  BY <1>2, ReportMoves DEF Holds
<1> QED
  BY <1>1, <1>2


-----------------------------------------------------------------------------
(* The submitter's steps and the world's.                                  *)

(* A step of no deciding goroutine, on a row in nobody's hands.            *)
LEMMA ReportFree ==
    ASSUME NEW r \in Requests, \A t \in Threads : ~Holds(thr'[t], r),
           Answered(r)', Audited(r)', Woken(r)'
    PROVE  ReportOK(r)'
<1>1. \A t \in Threads : ~Holds(thr[t], r)'
  BY DEF Holds, Acting, Telling, Keeping, PastOwn
<1> QED
  BY <1>1 DEF ReportOK, HeldOnce, HandsOK

(* A step of no deciding goroutine that leaves the row as it is.           *)
LEMMA ReportSame ==
    ASSUME TInv, NEW r \in Requests, ReportOK(r), thr' = thr, SameRow(r), Lasting(r)
    PROVE  ReportOK(r)'
<1>1. HandsOK(r)'
  <2>1. SUFFICES ASSUME NEW u \in Threads, Holds(thr[u], r)' PROVE HandOK(thr[u], r)'
    BY DEF HandsOK
  <2>2. PICK z : z = thr[u]
    OBVIOUS
  <2>3. HandOK(z, r)
    BY <2>1, <2>2 DEF ReportOK, HandsOK, Holds, Acting, Telling, Keeping, PastOwn
  <2>4. HandOK(z, r)'
    BY <2>3, HandStays
  <2> QED
    BY <2>2, <2>4 DEF HandOK, Acting, Telling, Keeping, PastOwn, Clean
<1>2. HeldOnce(r)'
  BY DEF ReportOK, HeldOnce, Holds, Acting, Telling, Keeping, PastOwn
<1>3. Answered(r)'
  BY AnsweredStays DEF ReportOK
<1>4. Audited(r)'
  <2>1. \A u \in Threads : faults' = 0 /\ Acting(thr[u], r) => Acting(thr[u], r)'
    BY DEF Acting
  <2> QED
    BY <2>1, AuditedStays DEF ReportOK
<1>5. Woken(r)'
  <2>1. \A u \in Threads : faults' = 0 /\ Holds(thr[u], r) => Holds(thr[u], r)'
    BY DEF Holds, Acting, Telling, Keeping, PastOwn
  <2> QED
    BY <2>1 DEF ReportOK, Woken, SameRow, Lasting
<1> QED
  BY <1>1, <1>2, <1>3, <1>4, <1>5 DEF ReportOK

LEMMA ReportSubmitter ==
    ASSUME BaseInv, NEW r \in Requests, ReportOK(r), NEW q \in Requests, Submitter(q) \/ GiveUp(q)
    PROVE  ReportOK(r)'
<1> USE DEF BaseInv, TInv, TypeOK
<1>1. /\ thr' = thr /\ by' = by /\ audits' = audits /\ failed' = failed
      /\ sessionRules' = sessionRules /\ permRules' = permRules
  BY DEF Submitter, Consult, EnrollFirst, CreateRow, RegisterClosure, EnrollAfter, Receive,
         GiveUp, StopWaiting, rowVars, ruleVars, runVars
<1>2. Lasting(r)
  <2>1. (faults' = 0 => faults = 0) /\ (ends' = 0 => ends = 0)
    BY DEF Submitter, Consult, EnrollFirst, CreateRow, RegisterClosure, EnrollAfter, Receive,
           GiveUp, StopWaiting, Fail, End
  <2>2. Remembered(r)' <=> Remembered(r)
    BY <1>1 DEF Remembered
  <2> QED
    BY <2>1, <2>2 DEF Lasting
<1>3. CASE r # q
  <2>1. SameRow(r)
    BY <1>1, <1>3 DEF SameRow, Submitter, Consult, EnrollFirst, CreateRow, RegisterClosure, EnrollAfter,
           Receive, GiveUp, StopWaiting, rowVars
  <2> QED
    BY <1>1, <1>2, <2>1, ReportSame
<1>4. CASE r = q
  <2>1. CASE sub[r] \in {"new", "checked", "enrolled"}
    <3>1. /\ status[r] = "absent" /\ told[r].status = "none" /\ chan[r].status \notin Terminal
          /\ audits[r] = <<>> /\ r \notin failed
      BY <2>1 DEF ActionInv, RowsFollowSubmit, AnswerInv, ReportOK, Audited, Terminal, Decided
    <3>2. \A t \in Threads : ~Holds(thr[t], r)
      BY <3>1, HeldDecided DEF Decided
    <3>3. /\ status'[r] \in {"absent", "pending"} /\ chan'[r] \in {chan[r], EmptyCh, NoChan}
          /\ told'[r] \in {told[r], [status |-> "auto", err |-> FALSE], [status |-> "denied", err |-> TRUE]}
          /\ status'[r] # "absent" => told'[r] = told[r]
      BY <1>4, <2>1, <3>1 DEF Submitter, Consult, EnrollFirst, CreateRow, RegisterClosure, EnrollAfter,
           Receive, GiveUp, StopWaiting, rowVars, subVars
    <3>4. Answered(r)'
      BY <3>1, <3>3 DEF Answered, EmptyCh, NoChan, Terminal, Decided
    <3>5. Audited(r)' /\ Woken(r)'
      BY <1>1, <3>1, <3>3 DEF Audited, Woken, Decided
    <3> QED
      BY <1>1, <3>2, <3>4, <3>5, ReportFree
  <2>2. CASE RegisterClosure(r)
    <3>1. status' = status /\ chan' = chan /\ told' = told /\ sub[r] = "creating"
      BY <2>2 DEF RegisterClosure, rowVars
    <3>2. HandsOK(r)' /\ HeldOnce(r)' /\ Answered(r)' /\ Audited(r)'
      <4>1. Remembered(r)' <=> Remembered(r)
        BY <1>1 DEF Remembered
      <4>2. faults' = faults /\ ends' = ends
        BY <2>2 DEF RegisterClosure
      <4>3. HeldOnce(r)' /\ HandsOK(r)'
        BY <1>1, <3>1, <4>1, <4>2 DEF ReportOK, HeldOnce, HandsOK, HandOK, Holds, Acting, Telling, Keeping, PastOwn, Clean
      <4>4. Answered(r)' /\ Audited(r)'
        BY <1>1, <3>1, <4>1, <4>2 DEF ReportOK, Answered, Audited, AuditSays, Acting
      <4> QED
        BY <4>3, <4>4
    <3>3. Woken(r)'
      <4>1. faults' = faults /\ \A t \in Threads : Holds(thr[t], r) => Holds(thr[t], r)'
        BY <1>1, <2>2 DEF RegisterClosure, Holds, Acting, Telling, Keeping, PastOwn
      <4> QED
        BY <3>1, <4>1 DEF ReportOK, Woken
    <3> QED
      BY <3>2, <3>3 DEF ReportOK
  <2>3. CASE EnrollAfter(r) \/ Receive(r) \/ GiveUp(r)
    <3>1. /\ status' = status /\ chan'[r] \in {EmptyCh, NoChan} /\ sub'[r] \in {"waiting", "done"}
          /\ \/ told'[r] \in {told[r], [status |-> "expired", err |-> FALSE]}
             \/ told'[r] = chan[r] /\ chan[r].status \in Terminal
      BY <2>3 DEF EnrollAfter, Receive, GiveUp, StopWaiting, rowVars
    <3>2. HandsOK(r)' /\ HeldOnce(r)'
      <4>1. SUFFICES ASSUME NEW t \in Threads, Holds(thr[t], r) PROVE HandOK(thr[t], r)'
        BY <1>1 DEF ReportOK, HeldOnce, HandsOK, Holds, Acting, Telling, Keeping, PastOwn
      <4>2. PICK z : z = thr[t]
        OBVIOUS
      <4>3. HandOK(z, r)
        BY <4>1, <4>2 DEF ReportOK, HandsOK
      <4>4. chan'[r].status \notin Terminal /\ told'[r].status \notin Decided
        BY <3>1, <4>3 DEF HandOK, EmptyCh, NoChan, Terminal, Decided
      <4>5. HandOK(z, r)'
        BY <1>1, <1>2, <4>3, <4>4 DEF HandOK, Lasting, Acting, Telling, Keeping, PastOwn, Clean
      <4> QED
        BY <1>1, <4>2, <4>5 DEF HandOK, Acting, Telling, Keeping, PastOwn, Clean
    <3>3. Answered(r)'
      BY <1>1, <1>2, <3>1 DEF ReportOK, Answered, Lasting, EmptyCh, NoChan, Terminal, Decided
    <3>4. Audited(r)'
      <4>1. \A e : AuditSays(r, e) <=> AuditSays(r, e)'
        BY <1>1, <3>1 DEF AuditSays
      <4> QED
        BY <1>1, <1>2, <3>1, <4>1 DEF ReportOK, Audited, Lasting, Acting
    <3>5. Woken(r)'
      BY <3>1 DEF Woken
    <3> QED
      BY <3>2, <3>3, <3>4, <3>5 DEF ReportOK
  <2> QED
    BY <1>4, <2>1, <2>2, <2>3 DEF Submitter, Consult, EnrollFirst, CreateRow
<1> QED
  BY <1>3, <1>4

LEMMA ReportWorld ==
    ASSUME BaseInv, NEW r \in Requests, ReportOK(r),
           ExpireBefore \/ DropSessionRules \/ RemoveAutoApproveRule \/ Restart
    PROVE  ReportOK(r)'
<1> USE DEF BaseInv, TInv, TypeOK
<1>1. told' = told /\ audits' = audits /\ failed' = failed
  BY DEF ExpireBefore, DropSessionRules, RemoveAutoApproveRule, Restart, subVars, runVars
<1>2. CASE (ExpireBefore \/ Restart) /\ status[r] = "pending"
  <2>1. status'[r] \in {"pending", "expired"} /\ chan'[r] \in {chan[r], NoChan}
    BY <1>2 DEF ExpireBefore, Restart, rowVars
  <2>2. told[r].status \notin Decided /\ chan[r].status \notin Terminal
    BY <1>2 DEF ReportOK, Answered, AnswerInv, Decided, Terminal
  <2>3. audits[r] = <<>> /\ r \notin failed
    BY <1>2 DEF ReportOK, Audited
  <2>4. \A t \in Threads : ~Holds(thr'[t], r)
    <3>1. \A t \in Threads : ~Holds(thr[t], r)
      BY <1>2, HeldDecided DEF Decided
    <3>2. ~Holds(IdleThread, r)
      BY DEF Holds, Acting, Telling, Keeping, PastOwn, IdleThread
    <3> QED
      BY <1>2, <3>1, <3>2 DEF ExpireBefore, Restart
  <2>5. Answered(r)' /\ Audited(r)' /\ Woken(r)'
    BY <1>1, <2>1, <2>2, <2>3 DEF Answered, Audited, Woken, NoChan, Terminal, Decided
  <2> QED
    BY <2>4, <2>5, ReportFree
<1>3. CASE Restart /\ status[r] # "pending"
  <2>1. status'[r] = status[r] /\ by'[r] = by[r] /\ chan'[r] = NoChan /\ faults' # 0
    BY <1>3 DEF Restart, rowVars, Fail
  <2>2. \A t \in Threads : ~Holds(thr'[t], r)
    BY <1>3 DEF Restart, Holds, Acting, Telling, Keeping, PastOwn, IdleThread
  <2>3. Answered(r)' /\ Woken(r)'
    BY <1>1, <2>1 DEF ReportOK, Answered, Woken, NoChan, Decided
  <2>4. Audited(r)'
    <3>1. \A e : AuditSays(r, e) <=> AuditSays(r, e)'
      BY <1>1, <2>1 DEF AuditSays
    <3> QED
      BY <1>1, <2>1, <3>1 DEF ReportOK, Audited
  <2> QED
    BY <2>2, <2>3, <2>4, ReportFree
<1>4. CASE DropSessionRules \/ RemoveAutoApproveRule \/ (ExpireBefore /\ status[r] # "pending")
  <2>1. SameRow(r) /\ thr' = thr
    BY <1>1, <1>4 DEF SameRow, ExpireBefore, DropSessionRules, RemoveAutoApproveRule, rowVars, subVars
  <2>2. ends' # 0 /\ faults' = faults
    BY <1>4 DEF ExpireBefore, DropSessionRules, RemoveAutoApproveRule, End
  <2> QED
    BY <2>1, <2>2, ReportSame DEF Lasting
<1> QED
  BY <1>2, <1>3, <1>4


-----------------------------------------------------------------------------
(* The steps of the deciding goroutines.                                   *)

LEMMA ReportBegin ==
    ASSUME BaseInv, NEW r \in Requests, ReportOK(r), NEW t \in Threads, Begin(t)
    PROVE  ReportOK(r)'
<1> USE DEF BaseInv, TInv, TypeOK
<1>1. SameRow(r) /\ Lasting(r)
  <2>1. UNCHANGED <<status, by, chan, told, audits, sub, failed, faults, ends, sessionRules, permRules>>
    BY DEF Begin, StartResolve, StartCallback, StartAbort, StartAddRule, SetConfigRules, Start,
           rowVars, subVars, ruleVars, runVars
  <2>2. Remembered(r) => Remembered(r)'
    BY <2>1 DEF Remembered
  <2> QED
    BY <2>1, <2>2 DEF SameRow, Lasting
<1>2. PICK x : x = thr[t]
  OBVIOUS
<1>3. x.pc = "idle"
  BY <1>2 DEF Begin, StartResolve, StartCallback, StartAbort, StartAddRule, SetConfigRules, Start
<1>4. ASSUME NEW y, thr' = [thr EXCEPT ![t] = y], ~Holds(y, r) PROVE ReportOK(r)'
  <2>1. ~Holds(x, r)
    BY <1>3 DEF Holds, Acting, Telling, Keeping, PastOwn, Applied
  <2> QED
    BY <1>1, <1>2, <1>4, <2>1, ReportStays
<1>5. CASE StartResolve(t)
  <2>1. PICK q \in Requests, v \in {"approved", "denied"}, s \in RuleScopes \union {"none"} :
          thr' = [thr EXCEPT ![t] = ResolveCall(q, v, s)]
    BY <1>5 DEF StartResolve, Start
  <2>2. PICK y : y = ResolveCall(q, v, s)
    OBVIOUS
  <2>3. ~Holds(y, r)
    BY <2>2 DEF ResolveCall, IdleThread, Holds, Acting, Telling, Keeping, PastOwn, Applied
  <2> QED
    BY <1>4, <2>1, <2>2, <2>3
<1>6. CASE StartCallback(t)
  <2>1. PICK q \in Requests, v \in {"approved", "denied"}, s \in RuleScopes \union {"none"} :
          thr' = [thr EXCEPT ![t] = [ResolveCall(q, v, s) EXCEPT !.pc = "select", !.via = "callback"]]
    BY <1>6 DEF StartCallback, Start
  <2>2. PICK y : y = [ResolveCall(q, v, s) EXCEPT !.pc = "select", !.via = "callback"]
    OBVIOUS
  <2>3. ~Holds(y, r)
    BY <2>2 DEF ResolveCall, IdleThread, Holds, Acting, Telling, Keeping, PastOwn, Applied
  <2> QED
    BY <1>4, <2>1, <2>2, <2>3
<1>7. CASE StartAbort(t)
  <2>1. PICK q \in Requests : thr' = [thr EXCEPT ![t] = AbortCall(q)]
    BY <1>7 DEF StartAbort, Start
  <2>2. PICK y : y = AbortCall(q)
    OBVIOUS
  <2>3. ~Holds(y, r)
    BY <2>2 DEF AbortCall, ResolveCall, IdleThread, Holds, Acting, Telling, Keeping, PastOwn, Applied
  <2> QED
    BY <1>4, <2>1, <2>2, <2>3
<1>8. CASE StartAddRule(t)
  <2>1. PICK s \in RuleScopes, c \in Convs, k \in Tools :
          thr' = [thr EXCEPT ![t] = [IdleThread EXCEPT !.pc = "store", !.via = "rule",
                                        !.rule = [scope |-> s, conv |-> c, tool |-> k]]]
    BY <1>8 DEF StartAddRule, Start
  <2>2. PICK y : y = [IdleThread EXCEPT !.pc = "store", !.via = "rule",
                                        !.rule = [scope |-> s, conv |-> c, tool |-> k]]
    OBVIOUS
  <2>3. ~Holds(y, r)
    BY <2>2 DEF IdleThread, Holds, Acting, Telling, Keeping, PastOwn, Applied
  <2> QED
    BY <1>4, <2>1, <2>2, <2>3
<1>9. CASE SetConfigRules(t)
  <2>1. PICK next \in SUBSET Tools :
          thr' = [thr EXCEPT ![t] = [IdleThread EXCEPT !.pc = "list", !.via = "rule",
                                        !.rule = [NoRule EXCEPT !.scope = "config"],
                                        !.todo = next \ configRules]]
    BY <1>9 DEF SetConfigRules
  <2>2. PICK y : y = [IdleThread EXCEPT !.pc = "list", !.via = "rule",
                                        !.rule = [NoRule EXCEPT !.scope = "config"],
                                        !.todo = next \ configRules]
    OBVIOUS
  <2>3. ~Holds(y, r)
    BY <2>2 DEF IdleThread, Holds, Acting, Telling, Keeping, PastOwn, Applied
  <2> QED
    BY <1>4, <2>1, <2>2, <2>3
<1> QED
  BY <1>5, <1>6, <1>7, <1>8, <1>9 DEF Begin

(* What a step of a call touches besides its own record.                   *)
LEMMA WorkFrame ==
    ASSUME BaseInv, NEW r \in Requests, NEW t \in Threads, Work(t)
    PROVE  Lasting(r) /\ (thr[t].cur # r => SameRow(r))
<1> USE DEF BaseInv, TInv, TypeOK, rowVars, subVars, ruleVars, runVars
<1>1. faults' = 0 => faults = 0
  <2>1. faults' = faults \/ Fail
    BY DEF Work, Select, Update, Get, Settle, RunAction, StoreRule, List, SweepNext, Notify
  <2>2. Fail => faults' # 0
    BY DEF Fail
  <2> QED
    BY <2>1, <2>2
<1>2. ends' = ends /\ sessionRules \subseteq sessionRules' /\ permRules \subseteq permRules'
  BY DEF Work, Select, Update, Get, Settle, RunAction, StoreRule, List, SweepNext, Notify
<1>3. Lasting(r)
  BY <1>1, <1>2 DEF Lasting, Remembered
<1>4. ASSUME thr[t].cur # r PROVE SameRow(r)
  <2>1. told' = told /\ sub' = sub
    BY DEF Work, Select, Update, Get, Settle, RunAction, StoreRule, List, SweepNext, Notify
  <2>2. status'[r] = status[r] /\ by'[r] = by[r]
    BY <1>4 DEF Work, Select, Update, Get, Settle, RunAction, StoreRule, List, SweepNext, Notify
  <2>3. chan'[r] = chan[r]
    BY <1>4 DEF Work, Select, Update, Get, Settle, RunAction, StoreRule, List, SweepNext, Notify, Send
  <2>4. audits'[r] = audits[r]
    BY <1>4 DEF Work, Select, Update, Get, Settle, RunAction, StoreRule, List, SweepNext, Notify, Audit
  <2>5. r \in failed' => r \in failed
    <3>1. failed' = failed \/ failed' = failed \union {thr[t].cur}
      <4>1. CASE RunAction(t)
        BY <4>1 DEF RunAction
      <4> QED
        BY <4>1 DEF Work, Select, Update, Get, Settle, StoreRule, List, SweepNext, Notify
    <3> QED
      BY <1>4, <3>1
  <2> QED
    BY <2>1, <2>2, <2>3, <2>4, <2>5 DEF SameRow
<1> QED
  BY <1>3, <1>4

(* Select, SweepNext and most of List touch no row and hand none over.     *)
LEMMA ReportSearch ==
    ASSUME BaseInv, NEW r \in Requests, ReportOK(r), NEW t \in Threads,
           Select(t) \/ SweepNext(t) \/ (List(t) /\ thr' # [thr EXCEPT ![t] = EndOfSweep(t)])
    PROVE  ReportOK(r)'
<1> USE DEF BaseInv, TInv, TypeOK, rowVars, subVars, ruleVars, runVars
<1>1. Lasting(r) /\ SameRow(r)
  <2>1. Lasting(r)
    BY WorkFrame DEF Work
  <2>2. SameRow(r)
    BY DEF Select, SweepNext, List, SameRow
  <2> QED
    BY <2>1, <2>2
<1>2. PICK x : x = thr[t]
  OBVIOUS
<1>3. x \in Thread /\ VerdictOK(x, status) /\ SweepOK(x)
  BY <1>2 DEF AnswerInv, VerdictsApplied, CallsOK
<1>4. CASE Select(t)
  <2>1. x.pc = "select" /\ x.cur = x.own /\ ~Holds(x, r)
    BY <1>2, <1>3, <1>4 DEF Select, VerdictOK, Holds, Acting, Telling, Keeping, PastOwn, Applied
  <2>2. PICK y : thr' = [thr EXCEPT ![t] = y] /\ (y = Return(t) \/ y = [x EXCEPT !.pc = "update"])
    BY <1>2, <1>4 DEF Select
  <2>3. ~Holds(y, r)
    BY <1>2, <1>3, <2>1, <2>2 DEF Return, IdleThread, Thread, Holds, Acting, Telling, Keeping, PastOwn, Applied
  <2> QED
    BY <1>1, <1>2, <2>1, <2>2, <2>3, ReportStays
<1>5. ASSUME NEW y, thr' = [thr EXCEPT ![t] = y], x.pc \in {"list", "next"},
             y.own = x.own /\ y.via = x.via /\ y.rule = x.rule,
             y.pc \in {"list", "next"} \/ (y.pc = "update" /\ y.cur # y.own)
      PROVE  ReportOK(r)'
  <2>1. GoesOn(x, y, r)
    BY <1>5 DEF GoesOn, Acting, Telling, Keeping, PastOwn, Applied
  <2> QED
    BY <1>1, <1>2, <1>5, <2>1, ReportStays
<1>6. CASE SweepNext(t)
  <2> DEFINE take(q) == [x EXCEPT !.pc = "update", !.queue = @ \ {q}, !.cur = q,
                                  !.verdict = "approved", !.err = FALSE]
  <2>1. x.pc = "next"
    BY <1>2, <1>6 DEF SweepNext
  <2>2. PICK y : /\ thr' = [thr EXCEPT ![t] = y]
                 /\ y = [x EXCEPT !.pc = "list"] \/ \E q \in x.queue : y = take(q)
    BY <1>2, <1>6 DEF SweepNext
  <2>3. /\ y.own = x.own /\ y.via = x.via /\ y.rule = x.rule
        /\ y.pc = "list" \/ (y.pc = "update" /\ y.cur \in x.queue)
    BY <1>3, <2>2 DEF Thread
  <2> QED
    BY <1>3, <1>5, <2>1, <2>2, <2>3 DEF SweepOK
<1>7. CASE List(t) /\ thr' # [thr EXCEPT ![t] = EndOfSweep(t)]
  <2> DEFINE found(k) == {q \in Requests : Matches(q, k)}
             scan(k) == [x EXCEPT !.pc = "next", !.todo = @ \ {k}, !.queue = found(k),
                                  !.listed = @ \union found(k)]
             skip(k) == [x EXCEPT !.todo = @ \ {k}]
  <2>1. x.pc = "list"
    BY <1>2, <1>7 DEF List
  <2>2. PICK y, k : thr' = [thr EXCEPT ![t] = y] /\ (y = scan(k) \/ y = skip(k))
    <3>1. \E k : thr' = [thr EXCEPT ![t] = scan(k)] \/ thr' = [thr EXCEPT ![t] = skip(k)]
      BY <1>2, <1>7 DEF List
    <3> HIDE DEF scan, skip
    <3> QED
      BY <3>1
  <2>3. y.own = x.own /\ y.via = x.via /\ y.rule = x.rule /\ y.pc \in {"list", "next"}
    BY <1>3, <2>1, <2>2 DEF Thread
  <2> QED
    BY <1>5, <2>1, <2>2, <2>3
<1> QED
  BY <1>4, <1>6, <1>7


(* The UPDATE that decides a pending row puts it in its goroutine's hands. *)
LEMMA ReportDecided ==
    ASSUME BaseInv, NEW r \in Requests, ReportOK(r), NEW t \in Threads, NEW x, x = thr[t],
           x.pc = "update", x.cur = r, status[r] = "pending",
           NEW y, thr' = [thr EXCEPT ![t] = y],
           y.pc \in {"get", "settle"}, y.own = x.own, y.cur = r, y.via = x.via, y.rule = x.rule,
           status'[r] \in Decided, chan' = chan, told' = told, audits' = audits, failed' = failed,
           by'[r].via = "callback" => x.own = r /\ x.via = "callback" /\ x.rule = by'[r].rule
    PROVE  ReportOK(r)'
<1> USE DEF BaseInv, TInv, TypeOK
<1>1. thr'[t] = y /\ \A u \in Threads \ {t} : thr'[u] = thr[u]
  OBVIOUS
<1>2. \A u \in Threads : ~Holds(thr[u], r)
  BY HeldDecided DEF Decided
<1>3. \A u \in Threads : \A z : z = thr'[u] => (Holds(thr[u], r)' <=> Holds(z, r)) /\ (Acting(thr[u], r)' <=> Acting(z, r))
  BY DEF Holds, Acting, Telling, Keeping, PastOwn
<1>4. Acting(y, r) /\ Holds(y, r) /\ ~Keeping(y, r) /\ ~Telling(y, r)
  BY DEF Holds, Acting, Telling, Keeping, PastOwn
<1>5. \A u \in Threads : Holds(thr[u], r)' => u = t
  BY <1>1, <1>2, <1>3
<1>6. told[r].status \notin Decided /\ chan[r].status \notin Terminal
  BY DEF ReportOK, Answered, AnswerInv, Decided, Terminal
<1>7. audits[r] = <<>> /\ r \notin failed
  BY DEF ReportOK, Audited
<1>8. HandOK(y, r)'
  <2>1. Acting(y, r)' /\ ~Keeping(y, r)' /\ ~Telling(y, r)'
    BY <1>4 DEF Acting, Keeping, Telling, PastOwn
  <2> QED
    BY <1>6, <1>7, <2>1 DEF HandOK
<1>9. HandsOK(r)'
  <2>1. SUFFICES HandOK(thr[t], r)'
    BY <1>5 DEF HandsOK
  <2> QED
    BY <1>1, <1>8 DEF HandOK, Acting, Telling, Keeping, PastOwn, Clean
<1>10. HeldOnce(r)'
  BY <1>5 DEF HeldOnce
<1>11. Acting(thr[t], r)' /\ Holds(thr[t], r)'
  BY <1>1, <1>3, <1>4
<1>12. Answered(r)' /\ Audited(r)' /\ Woken(r)'
  BY <1>6, <1>7, <1>11 DEF Answered, Audited, Woken, Terminal, Decided
<1> QED
  BY <1>9, <1>10, <1>12 DEF ReportOK

LEMMA ReportUpdate ==
    ASSUME BaseInv, NEW r \in Requests, ReportOK(r), NEW t \in Threads, Update(t)
    PROVE  ReportOK(r)'
<1> USE DEF BaseInv, TInv, TypeOK, rowVars, subVars, ruleVars, runVars
<1>1. PICK x : x = thr[t]
  OBVIOUS
<1>2. x \in Thread /\ KindOK(x) /\ WellFormed(x) /\ x.pc = "update" /\ x.cur \in Requests /\ x.verdict \in Decided
  BY <1>1 DEF CallsOK, ThreadsOK, WellFormed, Update, KindOK
<1>3. Lasting(r) /\ (x.cur # r => SameRow(r))
  BY <1>1, WorkFrame DEF Work
<1>4. chan' = chan /\ told' = told /\ audits' = audits /\ failed' = failed /\ sub' = sub
  BY DEF Update
<1>5. CASE thr' = [thr EXCEPT ![t] = AfterError(t)] /\ status' = status /\ by' = by
  <2>1. PICK y : y = AfterError(t)
    OBVIOUS
  <2>2. SameRow(r)
    BY <1>4, <1>5 DEF SameRow
  <2>3. GoesOn(x, y, r) \/ (~Holds(y, r) /\ ~Holds(x, r))
    <3>1. CASE x.cur = x.own
      <4>1. y.pc = "idle" /\ ~Holds(x, r)
        BY <1>1, <1>2, <2>1, <3>1 DEF AfterError, Sweeping, Return, IdleThread, Holds, Acting, Telling, Keeping, PastOwn
      <4> QED
        BY <4>1 DEF Holds, Acting, Telling, Keeping, PastOwn, Applied
    <3>2. CASE x.cur # x.own
      <4>1. y = [x EXCEPT !.pc = "next"]
        BY <1>1, <2>1, <3>2 DEF AfterError, Sweeping
      <4>2. y.pc = "next" /\ y.own = x.own /\ y.cur = x.cur /\ y.via = x.via /\ y.rule = x.rule
        BY <1>2, <4>1 DEF Thread
      <4> QED
        BY <1>2, <3>2, <4>2 DEF GoesOn, Acting, Telling, Keeping, PastOwn, Applied
    <3> QED
      BY <3>1, <3>2
  <2> QED
    BY <1>1, <1>3, <1>5, <2>1, <2>2, <2>3, ReportStays
<1>6. CASE /\ status[x.cur] = "pending" /\ status' = [status EXCEPT ![x.cur] = x.verdict]
           /\ by' = [by EXCEPT ![x.cur] = [via |-> IF Sweeping(t) THEN "auto" ELSE x.via, rule |-> x.rule]]
           /\ thr' = [thr EXCEPT ![t] = [x EXCEPT !.pc =
                        IF (IF Sweeping(t) THEN "auto" ELSE x.via) = "abort" THEN "settle" ELSE "get"]]
  <2>1. PICK y : y = [x EXCEPT !.pc = IF (IF Sweeping(t) THEN "auto" ELSE x.via) = "abort" THEN "settle" ELSE "get"]
    OBVIOUS
  <2>2. /\ y.pc \in {"get", "settle"} /\ y.own = x.own /\ y.cur = x.cur /\ y.via = x.via /\ y.rule = x.rule
        /\ y.verdict = x.verdict /\ y.err = x.err
    BY <1>2, <2>1 DEF Thread
  <2>3. thr' = [thr EXCEPT ![t] = y]
    BY <1>6, <2>1
  <2>4. CASE x.cur = r
    <3>1. status'[r] \in Decided
      BY <1>2, <1>6, <2>4
    <3>2. by'[r].via = "callback" => x.own = r /\ x.via = "callback" /\ x.rule = by'[r].rule
      BY <1>1, <1>6, <2>4 DEF Sweeping
    <3>3. status[r] = "pending"
      BY <1>6, <2>4
    <3> QED
      BY <1>1, <1>2, <1>4, <2>2, <2>3, <2>4, <3>1, <3>2, <3>3, ReportDecided
  <2>5. CASE x.cur # r
    <3>1. GoesOn(x, y, r)
      BY <1>2, <2>2, <2>5 DEF GoesOn, Acting, Telling, Keeping, PastOwn, Applied
    <3> QED
      BY <1>1, <1>3, <2>3, <2>5, <3>1, ReportStays
  <2> QED
    BY <2>4, <2>5
<1> QED
  BY <1>1, <1>5, <1>6 DEF Update, Updatable

(* The action is done, or will not run: the event is recorded, and the row *)
(* is handed on, to its waiter or to the callback's rule.                  *)
LEMMA ReportSettled ==
    ASSUME BaseInv, NEW r \in Requests, ReportOK(r), NEW t \in Threads, NEW x, x = thr[t],
           Acting(x, r), Lasting(r),
           NEW y, thr' = [thr EXCEPT ![t] = y],
           y.own = x.own, y.cur = r, y.via = x.via, y.rule = x.rule,
           y.pc = "notify" \/ (y.pc = "store" /\ y.via = "callback" /\ y.own = r),
           y.pc = "store" \/ Clean(y) => r \notin failed',
           faults' = 0 /\ Clean(y) /\ y.own = r /\ y.via = "callback" /\ y.rule # NoRule => y.pc = "store",
           status' = status, by' = by, chan' = chan, told' = told, sub' = sub,
           r \in failed' => status[r] = "approved",
           NEW e \in Events, audits'[r] = Append(audits[r], e), AuditSays(r, e)'
    PROVE  ReportOK(r)'
<1> USE DEF BaseInv, TInv, TypeOK
<1>1. thr'[t] = y /\ \A u \in Threads \ {t} : thr'[u] = thr[u]
  OBVIOUS
<1>2. Holds(x, r) /\ HandOK(x, r) /\ status[r] \in Decided
  BY HeldDecided DEF Holds, ReportOK, HandsOK
<1>3. \A u \in Threads : \A z : z = thr'[u] => (Holds(thr[u], r)' <=> Holds(z, r)) /\ (Acting(thr[u], r)' <=> Acting(z, r))
  BY DEF Holds, Acting, Telling, Keeping, PastOwn
<1>4. \A u \in Threads : Holds(thr[u], r)' => u = t
  BY <1>1, <1>2, <1>3 DEF ReportOK, HeldOnce
<1>5. Holds(y, r) /\ ~Acting(y, r)
  BY DEF Holds, Acting, Telling, Keeping, PastOwn
<1>6. audits'[r] = <<e>>
  BY <1>2 DEF HandOK
<1>7. HandOK(y, r)'
  <2>1. ~Acting(y, r)' /\ (Keeping(y, r)' => y.pc = "store") /\ (Clean(y)' <=> Clean(y))
    BY DEF Acting, Keeping, PastOwn, Clean
  <2> QED
    BY <1>2, <2>1 DEF HandOK, Telling
<1>8. HandsOK(r)'
  <2>1. SUFFICES HandOK(thr[t], r)'
    BY <1>4 DEF HandsOK
  <2> QED
    BY <1>1, <1>7 DEF HandOK, Acting, Telling, Keeping, PastOwn, Clean
<1>9. HeldOnce(r)'
  BY <1>4 DEF HeldOnce
<1>10. Holds(thr[t], r)'
  BY <1>1, <1>3, <1>5
<1>11. Answered(r)'
  BY <1>2 DEF HandOK, Answered, Terminal, Decided
<1>12. Audited(r)'
  BY <1>2, <1>6 DEF Audited, Decided
<1>13. Woken(r)'
  BY <1>10 DEF Woken
<1> QED
  BY <1>8, <1>9, <1>11, <1>12, <1>13 DEF ReportOK


LEMMA ReportGet ==
    ASSUME BaseInv, NEW r \in Requests, ReportOK(r), NEW t \in Threads, Get(t)
    PROVE  ReportOK(r)'
<1> USE DEF BaseInv, TInv, TypeOK, rowVars, subVars, ruleVars, runVars
<1>1. PICK x : x = thr[t]
  OBVIOUS
<1>2. x \in Thread /\ KindOK(x) /\ VerdictOK(x, status) /\ WellFormed(x) /\ x.pc = "get" /\ x.cur \in Requests
  BY <1>1 DEF CallsOK, ThreadsOK, AnswerInv, VerdictsApplied, Get, KindOK, Applied
<1>3. Lasting(r) /\ (x.cur # r => SameRow(r))
  BY <1>1, WorkFrame DEF Work
<1>4. status' = status /\ by' = by /\ chan' = chan /\ told' = told /\ failed' = failed /\ sub' = sub
  BY DEF Get
<1>5. CASE thr' = [thr EXCEPT ![t] = [x EXCEPT !.pc = "settle"]] /\ audits' = audits
  <2>1. PICK y : y = [x EXCEPT !.pc = "settle"]
    OBVIOUS
  <2>2. y.pc = "settle" /\ y.own = x.own /\ y.cur = x.cur /\ y.via = x.via /\ y.rule = x.rule
    BY <1>2, <2>1 DEF Thread
  <2>3. GoesOn(x, y, r)
    BY <1>2, <2>2 DEF GoesOn, Acting, Telling, Keeping, PastOwn, Applied
  <2>4. SameRow(r)
    BY <1>4, <1>5 DEF SameRow
  <2> QED
    BY <1>1, <1>3, <1>5, <2>1, <2>3, <2>4, ReportStays
<1>6. CASE thr' = [thr EXCEPT ![t] = Return(t)] /\ audits' = audits /\ Fail
  <2>1. PICK y : y = Return(t)
    OBVIOUS
  <2>2. ~Holds(y, r) /\ faults' # 0
    BY <1>6, <2>1 DEF Return, IdleThread, Holds, Acting, Telling, Keeping, PastOwn, Applied, Fail
  <2>3. SameRow(r)
    BY <1>4, <1>6 DEF SameRow
  <2> QED
    BY <1>1, <1>3, <1>6, <2>1, <2>2, <2>3, ReportStays
<1>7. CASE /\ thr' = [thr EXCEPT ![t] = [x EXCEPT !.pc = "notify", !.err = (x.verdict = "approved")]]
           /\ Audit(x.cur, IF x.verdict = "approved" THEN "error" ELSE "deny") /\ Fail
  <2>1. PICK y : y = [x EXCEPT !.pc = "notify", !.err = (x.verdict = "approved")]
    OBVIOUS
  <2>2. /\ y.pc = "notify" /\ y.own = x.own /\ y.cur = x.cur /\ y.via = x.via /\ y.rule = x.rule
        /\ y.verdict = x.verdict /\ y.err = (x.verdict = "approved")
    BY <1>2, <2>1 DEF Thread
  <2>3. CASE x.cur # r
    <3>1. GoesOn(x, y, r)
      BY <1>2, <2>2, <2>3 DEF GoesOn, Acting, Telling, Keeping, PastOwn, Applied
    <3> QED
      BY <1>1, <1>3, <1>7, <2>1, <2>3, <3>1, ReportStays
  <2>4. CASE x.cur = r
    <3>1. PICK e \in Events : audits'[r] = Append(audits[r], e) /\ e = IF x.verdict = "approved" THEN "error" ELSE "deny"
      BY <1>7, <2>4 DEF Audit, Events
    <3>2. x.verdict \in {"approved", "denied"} /\ status[r] = x.verdict
      BY <1>2, <2>4 DEF KindOK, WellFormed, Decided, VerdictOK, Applied
    <3>3. AuditSays(r, e)'
      BY <1>4, <3>1, <3>2 DEF AuditSays
    <3>4. Acting(x, r)
      BY <1>2, <2>4 DEF Acting
    <3>5. ~Clean(y)
      BY <2>2, Zenon DEF Clean
    <3>6. faults' # 0
      BY <1>7 DEF Fail
    <3>7. y.pc = "notify" /\ y.own = x.own /\ y.cur = r /\ y.via = x.via /\ y.rule = x.rule
      BY <2>2, <2>4
    <3>8. r \in failed' => status[r] = "approved"
      BY <1>4 DEF ReportOK, Audited
    <3>9. thr' = [thr EXCEPT ![t] = y]
      BY <1>7, <2>1
    <3> QED
      BY <1>1, <1>3, <1>4, <3>1, <3>3, <3>4, <3>5, <3>6, <3>7, <3>8, <3>9, ReportSettled
  <2> QED
    BY <2>3, <2>4
<1> QED
  BY <1>1, <1>5, <1>6, <1>7 DEF Get

(* Where an action leads, for the row it was of and for the others.        *)
LEMMA ReportAfterAction ==
    ASSUME BaseInv, NEW r \in Requests, ReportOK(r), NEW t \in Threads, NEW x, x = thr[t],
           x.pc \in {"settle", "run"}, x.cur \in Requests, status[x.cur] = "approved",
           NEW err \in BOOLEAN, thr' = [thr EXCEPT ![t] = AfterAction(t, err)],
           Audit(x.cur, IF err THEN "error" ELSE "approve"),
           failed' = IF err THEN failed \union {x.cur} ELSE failed,
           status' = status, by' = by, chan' = chan, told' = told, sub' = sub,
           Lasting(r), x.cur # r => SameRow(r)
    PROVE  ReportOK(r)'
<1> USE DEF BaseInv, TInv, TypeOK
<1>1. PICK y : y = AfterAction(t, err)
  OBVIOUS
<1>2. /\ y.own = x.own /\ y.cur = x.cur /\ y.via = x.via /\ y.rule = x.rule
      /\ y.verdict = x.verdict /\ y.err = err
      /\ y.pc = IF x.via = "callback" /\ x.cur = x.own /\ ~err /\ x.rule # NoRule THEN "store" ELSE "notify"
  BY <1>1 DEF AfterAction, Sweeping, Thread
<1>3. CASE x.cur # r
  <2>1. GoesOn(x, y, r)
    BY <1>2, <1>3 DEF GoesOn, Acting, Telling, Keeping, PastOwn, Applied
  <2> QED
    BY <1>1, <1>3, <2>1, ReportStays
<1>4. CASE x.cur = r
  <2>1. PICK e \in Events : audits'[r] = Append(audits[r], e) /\ e = IF err THEN "error" ELSE "approve"
    BY <1>4 DEF Audit, Events
  <2>2. Acting(x, r) /\ Holds(x, r)
    BY <1>4 DEF Acting, Holds
  <2>3. r \notin failed
    BY <2>2 DEF ReportOK, HandsOK, HandOK
  <2>4. AuditSays(r, e)'
    BY <1>4, <2>1, <2>3 DEF AuditSays
  <2>5. /\ y.pc = "store" \/ Clean(y) => r \notin failed'
        /\ Clean(y) /\ y.own = r /\ y.via = "callback" /\ y.rule # NoRule => y.pc = "store"
        /\ y.pc = "notify" \/ (y.pc = "store" /\ y.via = "callback" /\ y.own = r)
    BY <1>2, <1>4, <2>3 DEF Clean
  <2> QED
    BY <1>1, <1>2, <1>4, <2>1, <2>2, <2>4, <2>5, ReportSettled
<1> QED
  BY <1>3, <1>4

LEMMA ReportSettle ==
    ASSUME BaseInv, NEW r \in Requests, ReportOK(r), NEW t \in Threads, Settle(t) \/ RunAction(t)
    PROVE  ReportOK(r)'
<1> USE DEF BaseInv, TInv, TypeOK, rowVars, subVars, ruleVars, runVars
<1>1. PICK x : x = thr[t]
  OBVIOUS
<1>2. x \in Thread /\ KindOK(x) /\ VerdictOK(x, status) /\ WellFormed(x) /\ x.pc \in {"settle", "run"} /\ x.cur \in Requests
  <2>1. x \in Thread /\ KindOK(x) /\ VerdictOK(x, status) /\ WellFormed(x)
    BY <1>1 DEF CallsOK, ThreadsOK, AnswerInv, VerdictsApplied
  <2>2. x.pc \in {"settle", "run"}
    BY <1>1 DEF Settle, RunAction
  <2> QED
    BY <2>1, <2>2 DEF KindOK, Applied
<1>3. Lasting(r) /\ (x.cur # r => SameRow(r))
  BY <1>1, WorkFrame DEF Work
<1>4. status' = status /\ by' = by /\ chan' = chan /\ told' = told /\ sub' = sub
  BY DEF Settle, RunAction
<1>5. CASE RunAction(t)
  <2>1. status[x.cur] = "approved"
    BY <1>1, <1>2, <1>5 DEF RunAction, ActionInv, RunnersHoldApproved, Running
  <2>2. PICK err \in BOOLEAN :
          /\ failed' = IF err THEN failed \union {x.cur} ELSE failed
          /\ Audit(x.cur, IF err THEN "error" ELSE "approve")
          /\ thr' = [thr EXCEPT ![t] = AfterAction(t, err)]
    BY <1>1, <1>5 DEF RunAction
  <2> QED
    BY <1>1, <1>2, <1>3, <1>4, <2>1, <2>2, ReportAfterAction
<1>6. CASE Settle(t)
  <2>1. failed' = failed /\ x.pc = "settle"
    BY <1>1, <1>6 DEF Settle
  <2>2. CASE thr' = [thr EXCEPT ![t] = [x EXCEPT !.pc = "run"]] /\ audits' = audits
    <3>1. PICK y : y = [x EXCEPT !.pc = "run"]
      OBVIOUS
    <3>2. y.pc = "run" /\ y.own = x.own /\ y.cur = x.cur /\ y.via = x.via /\ y.rule = x.rule
      BY <1>2, <3>1 DEF Thread
    <3>3. GoesOn(x, y, r)
      BY <2>1, <3>2 DEF GoesOn, Acting, Telling, Keeping, PastOwn, Applied
    <3>4. SameRow(r)
      BY <1>4, <2>1, <2>2 DEF SameRow
    <3> QED
      BY <1>1, <1>3, <2>2, <3>1, <3>3, <3>4, ReportStays
  <2>3. CASE status[x.cur] = "approved" /\ thr' = [thr EXCEPT ![t] = AfterAction(t, FALSE)] /\ Audit(x.cur, "approve")
    <3>1. PICK err \in BOOLEAN : ~err
      OBVIOUS
    <3>2. /\ failed' = (IF err THEN failed \union {x.cur} ELSE failed) /\ err = FALSE
          /\ (IF err THEN "error" ELSE "approve") = "approve"
      BY <2>1, <3>1
    <3> QED
      BY <1>1, <1>2, <1>3, <1>4, <2>1, <2>3, <3>2, ReportAfterAction
  <2>4. CASE /\ status[x.cur] # "approved" /\ thr' = [thr EXCEPT ![t] = [x EXCEPT !.pc = "notify"]]
             /\ Audit(x.cur, IF x.via = "abort" THEN "abort" ELSE "deny")
    <3>1. PICK y : y = [x EXCEPT !.pc = "notify"]
      OBVIOUS
    <3>2. /\ y.pc = "notify" /\ y.own = x.own /\ y.cur = x.cur /\ y.via = x.via /\ y.rule = x.rule
          /\ y.verdict = x.verdict /\ y.err = x.err
      BY <1>2, <3>1 DEF Thread
    <3>3. CASE x.cur # r
      <4>1. GoesOn(x, y, r)
        BY <2>1, <3>2, <3>3 DEF GoesOn, Acting, Telling, Keeping, PastOwn, Applied
      <4> QED
        BY <1>1, <1>3, <2>4, <3>1, <3>3, <4>1, ReportStays
    <3>4. CASE x.cur = r
      <4>1. PICK e \in Events : audits'[r] = Append(audits[r], e) /\ e = IF x.via = "abort" THEN "abort" ELSE "deny"
        BY <2>4, <3>4 DEF Audit, Events
      <4>2. status[r] = x.verdict /\ x.verdict \in {"denied", "aborted"} /\ (x.via = "abort" <=> x.verdict = "aborted")
        BY <1>2, <2>4, <3>4 DEF KindOK, WellFormed, Decided, VerdictOK, Applied
      <4>3. AuditSays(r, e)'
        BY <1>4, <4>1, <4>2 DEF AuditSays
      <4>4. Acting(x, r) /\ ~Clean(y)
        BY <2>1, <3>2, <3>4, <4>2 DEF Acting, Clean
      <4>5. r \in failed' => status[r] = "approved"
        BY <2>1 DEF ReportOK, Audited
      <4> QED
        BY <1>1, <1>3, <1>4, <2>4, <3>1, <3>2, <3>4, <4>1, <4>3, <4>4, <4>5, ReportSettled
    <3> QED
      BY <3>3, <3>4
  <2> QED
    BY <1>1, <1>6, <2>2, <2>3, <2>4 DEF Settle
<1> QED
  BY <1>5, <1>6


(* A callback is done with its sweep, or could not store its rule: now it  *)
(* tells its waiter.                                                       *)
LEMMA ReportEnd ==
    ASSUME BaseInv, NEW r \in Requests, ReportOK(r), NEW t \in Threads,
           StoreRule(t) \/ List(t), thr' = [thr EXCEPT ![t] = EndOfSweep(t)],
           thr[t].pc = "store" => faults' # 0
    PROVE  ReportOK(r)'
<1> USE DEF BaseInv, TInv, TypeOK, rowVars, subVars, ruleVars, runVars
<1>1. PICK x : x = thr[t]
  OBVIOUS
<1>2. x \in Thread /\ x.pc \in {"store", "list"}
  BY <1>1 DEF StoreRule, List
<1>3. Lasting(r) /\ SameRow(r)
  <2>1. Lasting(r)
    BY WorkFrame DEF Work
  <2>2. SameRow(r)
    BY DEF StoreRule, List, SameRow
  <2> QED
    BY <2>1, <2>2
<1>4. PICK y : y = EndOfSweep(t)
  OBVIOUS
<1>5. CASE x.via # "callback"
  <2>1. y.pc = "idle"
    BY <1>1, <1>4, <1>5 DEF EndOfSweep, Return, IdleThread
  <2>2. ~Holds(x, r) /\ ~Holds(y, r)
    BY <1>2, <1>5, <2>1 DEF Holds, Acting, Telling, Keeping, PastOwn, Applied
  <2> QED
    BY <1>1, <1>3, <1>4, <2>2, ReportStays
<1>6. CASE x.via = "callback"
  <2>1. /\ y.pc = "notify" /\ y.own = x.own /\ y.cur = x.own /\ y.via = x.via /\ y.rule = x.rule
        /\ y.verdict = "approved" /\ ~y.err
    BY <1>1, <1>2, <1>4, <1>6 DEF EndOfSweep, Thread
  <2>2. /\ Keeping(x, r) <=> x.own = r
        /\ Holds(x, r) <=> x.own = r
        /\ Holds(y, r) <=> x.own = r
        /\ Telling(y, r) <=> x.own = r
        /\ ~Keeping(y, r) /\ ~Acting(y, r) /\ ~Acting(x, r)
    BY <1>2, <1>6, <2>1 DEF Holds, Acting, Telling, Keeping, PastOwn, Applied
  <2>3. ASSUME x.own = r PROVE HandOK(y, r)'
    <3>1. HandOK(x, r) /\ HandOK(x, r)'
      BY <1>1, <1>3, <2>2, <2>3, HandStays DEF ReportOK, HandsOK
    <3>2. r \notin failed'
      BY <1>3, <2>2, <2>3, <3>1 DEF HandOK, SameRow
    <3>3. faults' = 0 /\ ends' = 0 /\ x.rule # NoRule => Remembered(r)'
      <4>1. ASSUME faults' = 0, ends' = 0, x.rule # NoRule PROVE Remembered(r)'
        <5>1. x.pc # "store" /\ faults = 0 /\ ends = 0
          BY <1>1, <1>3, <4>1 DEF Lasting
        <5>2. Remembered(r)
          BY <1>6, <2>2, <2>3, <3>1, <4>1, <5>1 DEF HandOK
        <5> QED
          BY <1>3, <4>1, <5>2 DEF Lasting
      <4> QED
        BY <4>1
    <3>4. chan'[r].status \notin Terminal /\ told'[r].status \notin Decided
          /\ (by'[r].via = "callback" => y.own = r /\ y.via = "callback" /\ y.rule = by'[r].rule)
      BY <2>1, <3>1 DEF HandOK
    <3>5. ~Acting(y, r)' /\ ~Keeping(y, r)'
      BY <2>2 DEF Acting, Keeping, PastOwn
    <3> QED
      BY <2>1, <3>2, <3>3, <3>4, <3>5 DEF HandOK
  <2> QED
    BY <1>1, <1>3, <1>4, <2>2, <2>3, ReportMoves
<1> QED
  BY <1>5, <1>6

LEMMA ReportStore ==
    ASSUME BaseInv, NEW r \in Requests, ReportOK(r), NEW t \in Threads, StoreRule(t)
    PROVE  ReportOK(r)'
<1> USE DEF BaseInv, TInv, TypeOK, rowVars, subVars, ruleVars, runVars
<1>1. PICK x : x = thr[t]
  OBVIOUS
<1>2. x \in Thread /\ x.pc = "store" /\ KindOK(x)
  BY <1>1 DEF StoreRule, CallsOK
<1>3. Lasting(r) /\ SameRow(r)
  <2>1. Lasting(r)
    BY WorkFrame DEF Work
  <2>2. SameRow(r)
    BY DEF StoreRule, SameRow
  <2> QED
    BY <2>1, <2>2
<1>4. CASE thr' = [thr EXCEPT ![t] = EndOfSweep(t)] /\ Fail
  <2>1. faults' # 0
    BY <1>4 DEF Fail
  <2> QED
    BY <1>4, <2>1, ReportEnd
<1>5. CASE /\ thr' = [thr EXCEPT ![t] = [x EXCEPT !.pc = "list", !.todo = {x.rule.tool}]]
           /\ \/ x.rule.scope = "session" /\ <<x.rule.conv, x.rule.tool>> \in sessionRules'
              \/ x.rule.scope = "permanent" /\ x.rule.tool \in permRules'
  <2>1. PICK y : y = [x EXCEPT !.pc = "list", !.todo = {x.rule.tool}]
    OBVIOUS
  <2>2. y.pc = "list" /\ y.own = x.own /\ y.cur = x.cur /\ y.via = x.via /\ y.rule = x.rule
    BY <1>2, <2>1 DEF Thread
  <2>3. Holds(y, r) => x.own = r /\ x.via = "callback" /\ Keeping(x, r) /\ Holds(x, r)
    BY <1>2, <2>2 DEF Holds, Acting, Telling, Keeping, PastOwn
  <2>4. ASSUME x.own = r, x.via = "callback" PROVE Remembered(r)'
    <3>1. PICK s \in RuleScopes \union {"none"} : x.rule = RuleFor(s, r)
      BY <1>2, <2>4 DEF KindOK
    <3>2. s # "none"
      BY <1>5, <3>1 DEF RuleFor, NoRule
    <3>3. x.rule.conv = ConvOf[r] /\ x.rule.tool = ToolOf[r]
      BY <3>1, <3>2 DEF RuleFor
    <3> QED
      BY <1>5, <3>3 DEF Remembered
  <2>5. ASSUME Holds(y, r) PROVE HandOK(y, r)'
    <3>1. HandOK(x, r)'
      BY <1>1, <1>3, <2>3, <2>5, HandStays DEF ReportOK, HandsOK
    <3>2. ~Acting(y, r)' /\ Keeping(x, r)'
      BY <2>2, <2>3, <2>5 DEF Acting, Keeping, PastOwn
    <3> QED
      BY <2>2, <2>3, <2>4, <2>5, <3>1, <3>2 DEF HandOK
  <2>6. (Acting(x, r) => Acting(y, r)) /\ (Holds(x, r) => Holds(y, r))
    BY <1>2, <2>2 DEF Holds, Acting, Telling, Keeping, PastOwn
  <2> QED
    BY <1>1, <1>3, <1>5, <2>1, <2>3, <2>5, <2>6, ReportMoves
<1> QED
  BY <1>1, <1>4, <1>5 DEF StoreRule

(* The waiter is told, if it is there and nobody told it before.           *)
LEMMA ReportNotify ==
    ASSUME BaseInv, NEW r \in Requests, ReportOK(r), NEW t \in Threads, Notify(t)
    PROVE  ReportOK(r)'
<1> USE DEF BaseInv, TInv, TypeOK, rowVars, subVars, ruleVars, runVars
<1>1. PICK x : x = thr[t]
  OBVIOUS
<1>2. x \in Thread /\ x.pc = "notify" /\ KindOK(x) /\ VerdictOK(x, status) /\ x.cur \in Requests
  BY <1>1 DEF Notify, CallsOK, AnswerInv, VerdictsApplied, KindOK, Applied
<1>3. Lasting(r) /\ (x.cur # r => SameRow(r))
  BY <1>1, WorkFrame DEF Work
<1>4. PICK y : /\ thr' = [thr EXCEPT ![t] = y]
               /\ \/ x.cur # x.own /\ y = [x EXCEPT !.pc = "next"]
                  \/ x.cur = x.own /\ x.via = "resolve" /\ y = [x EXCEPT !.pc = "store"]
                  \/ x.cur = x.own /\ y = Return(t)
  BY <1>1 DEF Notify, Sweeping
<1>5. \/ x.cur # x.own /\ y.pc = "next" /\ y.own = x.own /\ y.via = x.via /\ y.rule = x.rule
      \/ x.cur = x.own /\ y.pc = "store" /\ y.via = "resolve"
      \/ x.cur = x.own /\ y.pc = "idle"
  BY <1>2, <1>4 DEF Thread, Return, IdleThread
<1>6. CASE x.cur # r
  <2>1. GoesOn(x, y, r) \/ (~Holds(y, r) /\ ~Holds(x, r))
    BY <1>2, <1>5, <1>6 DEF GoesOn, Holds, Acting, Telling, Keeping, PastOwn, Applied
  <2> QED
    BY <1>1, <1>3, <1>4, <1>6, <2>1, ReportStays
<1>7. CASE x.cur = r
  <2>1. Holds(x, r) /\ Telling(x, r) /\ ~Acting(x, r) /\ HandOK(x, r) /\ ~Holds(y, r)
    <3>1. Holds(x, r) /\ Telling(x, r) /\ ~Acting(x, r) /\ ~Holds(y, r)
      BY <1>2, <1>5, <1>7 DEF Holds, Acting, Telling, Keeping, PastOwn, Applied
    <3> QED
      BY <1>1, <3>1 DEF ReportOK, HandsOK
  <2>2. /\ status' = status /\ by' = by /\ told' = told /\ audits' = audits /\ failed' = failed
        /\ faults' = faults /\ ends' = ends /\ sub' = sub
        /\ sessionRules' = sessionRules /\ permRules' = permRules
        /\ chan' = IF chan[r] = EmptyCh THEN [chan EXCEPT ![r] = [status |-> x.verdict, err |-> x.err]] ELSE chan
    BY <1>1, <1>7 DEF Notify, Send
  <2>3. thr'[t] = y /\ \A u \in Threads \ {t} : thr'[u] = thr[u]
    BY <1>4
  <2>4. \A u \in Threads : ~Holds(thr[u], r)'
    <3>1. \A u \in Threads : \A z : z = thr'[u] => (Holds(thr[u], r)' <=> Holds(z, r))
      BY DEF Holds, Acting, Telling, Keeping, PastOwn
    <3>2. \A u \in Threads \ {t} : ~Holds(thr[u], r)
      BY <1>1, <2>1 DEF ReportOK, HeldOnce
    <3> QED
      BY <2>1, <2>3, <3>1, <3>2
  <2>5. chan'[r] = chan[r] \/ (chan'[r].status = x.verdict /\ chan'[r].err = x.err)
    BY <1>7, <1>2, <2>2
  <2>6. Answered(r)'
    <3>1. Remembered(r)' <=> Remembered(r)
      BY <2>2 DEF Remembered
    <3>2. status[r] = x.verdict
      BY <1>2, <1>7 DEF VerdictOK, Applied
    <3>3. Clean(x) => /\ r \notin failed
                      /\ by[r].via = "callback" /\ by[r].rule # NoRule /\ faults = 0 /\ ends = 0 => Remembered(r)
      BY <2>1 DEF HandOK
    <3> QED
      BY <2>2, <2>5, <3>1, <3>2, <3>3 DEF ReportOK, Answered, Clean
  <2>7. Audited(r)'
    <3>1. \A e : AuditSays(r, e) <=> AuditSays(r, e)'
      BY <2>2 DEF AuditSays
    <3>2. \A u \in Threads : Acting(thr[u], r) => Acting(thr[u], r)'
      BY <1>1, <2>1, <2>3 DEF Acting
    <3> QED
      BY <2>2, <3>1, <3>2 DEF ReportOK, Audited
  <2>8. Woken(r)'
    <3>1. chan'[r] # EmptyCh
      <4>1. x.verdict # "empty"
        BY <1>2 DEF Thread, Decided
      <4> QED
        BY <1>7, <1>2, <2>2, <4>1 DEF EmptyCh
    <3> QED
      BY <3>1 DEF Woken
  <2> QED
    BY <2>4, <2>6, <2>7, <2>8 DEF ReportOK, HeldOnce, HandsOK
<1> QED
  BY <1>6, <1>7

LEMMA ReportInit == Init => ReportInv
<1> SUFFICES ASSUME Init, NEW r \in Requests PROVE ReportOK(r)
  BY DEF ReportInv
<1>1. \A t \in Threads : ~Holds(thr[t], r) /\ ~Acting(thr[t], r)
  BY DEF Init, IdleThread, Holds, Acting, Telling, Keeping, PastOwn, Applied
<1>2. Answered(r) /\ Audited(r) /\ Woken(r)
  BY DEF Init, Answered, Audited, Woken, NoChan, Decided
<1> QED
  BY <1>1, <1>2 DEF ReportOK, HeldOnce, HandsOK

LEMMA ReportStep == BaseInv /\ ReportInv /\ [Next]_vars => ReportInv'
<1> SUFFICES ASSUME BaseInv, ReportInv, [Next]_vars, NEW r \in Requests PROVE ReportOK(r)'
  BY DEF ReportInv
<1>1. ReportOK(r)
  BY DEF ReportInv
<1>2. CASE UNCHANGED vars
  <2>1. SameRow(r) /\ Lasting(r) /\ thr' = thr
    BY <1>2 DEF vars, SameRow, Lasting, Remembered
  <2> QED
    BY <1>1, <2>1, ReportSame DEF BaseInv
<1>3. ASSUME NEW t \in Threads, Work(t) PROVE ReportOK(r)'
  <2>1. CASE List(t)
    <3>1. CASE thr' = [thr EXCEPT ![t] = EndOfSweep(t)]
      BY <1>1, <2>1, <3>1, ReportEnd DEF List
    <3> QED
      BY <1>1, <2>1, <3>1, ReportSearch
  <2> QED
    BY <1>1, <1>3, <2>1, ReportSearch, ReportUpdate, ReportGet, ReportSettle, ReportStore, ReportNotify DEF Work
<1> QED
  BY <1>1, <1>2, <1>3, ReportSubmitter, ReportWorld, ReportBegin DEF Next

LEMMA ReportAlways == Spec => [](BaseInv /\ ReportInv)
<1>1. Init => ReportInv
  BY ReportInit
<1>2. BaseInv /\ ReportInv /\ [Next]_vars => ReportInv'
  BY ReportStep
<1>3. Spec => []BaseInv
  BY CallsAlways DEF BaseInv
<1> QED
  BY <1>1, <1>2, <1>3, PTL DEF Spec

(* What a submitter is told of a decided request is what its row says, a   *)
(* clean approval is never reported of an action that failed, and the      *)
(* audit trail has the one event that says the same, for any number of     *)
(* goroutines, sweeps, restarts and store failures.                        *)
THEOREM DecisionsReported == Spec => []DecisionIsReported
<1>1. BaseInv /\ ReportInv => DecisionIsReported
  <2> SUFFICES ASSUME BaseInv, ReportInv, NEW r \in Requests
               PROVE  /\ \A answer \in {chan[r], told[r]} :
                           answer.status \in Decided /\ status[r] # "absent" =>
                             /\ answer.status = status[r]
                             /\ answer.status = "approved" /\ ~answer.err => r \notin failed
                      /\ Len(audits[r]) <= 1
                      /\ \A i \in DOMAIN audits[r] : AuditSays(r, audits[r][i])
                      /\ status[r] \in Decided /\ faults = 0 /\ (\A t \in Threads : ~AtWork(t, r))
                            => Len(audits[r]) = 1
    BY DEF DecisionIsReported, WaiterToldTheRow, AuditTrail
  <2>1. Answered(r) /\ Audited(r)
    BY DEF ReportInv, ReportOK
  <2>2. (\A t \in Threads : ~AtWork(t, r)) => \A t \in Threads : ~Acting(thr[t], r)
    BY DEF AtWork, Acting
  <2>3. Len(audits[r]) \in Nat /\ (Len(audits[r]) = 0 => audits[r] = <<>>)
    BY DEF BaseInv, TInv, TypeOK
  <2>4. Len(audits[r]) <= 1 /\ (Len(audits[r]) # 0 => Len(audits[r]) = 1)
    <3>1. PICK n : n = Len(audits[r])
      OBVIOUS
    <3>2. n \in Nat /\ n <= 1
      BY <2>1, <2>3, <3>1 DEF Audited
    <3>3. n # 0 => n = 1
      BY <3>2
    <3> QED
      BY <3>1, <3>2, <3>3
  <2>5. status[r] \in Decided /\ faults = 0 /\ (\A t \in Threads : ~AtWork(t, r)) => audits[r] # <<>>
    BY <2>1, <2>2 DEF Audited
  <2>6. \A i \in DOMAIN audits[r] : AuditSays(r, audits[r][i])
    BY <2>1 DEF Audited
  <2> QED
    BY <2>1, <2>3, <2>4, <2>5, <2>6 DEF Answered
<1> QED
  BY <1>1, ReportAlways, PTL

(* SubmitAndWait never sleeps through a decision: while its row is decided *)
(* and its channel empty, someone is on the way to it; and whom an         *)
(* "approve and remember" button woke finds the rule stored.               *)
THEOREM WaitersWoken == Spec => []NoLostWakeup
<1>1. BaseInv /\ ReportInv => NoLostWakeup
  <2> SUFFICES ASSUME BaseInv, ReportInv, NEW r \in Requests
               PROVE  /\ faults = 0 /\ sub[r] = "blocked" /\ status[r] \in Decided /\ chan[r] = EmptyCh =>
                            \E t \in Threads : AtWork(t, r)
                      /\ /\ by[r].via = "callback"
                         /\ by[r].rule # NoRule /\ faults + ends = 0
                         /\ \E answer \in {chan[r], told[r]} : answer.status = "approved" /\ ~answer.err
                         => ShouldAutoApprove(r)
    BY DEF NoLostWakeup
  <2>1. Answered(r) /\ Woken(r)
    BY DEF ReportInv, ReportOK
  <2>2. ASSUME NEW t \in Threads, Holds(thr[t], r) PROVE AtWork(t, r)
    <3>1. Keeping(thr[t], r) => status[r] = "approved" /\ thr[t].pc \in Deciding
      BY DEF BaseInv, AnswerInv, VerdictsApplied, VerdictOK, Keeping, PastOwn, Applied, Deciding
    <3> QED
      BY <2>2, <3>1 DEF AtWork, Holds, Acting, Telling, Keeping
  <2>3. faults + ends = 0 => faults = 0 /\ ends = 0
    BY DEF BaseInv, TInv, TypeOK
  <2> QED
    BY <2>1, <2>2, <2>3 DEF Woken, Answered, Remembered, ShouldAutoApprove
<1> QED
  BY <1>1, ReportAlways, PTL

-----------------------------------------------------------------------------
(* One supervised tool call, for any number of attempts, operators, faults *)
(* and rules.  The call's turn and the operators work on the same manager, *)
(* so the proof rests on what is shown of it above (BaseInv) and adds what *)
(* the chain knows of its rows and of the goroutine Engine.                *)

ChainPcs == {"rules", "decider", "supervisor", "submit", "submitting", "armed", "waiting",
             "woken", "aborting", "withdrawing", "ended"}

ChainTypeOK ==
    /\ call \in [pc : ChainPcs, attempt : Requests, outcome : Outcomes,
                 granted : {"none", "rule", "decider", "supervisor", "row"},
                 reviewFailed : BOOLEAN]
    /\ waitCtx \in {"live", "deadline", "cancelled"}
    /\ turnCtx \in {"live", "cancelled"}
    /\ stop \in {"none", "generation", "fired"}

(* Attempts the call has not submitted yet.                                *)
ToCome(a) ==
    \/ a > call.attempt
    \/ a = call.attempt /\ call.pc \in {"rules", "decider", "supervisor", "submit"}

(* An attempt to come has no row and no answer; a past one has no open row *)
(* unless the store failed; the rules are read before anything else.       *)
RowsOK ==
    /\ \A a \in Requests : ToCome(a) => status[a] = "absent" /\ told[a] = NoChan
    /\ call.pc = "rules" => call.attempt = 1 /\ \A a \in Requests : sub[a] = "new"
    /\ faults = 0 => \A a \in Requests : a < call.attempt => status[a] # "pending"
    /\ call.pc = "withdrawing" => call.attempt # MaxAttempts

(* The turn's goroutine is in the manager only to close the row of the     *)
(* attempt, and while it is not yet at the store that row may be open.     *)
Closing == call.pc \in {"aborting", "withdrawing"}

EngineOK ==
    /\ thr[Engine].pc # "idle" =>
         /\ Closing
         /\ thr[Engine].own = call.attempt /\ thr[Engine].cur = call.attempt
         /\ thr[Engine].rule = NoRule
         /\ thr[Engine].pc \in {"update", "get", "settle", "run", "notify"}
    /\ Closing => thr[Engine].pc = "update" \/ faults > 0 \/ status[call.attempt] # "pending"

(* Every approved row was approved by a call on that row or by a sweep.    *)
ByOK ==
    /\ \A r \in Requests : status[r] = "approved" => by[r].via \in {"resolve", "callback", "auto"}
    /\ \A t \in Threads : \/ thr[t].own = NoRequest
                          \/ thr[t].via \in {"resolve", "callback", "abort"}

(* How the call ends, and what it was told before.                         *)
EndingOK ==
    /\ call.pc # "ended" => call.outcome = "none" /\ call.granted = "none"
    /\ call.pc \in {"rules", "decider", "supervisor"} => ~call.reviewFailed
    /\ call.pc = "woken" /\ told[call.attempt].status = "approved" =>
         status[call.attempt] = "approved"
    /\ call.outcome = "approved" /\ call.granted = "row" => status[call.attempt] = "approved"
    /\ call.granted \in {"decider", "supervisor"} => ~call.reviewFailed
    /\ call.outcome = "aborted" => faults > 0 \/ status[call.attempt] # "pending"
    /\ AnswerStands

ChainInv == ChainTypeOK /\ RowsOK /\ EngineOK /\ ByOK /\ EndingOK

-----------------------------------------------------------------------------
(* What the manager promises, it promises to this caller too.              *)

(* A step that the manager knows keeps its invariants.                     *)
LEMMA KnownBase == ASSUME BaseInv, [Next]_vars PROVE BaseInv'
BY TypeStep, ActionStep, AnswerStep, CallsStep DEF BaseInv

(* So do the three that only the chain takes.  It reads the rules for all  *)
(* its attempts at once, before any of them has begun.                     *)
LEMMA RulesBase ==
    ASSUME BaseInv, ChainTypeOK, RowsOK, Rules
    PROVE  BaseInv'
<1> USE DEF rowVars, ruleVars, runVars
<1>1. CASE UNCHANGED sub
  <2>1. UNCHANGED vars
    <3>1. told' = told
      BY DEF Rules
    <3> QED
      BY <1>1, <3>1 DEF Rules, vars
  <2> QED
    BY <2>1, KnownBase
<1>2. CASE sub' = [r \in Requests |-> "checked"]
  <2>1. TInv /\ ActionInv /\ AnswerInv /\ CallsOK
    BY DEF BaseInv
  <2>2. \A r \in Requests : sub[r] = "new" /\ status[r] = "absent" /\ told[r] = NoChan
    BY AttemptsAssumption DEF Rules, RowsOK, ToCome, ChainTypeOK
  <2>3. /\ UNCHANGED <<status, by, registry, chan, told, sessionRules, permRules, configRules>>
        /\ UNCHANGED <<thr, ran, failed, audits, calls, faults, ends>>
    BY DEF Rules
  <2>4. TInv'
    BY <1>2, <2>1, <2>3 DEF TInv, TypeOK, ThreadsOK, SubPcs
  <2>5. ActionInv'
    <3>1. RowsFollowSubmit'
      BY <2>2, <2>3 DEF RowsFollowSubmit
    <3>2. \A t \in Threads, r \in Requests : Running(t, r)' => Running(t, r)
      BY <2>3 DEF Running
    <3>3. \A r \in Requests : sub'[r] \in Unregistered => sub[r] \in Unregistered
      BY <2>2 DEF Unregistered
    <3> QED
      BY <2>1, <2>3, <3>1, <3>2, <3>3, Quiet
  <2>6. AnswerInv'
    BY <2>1, <2>2, <2>3 DEF AnswerInv, VerdictsApplied, NoChan
  <2>7. CallsOK'
    BY <2>1, <2>3 DEF CallsOK, KindOK, SweepOK, PastOwn, BeforeSweep
  <2> QED
    BY <2>4, <2>5, <2>6, <2>7 DEF BaseInv
<1> QED
  BY <1>1, <1>2 DEF Rules

(* Its wait ends with its context, whenever that is.                       *)
LEMMA StopBase ==
    ASSUME BaseInv, NEW r \in Requests, StopWaiting(r), UNCHANGED ends
    PROVE  BaseInv'
<1> USE DEF rowVars, ruleVars, runVars
<1>1. TInv /\ ActionInv /\ AnswerInv /\ CallsOK
  BY DEF BaseInv
<1>2. /\ UNCHANGED <<status, by, registry, sessionRules, permRules, configRules>>
      /\ UNCHANGED <<thr, ran, failed, audits, calls, faults, ends>>
  BY DEF StopWaiting
<1>3. TInv'
  <2>1. told' \in [Requests -> Outcome]
    BY <1>1, MailOK DEF StopWaiting, TInv, TypeOK
  <2>2. chan' \in [Requests -> Mailbox]
    BY <1>1, MailOK DEF StopWaiting, TInv, TypeOK
  <2>3. sub' \in [Requests -> SubPcs]
    BY <1>1 DEF StopWaiting, TInv, TypeOK, SubPcs
  <2> QED
    BY <1>1, <1>2, <2>1, <2>2, <2>3 DEF TInv, TypeOK, ThreadsOK
<1>4. ActionInv'
  <2>1. RowsFollowSubmit'
    BY <1>1, <1>2 DEF ActionInv, RowsFollowSubmit, StopWaiting, TInv, TypeOK
  <2>2. \A t \in Threads, q \in Requests : Running(t, q)' => Running(t, q)
    BY <1>2 DEF Running
  <2>3. \A q \in Requests : sub'[q] \in Unregistered => sub[q] \in Unregistered
    BY <1>1 DEF Unregistered, StopWaiting, TInv, TypeOK
  <2> QED
    BY <1>1, <1>2, <2>1, <2>2, <2>3, Quiet
<1>5. AnswerInv'
  <2>1. VerdictsApplied'
    BY <1>1, <1>2 DEF AnswerInv, VerdictsApplied
  <2>2. \A q \in Requests : chan'[q] \in {chan[q], NoChan}
    BY <1>1 DEF StopWaiting, TInv, TypeOK
  <2>3. \A q \in Requests : chan'[q].status \in Terminal => chan'[q].status = status'[q]
    BY <1>1, <1>2, <2>2 DEF AnswerInv, NoChan, Terminal, Decided
  <2>4. \A q \in Requests : told'[q].status # "none" => sub'[q] = "done"
    BY <1>1 DEF AnswerInv, StopWaiting, TInv, TypeOK
  <2> QED
    BY <2>1, <2>3, <2>4 DEF AnswerInv
<1>6. CallsOK'
  BY <1>1, <1>2 DEF CallsOK, KindOK, SweepOK, PastOwn, BeforeSweep
<1> QED
  BY <1>3, <1>4, <1>5, <1>6 DEF BaseInv

(* The engine denies or aborts a row of its own.                           *)
EngineCloses(r) ==
    /\ EngineCalls(ResolveCall(r, "denied", "none")) \/ EngineCalls(AbortCall(r))
    /\ UNCHANGED <<status, by, registry, chan, sub, told, sessionRules, permRules, configRules>>
    /\ UNCHANGED <<ran, failed, audits, calls, faults, ends>>

LEMMA EngineBase ==
    ASSUME BaseInv, NEW r \in Requests, EngineCloses(r)
    PROVE  BaseInv'
<1> USE DEF EngineCloses
<1>1. TInv /\ ActionInv /\ AnswerInv /\ CallsOK
  BY DEF BaseInv
<1>2. PICK y : /\ y \in {ResolveCall(r, "denied", "none"), AbortCall(r)}
               /\ thr' = [thr EXCEPT ![Engine] = y]
  BY DEF EngineCalls
<1>3. y.pc = "update" /\ y.cur = r /\ y.own = r /\ y.queue = {} /\ y.listed = {}
  BY <1>2 DEF ResolveCall, AbortCall, IdleThread
<1>4. WellFormed(y)
  <2>1. /\ WellFormed(ResolveCall(r, "denied", "none")) /\ WellFormed(ResolveCall(r, "aborted", "none"))
        /\ ResolveCall(r, "aborted", "none").verdict \in Decided
    BY CallOK DEF Decided
  <2>2. WellFormed(AbortCall(r))
    BY ZenonT(60), <2>1 DEF AbortCall, WellFormed, Thread, ThrPcs, Vias
  <2> QED
    BY <1>2, <2>1, <2>2
<1>5. KindOK(y)
  <2>1. /\ y.rule = NoRule
        /\ \/ y.via = "resolve" /\ y.verdict = "denied"
           \/ y.via = "abort" /\ y.verdict = "aborted"
    BY <1>2 DEF ResolveCall, AbortCall, IdleThread, RuleFor
  <2> QED
    BY <1>3, <2>1 DEF KindOK, PastOwn, Applied
<1>6. TInv'
  <2>1. thr' \in [Threads -> Thread] /\ ThreadsOK'
    BY <1>1, <1>2, <1>4, MovedOK, EngineAssumption DEF Moved
  <2> QED
    BY <1>1, <2>1 DEF TInv, TypeOK
<1>7. ActionInv'
  <2>1. RowsFollowSubmit'
    BY <1>1 DEF ActionInv, RowsFollowSubmit
  <2>2. \A u \in Threads, q \in Requests : Running(u, q)' => Running(u, q)
    BY <1>1, <1>2, <1>3, NoNewRunner, EngineAssumption
  <2> QED
    BY <1>1, <2>1, <2>2, Quiet
<1>8. AnswerInv'
  <2>1. VerdictOK(y, status')
    <3>1. y.pc = "update" /\ y.via # "callback"
      BY <1>2, <1>3 DEF ResolveCall, AbortCall, IdleThread
    <3> QED
      BY <3>1 DEF VerdictOK, Applied
  <2>2. VerdictsApplied'
    BY <1>1, <1>2, <2>1, VerdictStays, EngineAssumption DEF AnswerInv, VerdictsApplied, TInv, TypeOK
  <2> QED
    BY <1>1, <2>2 DEF AnswerInv
<1>9. CallsOK'
  <2>1. Moves
    BY DEF Moves
  <2>2. SweepOK(y)'
    BY <1>3 DEF SweepOK, PastOwn, Applied
  <2> QED
    BY <1>1, <1>2, <1>5, <2>1, <2>2, CallsStay, EngineAssumption
<1> QED
  BY <1>6, <1>7, <1>8, <1>9 DEF BaseInv

-----------------------------------------------------------------------------
(* The call itself.                                                        *)

(* A call begins with every attempt still to come.                         *)
LEMMA ChainStart == ChainInit => BaseInv /\ ChainInv
<1> SUFFICES ASSUME ChainInit PROVE BaseInv /\ ChainInv
  OBVIOUS
<1>1. BaseInv
  BY TypeInit, ActionInit, AnswerInit, CallsInit DEF ChainInit, BaseInv
<1>2. ChainTypeOK
  BY AttemptsAssumption DEF ChainInit, ChainTypeOK, ChainPcs, Outcomes
<1>3. RowsOK /\ EngineOK /\ ByOK
  BY AttemptsAssumption, EngineAssumption
     DEF ChainInit, Init, RowsOK, EngineOK, ByOK, Closing, IdleThread
<1>4. EndingOK
  BY DEF ChainInit, EndingOK, AnswerStands
<1> QED
  BY <1>1, <1>2, <1>3, <1>4 DEF ChainInv

(* While the rows stay, a call may move on with the same attempt and its   *)
(* goroutine out of the manager.                                           *)
LEMMA CallMoves ==
    ASSUME ChainInv, ChainTypeOK', EndingOK',
           UNCHANGED <<status, by, thr>>, faults' = 0 => faults = 0,
           call'.attempt = call.attempt, call'.pc # "rules", ~Closing',
           thr[Engine].pc = "idle",
           \A a \in Requests : ToCome(a)' => ToCome(a) /\ told'[a] = told[a]
    PROVE  ChainInv'
<1>1. RowsOK'
  BY DEF ChainInv, RowsOK, Closing
<1>2. EngineOK' /\ ByOK'
  BY DEF ChainInv, EngineOK, ByOK
<1> QED
  BY <1>1, <1>2 DEF ChainInv

(* The fields of a call that ends, and what it takes to end it so.         *)
LEMMA EndedFields ==
    ASSUME ChainTypeOK, NEW o \in Outcomes, NEW w \in {"none", "rule", "decider", "supervisor", "row"}
    PROVE  /\ Ended(o, w).pc = "ended" /\ Ended(o, w).attempt = call.attempt
           /\ Ended(o, w).outcome = o /\ Ended(o, w).granted = w
           /\ Ended(o, w).reviewFailed = call.reviewFailed
           /\ Ended(o, w) \in [pc : ChainPcs, attempt : Requests, outcome : Outcomes,
                granted : {"none", "rule", "decider", "supervisor", "row"}, reviewFailed : BOOLEAN]
BY DEF ChainTypeOK, ChainPcs, Ended

LEMMA CallEnding ==
    ASSUME ChainInv, thr[Engine].pc = "idle",
           NEW o \in Outcomes, NEW w \in {"none", "rule", "decider", "supervisor", "row"},
           call' = Ended(o, w),
           UNCHANGED <<status, by, thr, waitCtx, turnCtx, stop>>, faults' = 0 => faults = 0,
           \A a \in Requests : a # call.attempt => told'[a] = told[a],
           o = "approved" /\ w = "row" => status[call.attempt] = "approved",
           w \in {"decider", "supervisor"} => ~call.reviewFailed,
           o = "aborted" => faults' > 0 \/ status[call.attempt] # "pending",
           o = "supervisor_error" /\ waitCtx # "deadline"
             => told'[call.attempt] # [status |-> "denied", err |-> FALSE]
    PROVE  ChainInv'
<1>1. /\ call'.pc = "ended" /\ call'.attempt = call.attempt
      /\ call'.outcome = o /\ call'.granted = w /\ call'.reviewFailed = call.reviewFailed
      /\ ChainTypeOK'
  BY EndedFields DEF ChainInv, ChainTypeOK
<1>2. EndingOK'
  BY <1>1 DEF EndingOK, AnswerStands
<1>3. ~Closing' /\ \A a \in Requests : ToCome(a)' => a > call.attempt
  BY <1>1 DEF Closing, ToCome
<1>4. \A a \in Requests : a > call.attempt => ToCome(a) /\ a # call.attempt
  BY AttemptsAssumption DEF ToCome, ChainInv, ChainTypeOK
<1> QED
  BY <1>1, <1>2, <1>3, <1>4, CallMoves

(* A call nobody answered, for whatever reason.                            *)
LEMMA CallUnanswered ==
    ASSUME ChainInv, thr[Engine].pc = "idle",
           NEW o \in {"denied", "approval_timeout"}, call' = Unanswered(o),
           UNCHANGED <<status, by, thr, waitCtx, turnCtx, stop>>, faults' = 0 => faults = 0,
           \A a \in Requests : a # call.attempt => told'[a] = told[a],
           waitCtx = "deadline" \/ told'[call.attempt] # [status |-> "denied", err |-> FALSE]
    PROVE  ChainInv'
<1>1. PICK p \in {"denied", "approval_timeout", "supervisor_error"} : call' = Ended(p, "none")
  BY DEF Unanswered
<1> QED
  BY <1>1, CallEnding DEF Outcomes

(* Until it asks the manager to close a row, the turn's goroutine is out   *)
(* of the manager.                                                         *)
LEMMA EngineIdle == ASSUME ChainInv, ~Closing PROVE thr[Engine].pc = "idle"
BY DEF ChainInv, EngineOK

(* The rules and the reviewers end the call or hand it on.                 *)
LEMMA ReviewSteps ==
    ASSUME BaseInv, ChainInv, Rules \/ Decider \/ Supervisor \/ NoSurface
    PROVE  ChainInv'
<1> USE DEF rowVars, subVars, ruleVars, runVars
<1>1. /\ ChainTypeOK /\ ~Closing /\ thr[Engine].pc = "idle"
      /\ call.pc # "ended" /\ call.outcome = "none" /\ call.granted = "none"
  <2>1. call.pc \in {"rules", "decider", "supervisor", "submit"}
    BY DEF Rules, Decider, Supervisor, NoSurface
  <2> QED
    BY <2>1, EngineIdle DEF ChainInv, Closing, EndingOK
<1>2. UNCHANGED <<status, by, thr, told, faults, waitCtx, turnCtx, stop>>
  BY DEF Rules, Decider, Supervisor, NoSurface, vars
<1>3. ASSUME NEW p \in {"decider", "supervisor", "submit"}, NEW f \in BOOLEAN,
             call' = [call EXCEPT !.pc = p, !.reviewFailed = f],
             call.pc \in {"rules", "decider", "supervisor"},
             p # "submit" => ~f
      PROVE  ChainInv'
  <2>1. /\ call'.pc = p /\ call'.attempt = call.attempt /\ call'.outcome = "none"
        /\ call'.granted = "none" /\ call'.reviewFailed = f /\ ChainTypeOK'
    BY <1>1, <1>2, <1>3 DEF ChainTypeOK, ChainPcs
  <2>2. EndingOK'
    BY <1>2, <1>3, <2>1 DEF EndingOK, AnswerStands
  <2>3. ~Closing' /\ \A a \in Requests : ToCome(a)' => ToCome(a)
    BY <1>3, <2>1 DEF Closing, ToCome
  <2> QED
    BY <1>1, <1>2, <2>1, <2>2, <2>3, CallMoves
<1>4. CASE Rules
  <2>1. CASE call' = Ended("approved", "rule")
    BY <1>1, <1>2, <2>1, CallEnding DEF Outcomes
  <2>2. CASE call' = [call EXCEPT !.pc = "decider"]
    <3>1. call.pc = "rules" /\ ~call.reviewFailed
      BY <1>4 DEF Rules, ChainInv, EndingOK
    <3>2. call' = [call EXCEPT !.pc = "decider", !.reviewFailed = FALSE]
      BY <1>1, <2>2, <3>1 DEF ChainTypeOK
    <3> QED
      BY <1>3, <3>1, <3>2
  <2> QED
    BY <1>4, <2>1, <2>2 DEF Rules
<1>5. CASE Decider
  <2>1. call.pc = "decider" /\ call.reviewFailed = FALSE
    BY <1>1, <1>5 DEF Decider, ChainInv, EndingOK, ChainTypeOK
  <2>2. CASE call' = Ended("approved", "decider") \/ call' = Ended("denied", "none")
    BY <1>1, <1>2, <2>1, <2>2, CallEnding DEF Outcomes
  <2>3. ASSUME NEW supervised \in BOOLEAN, NEW f \in BOOLEAN, supervised => ~f,
               call' = [call EXCEPT !.pc = IF supervised THEN "supervisor" ELSE "submit",
                                    !.reviewFailed = f]
        PROVE  ChainInv'
    BY <1>3, <2>1, <2>3
  <2>4. PICK decider \in {"off", "shadow", "enforce"}, supervised \in BOOLEAN :
          LET onward == [call EXCEPT !.pc = IF supervised THEN "supervisor" ELSE "submit"]
          IN  \/ call' = onward
              \/ call' = Ended("approved", "decider")
              \/ call' = Ended("denied", "none")
              \/ call' = [onward EXCEPT !.reviewFailed = ~supervised]
    BY <1>5 DEF Decider
  <2> DEFINE to == IF supervised THEN "supervisor" ELSE "submit"
  <2>5. /\ [call EXCEPT !.pc = to] = [call EXCEPT !.pc = to, !.reviewFailed = FALSE]
        /\ [[call EXCEPT !.pc = to] EXCEPT !.reviewFailed = ~supervised]
             = [call EXCEPT !.pc = to, !.reviewFailed = ~supervised]
    BY <1>1, <2>1 DEF ChainTypeOK
  <2>6. CASE call' = [call EXCEPT !.pc = to]
    <3>1. call' = [call EXCEPT !.pc = IF supervised THEN "supervisor" ELSE "submit",
                               !.reviewFailed = FALSE]
      BY <2>5, <2>6
    <3> QED
      BY <2>3, <3>1
  <2>7. CASE call' = [[call EXCEPT !.pc = to] EXCEPT !.reviewFailed = ~supervised]
    <3>1. call' = [call EXCEPT !.pc = IF supervised THEN "supervisor" ELSE "submit",
                               !.reviewFailed = ~supervised]
      BY <2>5, <2>7
    <3> QED
      BY <2>3, <3>1
  <2> QED
    BY <2>2, <2>4, <2>6, <2>7
<1>6. CASE Supervisor
  <2>1. call.pc = "supervisor" /\ call.reviewFailed = FALSE
    BY <1>1, <1>6 DEF Supervisor, ChainInv, EndingOK, ChainTypeOK
  <2>2. CASE call' = Ended("approved", "supervisor") \/ call' = Ended("denied", "none")
    BY <1>1, <1>2, <2>1, <2>2, CallEnding DEF Outcomes
  <2> QED
    BY <1>3, <1>6, <2>1, <2>2 DEF Supervisor
<1>7. CASE NoSurface
  <2>1. ToCome(call.attempt) /\ call.attempt \in Requests
    BY <1>1, <1>7 DEF NoSurface, ToCome, ChainTypeOK
  <2>2. told[call.attempt] = NoChan
    BY <2>1 DEF ChainInv, RowsOK
  <2> QED
    BY <1>1, <1>2, <1>7, <2>2, CallUnanswered DEF NoSurface, NoChan
<1> QED
  BY <1>4, <1>5, <1>6, <1>7

(* The steps of one attempt: the row is made, the wait begins and ends.    *)
LEMMA AttemptSteps ==
    ASSUME BaseInv, ChainInv, Submit \/ Arm \/ Wait \/ Wake
    PROVE  ChainInv'
<1> USE DEF rowVars, subVars, ruleVars, runVars
<1>1. /\ ChainTypeOK /\ TInv /\ AnswerInv /\ call.attempt \in Requests
      /\ ~Closing /\ thr[Engine].pc = "idle"
      /\ call.pc # "ended" /\ call.outcome = "none" /\ call.granted = "none"
  <2>1. call.pc \in {"submit", "submitting", "armed", "waiting"}
    BY DEF Submit, Arm, Wait, Wake
  <2> QED
    BY <2>1, EngineIdle DEF ChainInv, Closing, EndingOK, BaseInv, ChainTypeOK
<1>2. ASSUME NEW p \in {"submitting", "armed", "waiting", "woken"},
             call' = [call EXCEPT !.pc = p], waitCtx' \in {"live", "deadline", "cancelled"},
             UNCHANGED <<turnCtx, stop>>
      PROVE  /\ call'.pc = p /\ call'.attempt = call.attempt /\ call'.outcome = "none"
             /\ call'.granted = "none" /\ call'.reviewFailed = call.reviewFailed /\ ChainTypeOK'
  BY <1>1, <1>2 DEF ChainTypeOK, ChainPcs
<1>3. \A a \in Requests : a > call.attempt => ToCome(a) /\ a # call.attempt
  BY <1>1, AttemptsAssumption DEF ToCome
<1>4. ASSUME NEW p \in {"submitting", "armed", "waiting", "woken"},
             call' = [call EXCEPT !.pc = p], waitCtx' \in {"live", "deadline", "cancelled"},
             UNCHANGED <<turnCtx, stop, status, by, thr, faults>>,
             p # "woken" => told' = told,
             p = "woken" => /\ \A a \in Requests : a # call.attempt => told'[a] = told[a]
                            /\ told'[call.attempt].status = "approved" => status[call.attempt] = "approved"
      PROVE  ChainInv'
  <2>1. /\ call'.pc = p /\ call'.attempt = call.attempt /\ call'.outcome = "none"
        /\ call'.granted = "none" /\ ChainTypeOK'
    BY <1>2, <1>4
  <2>2. EndingOK'
    BY <1>1, <1>4, <2>1 DEF EndingOK, AnswerStands
  <2>3. ~Closing' /\ \A a \in Requests : ToCome(a)' => a > call.attempt
    BY <2>1 DEF Closing, ToCome
  <2>4. \A a \in Requests : ToCome(a)' => ToCome(a) /\ told'[a] = told[a]
    BY <1>3, <1>4, <2>3
  <2> QED
    BY <1>1, <1>4, <2>1, <2>2, <2>3, <2>4, CallMoves
<1>5. CASE Submit
  <2>1. ToCome(call.attempt) /\ told[call.attempt] = NoChan
    BY <1>1, <1>5 DEF Submit, ToCome, ChainInv, RowsOK
  <2>2. CASE turnCtx = "cancelled" /\ UNCHANGED vars /\ call' = Unanswered("denied")
    <3>1. UNCHANGED <<status, by, thr, told, faults, waitCtx, turnCtx, stop>>
      BY <1>5, <2>2 DEF Submit, vars
    <3> QED
      BY <1>1, <2>1, <2>2, <3>1, CallUnanswered DEF NoChan
  <2>3. CASE /\ CreateRow(call.attempt)
             /\ call' = IF sub'[call.attempt] = "done" THEN Unanswered("denied")
                        ELSE [call EXCEPT !.pc = "submitting"]
    <3>1. UNCHANGED <<by, thr, waitCtx, turnCtx, stop>>
      BY <1>5, <2>3 DEF Submit, CreateRow
    <3>2. CASE sub' = [sub EXCEPT ![call.attempt] = "done"]
      <4>1. /\ status' = status /\ faults' = faults + 1
            /\ told' = [told EXCEPT ![call.attempt] = [status |-> "denied", err |-> TRUE]]
        BY <1>1, <2>3, <3>2 DEF CreateRow, Fail, TInv, TypeOK
      <4>2. faults' = 0 => faults = 0
        BY <1>1, <4>1 DEF TInv, TypeOK
      <4>3. told'[call.attempt] = [status |-> "denied", err |-> TRUE]
        BY <1>1, <4>1 DEF TInv, TypeOK
      <4>4. \A a \in Requests : a # call.attempt => told'[a] = told[a]
        BY <1>1, <4>1 DEF TInv, TypeOK
      <4>5. call' = Unanswered("denied")
        BY <1>1, <2>3, <3>2 DEF TInv, TypeOK
      <4> QED
        BY <1>1, <3>1, <4>1, <4>2, <4>3, <4>4, <4>5, CallUnanswered
    <3>3. CASE sub' = [sub EXCEPT ![call.attempt] = "creating"]
      <4>1. /\ status' = [status EXCEPT ![call.attempt] = "pending"]
            /\ UNCHANGED <<told, faults>>
        BY <1>1, <2>3, <3>3 DEF CreateRow, TInv, TypeOK
      <4>2. call' = [call EXCEPT !.pc = "submitting"]
        BY <1>1, <2>3, <3>3 DEF TInv, TypeOK
      <4>3. /\ call'.pc = "submitting" /\ call'.attempt = call.attempt /\ call'.outcome = "none"
            /\ call'.granted = "none" /\ ChainTypeOK'
        BY <1>1, <1>2, <3>1, <4>2 DEF ChainTypeOK
      <4>4. \A a \in Requests : a # call.attempt => status'[a] = status[a]
        BY <1>1, <4>1 DEF TInv, TypeOK
      <4>5. RowsOK'
        <5>1. \A a \in Requests : ToCome(a)' => ToCome(a) /\ a # call.attempt
          BY <1>3, <4>3 DEF ToCome
        <5>2. \A a \in Requests : a < call.attempt => a # call.attempt
          BY <1>1, AttemptsAssumption
        <5> QED
          BY <4>1, <4>3, <4>4, <5>1, <5>2 DEF RowsOK, ChainInv
      <4>6. EngineOK'
        BY <1>1, <3>1, <4>3 DEF EngineOK, Closing
      <4>7. ByOK'
        <5>1. \A a \in Requests : status'[a] = "approved" => status[a] = "approved"
          BY <1>1, <4>1 DEF TInv, TypeOK
        <5> QED
          BY <3>1, <5>1 DEF ByOK, ChainInv
      <4>8. EndingOK'
        BY <4>3 DEF EndingOK, AnswerStands
      <4> QED
        BY <4>3, <4>5, <4>6, <4>7, <4>8 DEF ChainInv
    <3> QED
      BY <2>3, <3>2, <3>3 DEF CreateRow
  <2> QED
    BY <1>5, <2>2, <2>3 DEF Submit
<1>6. CASE Arm
  <2>1. waitCtx' \in {"live", "deadline", "cancelled"}
    BY <1>1, <1>6 DEF Arm, ChainTypeOK
  <2> QED
    BY <1>4, <1>6, <2>1 DEF Arm, RegisterClosure
<1>7. CASE Wait
  BY <1>1, <1>4, <1>7 DEF Wait, EnrollAfter, ChainTypeOK
<1>8. CASE Wake
  <2>1. /\ UNCHANGED <<status, by, thr, faults, waitCtx, turnCtx, stop>>
        /\ call' = [call EXCEPT !.pc = "woken"]
    BY <1>8 DEF Wake, Receive, StopWaiting
  <2>2. PICK v : /\ told' = [told EXCEPT ![call.attempt] = v]
                 /\ v = chan[call.attempt] \/ v.status = "expired"
    BY <1>8 DEF Wake, Receive, StopWaiting
  <2>3. v.status = "approved" => status[call.attempt] = "approved"
    BY <1>1, <2>2 DEF AnswerInv, Terminal, Decided
  <2>4. /\ told'[call.attempt] = v
        /\ \A a \in Requests : a # call.attempt => told'[a] = told[a]
    BY <1>1, <2>2 DEF TInv, TypeOK
  <2>5. waitCtx' \in {"live", "deadline", "cancelled"}
    BY <1>1, <2>1 DEF ChainTypeOK
  <2> QED
    BY <1>4, <2>1, <2>3, <2>4, <2>5
<1> QED
  BY <1>5, <1>6, <1>7, <1>8

(* The answer is judged; a row left open is closed through the manager.    *)
LEMMA JudgeSteps ==
    ASSUME BaseInv, ChainInv, Judge
    PROVE  ChainInv'
<1> USE DEF rowVars, subVars, ruleVars, runVars
<1>1. /\ ChainTypeOK /\ TInv /\ call.attempt \in Requests
      /\ ~Closing /\ thr[Engine].pc = "idle"
      /\ call.pc = "woken" /\ call.outcome = "none" /\ call.granted = "none"
  BY EngineIdle DEF Judge, ChainInv, Closing, EndingOK, BaseInv, ChainTypeOK
<1>2. UNCHANGED <<status, by, told, faults, waitCtx, turnCtx, stop>>
  BY DEF Judge
<1>3. ASSUME NEW p \in {"aborting", "withdrawing"}, call' = [call EXCEPT !.pc = p],
             p = "withdrawing" => call.attempt # MaxAttempts,
             NEW y \in {ResolveCall(call.attempt, "denied", "none"), AbortCall(call.attempt)},
             thr' = [thr EXCEPT ![Engine] = y]
      PROVE  ChainInv'
  <2>1. /\ y.pc = "update" /\ y.cur = call.attempt /\ y.own = call.attempt /\ y.rule = NoRule
        /\ y.via \in {"resolve", "abort"}
    BY <1>3 DEF ResolveCall, AbortCall, IdleThread, RuleFor
  <2>2. /\ call'.pc = p /\ call'.attempt = call.attempt /\ call'.outcome = "none"
        /\ call'.granted = "none" /\ ChainTypeOK'
    BY <1>1, <1>2, <1>3 DEF ChainTypeOK, ChainPcs
  <2>3. thr'[Engine] = y /\ \A t \in Threads : t # Engine => thr'[t] = thr[t]
    BY <1>1, <1>3, EngineAssumption DEF TInv, TypeOK
  <2>4. RowsOK'
    <3>1. \A a \in Requests : ToCome(a)' => ToCome(a)
      BY <2>2 DEF ToCome
    <3> QED
      BY <1>2, <1>3, <2>2, <3>1 DEF ChainInv, RowsOK
  <2>5. EngineOK'
    BY <1>2, <2>1, <2>2, <2>3 DEF EngineOK, Closing
  <2>6. ByOK'
    BY <1>2, <2>1, <2>3 DEF ByOK, ChainInv
  <2>7. EndingOK'
    BY <2>2 DEF EndingOK, AnswerStands
  <2> QED
    BY <2>2, <2>4, <2>5, <2>6, <2>7 DEF ChainInv
<1>4. CASE /\ ~StopWins /\ TimedOut /\ call' = Unanswered("approval_timeout") /\ UNCHANGED thr
  BY <1>1, <1>2, <1>4, CallUnanswered DEF TimedOut
<1>5. CASE /\ Approved /\ call' = Ended("approved", "row") /\ UNCHANGED thr
  <2>1. status[call.attempt] = "approved"
    BY <1>1, <1>5 DEF Approved, ChainInv, EndingOK
  <2> QED
    BY <1>1, <1>2, <1>5, <2>1, CallEnding DEF Outcomes
<1>6. CASE call' = Denied /\ UNCHANGED thr
  BY <1>1, <1>2, <1>6, CallEnding DEF Denied, Outcomes
<1> QED
  BY <1>3, <1>4, <1>5, <1>6 DEF Judge, AbortRow, Withdraw, EngineCalls, LastAttempt

(* The row is closed: the call ends, or its next attempt begins.           *)
LEMMA AfterCallSteps ==
    ASSUME BaseInv, ChainInv, AfterCall
    PROVE  ChainInv'
<1>1. /\ ChainTypeOK /\ TInv /\ call.attempt \in Requests /\ thr[Engine].pc = "idle"
      /\ call.pc # "ended" /\ call.outcome = "none" /\ call.granted = "none" /\ Closing
  BY DEF AfterCall, ChainInv, Closing, EndingOK, BaseInv, ChainTypeOK
<1>2. UNCHANGED <<status, by, thr, told, faults, waitCtx, turnCtx, stop>>
  BY DEF AfterCall, vars
<1>3. faults > 0 \/ status[call.attempt] # "pending"
  BY <1>1 DEF ChainInv, EngineOK
<1>4. CASE call' = Ended("aborted", "none")
  BY <1>1, <1>2, <1>3, <1>4, CallEnding DEF Outcomes
<1>5. CASE call.pc = "withdrawing" /\ call' = [call EXCEPT !.pc = "submit", !.attempt = @ + 1]
  <2>1. call.attempt # MaxAttempts
    BY <1>5 DEF ChainInv, RowsOK
  <2>2. /\ call'.pc = "submit" /\ call'.attempt = call.attempt + 1 /\ call'.outcome = "none"
        /\ call'.granted = "none" /\ ChainTypeOK'
    <3>1. PICK n : n = call.attempt + 1
      OBVIOUS
    <3>2. n \in Requests
      BY <1>1, <2>1, <3>1, AttemptsAssumption
    <3>3. call' = [call EXCEPT !.pc = "submit", !.attempt = n]
      BY <1>1, <1>5, <3>1 DEF ChainTypeOK
    <3>4. /\ call'.pc = "submit" /\ call'.attempt = n /\ call'.outcome = "none"
          /\ call'.granted = "none" /\ ChainTypeOK'
      BY <1>1, <1>2, <3>2, <3>3 DEF ChainTypeOK, ChainPcs
    <3> QED
      BY <3>1, <3>4
  <2>3. RowsOK'
    <3>1. \A a \in Requests : ToCome(a)' => ToCome(a)
      BY <1>1, <2>2, AttemptsAssumption DEF ToCome
    <3>2. \A a \in Requests : a < call'.attempt => a < call.attempt \/ a = call.attempt
      BY <1>1, <2>2, AttemptsAssumption
    <3>3. faults' = 0 => \A a \in Requests : a < call'.attempt => status'[a] # "pending"
      BY <1>2, <1>3, <3>2 DEF ChainInv, RowsOK
    <3> QED
      BY <1>2, <2>2, <3>1, <3>3 DEF ChainInv, RowsOK
  <2>4. EngineOK'
    BY <1>1, <1>2, <2>2 DEF EngineOK, Closing
  <2>5. ByOK'
    BY <1>2 DEF ByOK, ChainInv
  <2>6. EndingOK'
    BY <2>2 DEF EndingOK, AnswerStands
  <2> QED
    BY <2>2, <2>3, <2>4, <2>5, <2>6 DEF ChainInv
<1> QED
  BY <1>4, <1>5 DEF AfterCall

(* Deadlines and stops touch the contexts of a call that has not ended.    *)
LEMMA ContextSteps ==
    ASSUME ChainInv, Deadline \/ StopRequested \/ StopSeen \/ TurnKilled
    PROVE  ChainInv'
<1>1. /\ UNCHANGED <<call, status, by, thr, told, sub, faults>> /\ call.pc # "ended"
      /\ ChainTypeOK /\ call.outcome = "none"
  BY DEF Deadline, StopRequested, StopSeen, TurnKilled, InWait, vars, ChainInv, EndingOK
<1>2. ChainTypeOK'
  BY <1>1 DEF ChainTypeOK, Deadline, StopRequested, StopSeen, TurnKilled
<1>3. RowsOK' /\ EngineOK' /\ ByOK'
  BY <1>1 DEF ChainInv, RowsOK, ToCome, EngineOK, Closing, ByOK
<1>4. EndingOK'
  BY <1>1 DEF ChainInv, EndingOK, AnswerStands
<1> QED
  BY <1>2, <1>3, <1>4 DEF ChainInv

-----------------------------------------------------------------------------
(* The manager's other callers.                                            *)

(* What they all leave alone: the goroutine that submits, what it was told *)
(* and rows that do not exist yet.                                         *)
LEMMA ManagerFrame ==
    ASSUME BaseInv, Manager
    PROVE  /\ UNCHANGED <<sub, told, chainVars>> /\ Moves
           /\ \A r \in Requests : status[r] = "absent" => status'[r] = "absent"
<1> USE DEF rowVars, subVars, ruleVars, runVars
<1>1. /\ Next /\ UNCHANGED chainVars
      /\ TInv /\ ActionInv
  BY DEF Manager, Operators, Next, BaseInv
<1>2. Moves
  BY <1>1, RowsMove
<1>3. UNCHANGED <<sub, told>>
  BY DEF Manager, Operators, Begin, StartResolve, StartCallback, StartAbort, StartAddRule,
         SetConfigRules, Start, Work, Select, Update, Get, Settle, RunAction, StoreRule, List,
         SweepNext, Notify, ExpireBefore, DropSessionRules, RemoveAutoApproveRule
<1>4. ASSUME NEW r \in Requests, status[r] = "absent" PROVE status'[r] = "absent"
  <2>1. ASSUME NEW t \in Threads, Begin(t) PROVE status' = status
    BY <2>1 DEF Begin, StartResolve, StartCallback, StartAbort, StartAddRule, SetConfigRules, Start
  <2>2. ASSUME NEW t \in Threads, Work(t) PROVE status'[r] = status[r]
    <3>1. CASE Update(t)
      BY <1>1, <1>4, <3>1 DEF Update, Updatable, TInv, TypeOK
    <3> QED
      BY <2>2, <3>1 DEF Work, Select, Get, Settle, RunAction, StoreRule, List, SweepNext, Notify
  <2>3. CASE ExpireBefore \/ DropSessionRules \/ RemoveAutoApproveRule
    BY <1>4, <2>3 DEF ExpireBefore, DropSessionRules, RemoveAutoApproveRule
  <2> QED
    BY <1>4, <2>1, <2>2, <2>3 DEF Manager, Operators
<1> QED
  BY <1>1, <1>2, <1>3, <1>4

(* A goroutine that goes on keeps its call, or has none any more.          *)
LEMMA WorkKeepsOwn ==
    ASSUME TInv, NEW t \in Threads, Work(t)
    PROVE  /\ \A u \in Threads : u # t => thr'[u] = thr[u]
           /\ \/ thr'[t].own = NoRequest
              \/ thr'[t].own = thr[t].own /\ thr'[t].via = thr[t].via
<1> USE DEF TInv, TypeOK, rowVars, subVars, ruleVars, runVars
<1>1. thr[t] \in Thread /\ thr \in [Threads -> Thread]
  OBVIOUS
<1>2. ASSUME NEW y, thr' = [thr EXCEPT ![t] = y],
             y.own = NoRequest \/ (y.own = thr[t].own /\ y.via = thr[t].via)
      PROVE  /\ \A u \in Threads : u # t => thr'[u] = thr[u]
             /\ \/ thr'[t].own = NoRequest
                \/ thr'[t].own = thr[t].own /\ thr'[t].via = thr[t].via
  BY <1>1, <1>2
<1>3. Return(t).own = NoRequest
  BY DEF Return, IdleThread
<1>4. /\ AfterError(t).own = NoRequest \/ (AfterError(t).own = thr[t].own /\ AfterError(t).via = thr[t].via)
      /\ EndOfSweep(t).own = NoRequest \/ (EndOfSweep(t).own = thr[t].own /\ EndOfSweep(t).via = thr[t].via)
  BY <1>1, <1>3 DEF AfterError, EndOfSweep, Thread
<1>5. \A err : AfterAction(t, err).own = thr[t].own /\ AfterAction(t, err).via = thr[t].via
  BY <1>1 DEF AfterAction, Thread
<1>6. CASE Select(t)
  BY <1>1, <1>2, <1>3, <1>6 DEF Select, Thread
<1>7. CASE Update(t)
  BY <1>1, <1>2, <1>4, <1>7 DEF Update, Thread
<1>8. CASE Get(t)
  BY <1>1, <1>2, <1>3, <1>8 DEF Get, Thread
<1>9. CASE Settle(t)
  BY <1>1, <1>2, <1>5, <1>9 DEF Settle, Thread
<1>10. CASE RunAction(t)
  BY <1>1, <1>2, <1>5, <1>10 DEF RunAction, Thread
<1>11. CASE StoreRule(t)
  BY <1>1, <1>2, <1>4, <1>11 DEF StoreRule, Thread
<1>12. CASE List(t)
  BY <1>1, <1>2, <1>4, <1>12 DEF List, Thread
<1>13. CASE SweepNext(t)
  BY <1>1, <1>2, <1>13 DEF SweepNext, Thread
<1>14. CASE Notify(t)
  BY <1>1, <1>2, <1>3, <1>14 DEF Notify, Thread
<1> QED
  BY <1>6, <1>7, <1>8, <1>9, <1>10, <1>11, <1>12, <1>13, <1>14 DEF Work

(* A row approved by this step is approved by a call on it, or a sweep.    *)
LEMMA WorkBy ==
    ASSUME BaseInv, ByOK, NEW t \in Threads, Work(t)
    PROVE  ByOK'
<1> USE DEF rowVars, subVars, ruleVars, runVars
<1>1. TInv /\ CallsOK
  BY DEF BaseInv
<1>2. \A u \in Threads : \/ thr'[u].own = NoRequest
                         \/ thr'[u].via \in {"resolve", "callback", "abort"}
  BY <1>1, WorkKeepsOwn DEF ByOK
<1>3. ASSUME UNCHANGED <<status, by>> PROVE ByOK'
  BY <1>2, <1>3 DEF ByOK
<1>4. CASE Update(t)
  <2>1. CASE UNCHANGED <<status, by>>
    BY <1>3, <2>1
  <2>2. CASE status[thr[t].cur] = "pending" /\ status' # status
    <3>1. thr[t].cur \in Requests /\ KindOK(thr[t]) /\ thr[t].pc = "update" /\ thr[t] \in Thread
      BY <1>1, <1>4 DEF CallsOK, KindOK, Update, TInv, TypeOK
    <3> DEFINE via == IF Sweeping(t) THEN "auto" ELSE thr[t].via
    <3>2. /\ status' = [status EXCEPT ![thr[t].cur] = thr[t].verdict]
          /\ by' = [by EXCEPT ![thr[t].cur] = [via |-> via, rule |-> thr[t].rule]]
      BY <1>4, <2>2 DEF Update
    <3>3. thr[t].verdict = "approved" => via \in {"resolve", "callback", "auto"}
      <4>1. CASE Sweeping(t)
        BY <4>1
      <4>2. CASE ~Sweeping(t)
        <5>1. thr[t].own # NoRequest /\ thr[t].own \in Requests
          BY <3>1, <4>2, RequestsAssumption DEF Sweeping
        <5>2. thr[t].via \in {"resolve", "callback", "abort"}
          BY <5>1 DEF ByOK
        <5>3. thr[t].via = "abort" => thr[t].verdict = "aborted"
          BY <3>1 DEF KindOK
        <5> QED
          BY <4>2, <5>2, <5>3
      <4> QED
        BY <4>1, <4>2
    <3>4. by'[thr[t].cur].via = via /\ status'[thr[t].cur] = thr[t].verdict
      BY <1>1, <3>1, <3>2 DEF TInv, TypeOK
    <3>5. \A r \in Requests : r # thr[t].cur => by'[r] = by[r] /\ status'[r] = status[r]
      BY <1>1, <3>2 DEF TInv, TypeOK
    <3> QED
      BY <1>2, <3>3, <3>4, <3>5 DEF ByOK
  <2>3. CASE status' = status /\ by' # by
    <3>1. /\ status[thr[t].cur] = "pending"
          /\ status' = [status EXCEPT ![thr[t].cur] = thr[t].verdict]
      BY <1>4, <2>3 DEF Update, Updatable
    <3>2. thr[t].cur \in Requests /\ thr[t].verdict \in Decided
      BY <1>1, <1>4 DEF CallsOK, KindOK, Applied, Update, TInv, ThreadsOK, WellFormed
    <3>3. status'[thr[t].cur] = thr[t].verdict
      BY <1>1, <3>1, <3>2 DEF TInv, TypeOK
    <3> QED
      BY <2>3, <3>1, <3>2, <3>3 DEF Decided
  <2> QED
    BY <1>4, <2>1, <2>2, <2>3 DEF Update, Updatable
<1> QED
  BY <1>3, <1>4 DEF Work, Select, Get, Settle, RunAction, StoreRule, List, SweepNext, Notify

(* Nor does any other of the manager's steps approve a row unaccountably.  *)
LEMMA ManagerBy ==
    ASSUME BaseInv, ByOK, Manager
    PROVE  ByOK'
<1> USE DEF rowVars, subVars, ruleVars, runVars
<1>1. TInv
  BY DEF BaseInv
<1>2. ASSUME NEW t \in Threads, Begin(t) PROVE ByOK'
  <2>1. UNCHANGED <<status, by>>
    BY <1>2 DEF Begin, StartResolve, StartCallback, StartAbort, StartAddRule, SetConfigRules, Start
  <2>2. ASSUME NEW y, thr' = [thr EXCEPT ![t] = y],
               y.own = NoRequest \/ y.via \in {"resolve", "callback", "abort"}
        PROVE  ByOK'
    BY <1>1, <2>1, <2>2 DEF ByOK, TInv, TypeOK
  <2>3. ASSUME NEW r, NEW v, NEW s
        PROVE  /\ ResolveCall(r, v, s).via = "resolve"
               /\ [ResolveCall(r, v, s) EXCEPT !.pc = "select", !.via = "callback"].via = "callback"
               /\ AbortCall(r).via = "abort"
    BY DEF ResolveCall, AbortCall, IdleThread
  <2>4. CASE StartResolve(t)
    <3>1. PICK r \in Requests, v \in {"approved", "denied"}, s \in RuleScopes \union {"none"} :
            thr' = [thr EXCEPT ![t] = ResolveCall(r, v, s)]
      BY <2>4 DEF StartResolve, Start
    <3>2. ResolveCall(r, v, s).via = "resolve"
      BY <2>3
    <3> QED
      BY <2>2, <3>1, <3>2
  <2>5. CASE StartCallback(t)
    <3>1. PICK r \in Requests, v \in {"approved", "denied"}, s \in RuleScopes \union {"none"} :
            thr' = [thr EXCEPT ![t] = [ResolveCall(r, v, s) EXCEPT !.pc = "select", !.via = "callback"]]
      BY <2>5 DEF StartCallback, Start
    <3>2. [ResolveCall(r, v, s) EXCEPT !.pc = "select", !.via = "callback"].via = "callback"
      BY <2>3
    <3> QED
      BY <2>2, <3>1, <3>2
  <2>6. CASE StartAbort(t)
    BY <2>2, <2>3, <2>6 DEF StartAbort, Start
  <2>7. CASE StartAddRule(t)
    <3>1. \A r : [IdleThread EXCEPT !.pc = "store", !.via = "rule", !.rule = r].own = NoRequest
      BY DEF IdleThread
    <3> QED
      BY <2>2, <2>7, <3>1 DEF StartAddRule, Start
  <2>8. CASE SetConfigRules(t)
    <3>1. \A r, k : [IdleThread EXCEPT !.pc = "list", !.via = "rule", !.rule = r,
                                       !.todo = k].own = NoRequest
      BY DEF IdleThread
    <3> QED
      BY <2>2, <2>8, <3>1 DEF SetConfigRules
  <2> QED
    BY <1>2, <2>4, <2>5, <2>6, <2>7, <2>8 DEF Begin
<1>3. CASE ExpireBefore
  BY <1>1, <1>3 DEF ExpireBefore, ByOK, TInv, TypeOK
<1>4. CASE DropSessionRules \/ RemoveAutoApproveRule
  BY <1>4 DEF DropSessionRules, RemoveAutoApproveRule, ByOK
<1> QED
  BY <1>2, <1>3, <1>4, WorkBy DEF Manager, Operators

(* The engine's own call goes from the store to its return, and leaves its *)
(* row decided if the store took the decision.                             *)
LEMMA EngineWork ==
    ASSUME BaseInv, ChainInv, Work(Engine), UNCHANGED chainVars
    PROVE  EngineOK'
<1> USE DEF rowVars, subVars, ruleVars, runVars
<1>1. /\ TInv /\ AnswerInv /\ Engine \in Threads /\ call.attempt \in Requests
      /\ thr[Engine] \in Thread /\ thr \in [Threads -> Thread] /\ faults \in Nat
  BY EngineAssumption DEF BaseInv, TInv, TypeOK, ChainInv, ChainTypeOK
<1>2. thr[Engine].pc # "idle"
  BY DEF Work, Select, Update, Get, Settle, RunAction, StoreRule, List, SweepNext, Notify
<1>3. PICK x : x = thr[Engine]
  OBVIOUS
<1>4. /\ Closing /\ x.own = call.attempt /\ x.cur = call.attempt /\ x.rule = NoRule
      /\ x.pc \in {"update", "get", "settle", "run", "notify"} /\ x \in Thread
  BY <1>1, <1>2, <1>3 DEF ChainInv, EngineOK
<1>5. call' = call /\ ~Sweeping(Engine)
  BY <1>3, <1>4 DEF chainVars, Sweeping
<1>6. ASSUME NEW y, thr' = [thr EXCEPT ![Engine] = y],
             \/ y.pc = "idle"
             \/ /\ y.pc \in {"get", "settle", "run", "notify"}
                /\ y.own = x.own /\ y.cur = x.cur /\ y.rule = x.rule,
             faults' > 0 \/ status'[call.attempt] # "pending"
      PROVE  EngineOK'
  <2>1. thr'[Engine] = y
    BY <1>1, <1>6
  <2> QED
    BY <1>4, <1>5, <1>6, <2>1 DEF EngineOK, Closing
<1>7. AfterError(Engine) = Return(Engine) /\ Return(Engine).pc = "idle"
  BY <1>5 DEF AfterError, Return, IdleThread
<1>8. x.pc # "update" => faults > 0 \/ status[call.attempt] # "pending"
  BY <1>3, <1>4 DEF ChainInv, EngineOK
<1>9. Fail => faults' > 0
  BY <1>1 DEF Fail
<1>10. ASSUME NEW err PROVE /\ AfterAction(Engine, err).pc = "notify"
                            /\ AfterAction(Engine, err).own = x.own
                            /\ AfterAction(Engine, err).cur = x.cur
                            /\ AfterAction(Engine, err).rule = x.rule
  BY <1>3, <1>4 DEF AfterAction, Thread
<1>11. CASE Update(Engine)
  <2>1. /\ \/ status' = [status EXCEPT ![call.attempt] = x.verdict]
           \/ status' = status /\ status[call.attempt] # "pending"
           \/ Fail
        /\ x.verdict \in Decided
    BY <1>1, <1>3, <1>4, <1>11 DEF Update, Updatable, TInv, ThreadsOK, WellFormed
  <2>2. faults' > 0 \/ status'[call.attempt] # "pending"
    BY <1>1, <1>9, <2>1 DEF Decided, TInv, TypeOK
  <2>3. CASE thr' = [thr EXCEPT ![Engine] = AfterError(Engine)]
    BY <1>6, <1>7, <2>2, <2>3
  <2>4. ASSUME NEW p \in {"get", "settle"}, thr' = [thr EXCEPT ![Engine] = [x EXCEPT !.pc = p]]
        PROVE  EngineOK'
    <3>1. PICK y : y = [x EXCEPT !.pc = p]
      OBVIOUS
    <3>2. y.pc = p /\ y.own = x.own /\ y.cur = x.cur /\ y.rule = x.rule
      BY <1>4, <3>1 DEF Thread
    <3> QED
      BY <1>6, <2>2, <2>4, <3>1, <3>2
  <2> QED
    BY <1>3, <1>11, <2>3, <2>4 DEF Update
<1>12. CASE ~Update(Engine)
  <2>1. status' = status /\ (faults' = faults \/ Fail) /\ x.pc # "update"
    BY <1>3, <1>4, <1>12 DEF Work, Select, Get, Settle, RunAction, StoreRule, List, SweepNext, Notify
  <2>2. faults' > 0 \/ status'[call.attempt] # "pending"
    BY <1>8, <1>9, <2>1
  <2>3. ASSUME NEW p \in {"settle", "run", "notify"}, NEW e,
               thr' = [thr EXCEPT ![Engine] = [x EXCEPT !.pc = p, !.err = e]]
        PROVE  EngineOK'
    <3>1. PICK y : y = [x EXCEPT !.pc = p, !.err = e]
      OBVIOUS
    <3>2. y.pc = p /\ y.own = x.own /\ y.cur = x.cur /\ y.rule = x.rule
      BY <1>4, <3>1 DEF Thread
    <3> QED
      BY <1>6, <2>2, <2>3, <3>1, <3>2
  <2>4. \A p \in {"settle", "run", "notify"} : [x EXCEPT !.pc = p] = [x EXCEPT !.pc = p, !.err = x.err]
    BY <1>4 DEF Thread
  <2>5. CASE thr' = [thr EXCEPT ![Engine] = Return(Engine)]
    BY <1>6, <1>7, <2>2, <2>5
  <2>6. ASSUME NEW err, thr' = [thr EXCEPT ![Engine] = AfterAction(Engine, err)] PROVE EngineOK'
    BY <1>6, <1>10, <2>2, <2>6
  <2>7. ASSUME NEW p \in {"settle", "run", "notify"}, thr' = [thr EXCEPT ![Engine] = [x EXCEPT !.pc = p]]
        PROVE  EngineOK'
    BY <2>3, <2>4, <2>7
  <2>8. CASE Get(Engine)
    BY <1>3, <2>3, <2>5, <2>7, <2>8 DEF Get
  <2>9. CASE Settle(Engine)
    BY <1>3, <2>6, <2>7, <2>9 DEF Settle
  <2>10. CASE RunAction(Engine)
    BY <2>6, <2>10 DEF RunAction
  <2>11. CASE Notify(Engine)
    BY <1>3, <1>4, <1>5, <2>5, <2>11 DEF Notify
  <2> QED
    BY <1>3, <1>4, <1>12, <2>8, <2>9, <2>10, <2>11
       DEF Work, Select, StoreRule, List, SweepNext
<1> QED
  BY <1>11, <1>12

(* The operators, the sweeps and the expiry worker keep what the call      *)
(* relies on.                                                              *)
LEMMA ManagerSteps ==
    ASSUME BaseInv, ChainInv, Manager
    PROVE  ChainInv'
<1> USE DEF rowVars, subVars, ruleVars, runVars
<1>1. /\ UNCHANGED <<sub, told, call, waitCtx, turnCtx, stop>> /\ Moves
      /\ \A r \in Requests : status[r] = "absent" => status'[r] = "absent"
  BY ManagerFrame DEF chainVars
<1>2. TInv /\ ChainTypeOK /\ call.attempt \in Requests
  BY DEF BaseInv, ChainInv, ChainTypeOK
<1>3. faults' > 0 \/ faults = 0
  <2>1. TInv'
    BY KnownBase, <1>2 DEF Manager, Operators, Next, BaseInv
  <2> QED
    BY <1>1, <1>2, <2>1 DEF Moves, TInv, TypeOK
<1>4. \A r \in Requests : status'[r] = "pending" => status[r] = "pending"
  BY <1>1 DEF Moves
<1>5. \A r \in Requests : status[r] = "approved" => status'[r] = "approved"
  BY <1>1 DEF Moves, Terminal, Decided
<1>6. ChainTypeOK'
  BY <1>1, <1>2 DEF ChainTypeOK
<1>7. RowsOK'
  BY <1>1, <1>4 DEF ChainInv, RowsOK, ToCome, Moves
<1>8. EngineOK'
  <2>1. ASSUME thr'[Engine] = thr[Engine] PROVE EngineOK'
    BY <1>1, <1>2, <1>3, <1>4, <2>1 DEF ChainInv, EngineOK, Closing, TInv, TypeOK
  <2>2. ASSUME NEW t \in Operators, Begin(t) PROVE thr'[Engine] = thr[Engine]
    BY <1>2, <2>2, EngineAssumption
       DEF Operators, Begin, StartResolve, StartCallback, StartAbort, StartAddRule,
           SetConfigRules, Start, TInv, TypeOK
  <2>3. ASSUME NEW t \in Threads, t # Engine, Work(t) PROVE thr'[Engine] = thr[Engine]
    BY <1>2, <2>3, WorkKeepsOwn, EngineAssumption
  <2>4. CASE ExpireBefore \/ DropSessionRules \/ RemoveAutoApproveRule
    BY <2>1, <2>4 DEF ExpireBefore, DropSessionRules, RemoveAutoApproveRule
  <2>5. CASE Work(Engine)
    BY <2>5, EngineWork DEF Manager
  <2> QED
    BY <2>1, <2>2, <2>3, <2>4, <2>5 DEF Manager
<1>9. ByOK'
  BY ManagerBy DEF ChainInv
<1>10. EndingOK'
  BY <1>1, <1>2, <1>3, <1>4, <1>5 DEF ChainInv, EndingOK, AnswerStands
<1> QED
  BY <1>6, <1>7, <1>8, <1>9, <1>10 DEF ChainInv

-----------------------------------------------------------------------------
(* Seen from the manager, a step of the call is a step the manager knows,  *)
(* or one of the three that only the chain takes.                          *)
LEMMA ChainActions ==
    ASSUME ChainInv, [ChainNext]_allVars
    PROVE  \/ [Next]_vars
           \/ Rules
           \/ StopWaiting(call.attempt) /\ UNCHANGED ends
           \/ EngineCloses(call.attempt)
<1>1. call.attempt \in Requests
  BY DEF ChainInv, ChainTypeOK
<1>2. CASE UNCHANGED allVars
  BY <1>2 DEF allVars
<1>3. CASE Decider \/ Supervisor \/ NoSurface \/ AfterCall
  BY <1>3 DEF Decider, Supervisor, NoSurface, AfterCall
<1>4. CASE Deadline \/ StopRequested \/ StopSeen \/ TurnKilled
  BY <1>4 DEF Deadline, StopRequested, StopSeen, TurnKilled
<1>5. CASE Submit \/ Arm \/ Wait
  BY <1>1, <1>5 DEF Submit, Arm, Wait, Next, Submitter
<1>6. CASE Wake
  BY <1>1, <1>6 DEF Wake, Next, Submitter
<1>7. CASE Judge
  <2>1. /\ UNCHANGED <<status, by, registry, chan, sub, told, sessionRules, permRules, configRules>>
        /\ UNCHANGED <<ran, failed, audits, calls, faults, ends>>
    BY <1>7 DEF Judge, rowVars, subVars, ruleVars, runVars
  <2>2. UNCHANGED thr => UNCHANGED vars
    BY <2>1 DEF vars
  <2> QED
    BY <1>7, <2>1, <2>2 DEF Judge, Withdraw, AbortRow, EngineCloses
<1>8. CASE Manager
  BY <1>8 DEF Manager, Operators, Next
<1> QED
  BY <1>2, <1>3, <1>4, <1>5, <1>6, <1>7, <1>8 DEF ChainNext, Chain

(* Every step keeps what is known of the manager and of the call.          *)
LEMMA ChainStep == BaseInv /\ ChainInv /\ [ChainNext]_allVars => BaseInv' /\ ChainInv'
<1> SUFFICES ASSUME BaseInv, ChainInv, [ChainNext]_allVars PROVE BaseInv' /\ ChainInv'
  OBVIOUS
<1>1. BaseInv'
  <2>1. call.attempt \in Requests
    BY DEF ChainInv, ChainTypeOK
  <2>2. CASE [Next]_vars
    BY <2>2, KnownBase
  <2>3. CASE Rules
    BY <2>3, RulesBase DEF ChainInv
  <2>4. CASE StopWaiting(call.attempt) /\ UNCHANGED ends
    BY <2>1, <2>4, StopBase
  <2>5. CASE EngineCloses(call.attempt)
    BY <2>1, <2>5, EngineBase
  <2> QED
    BY <2>2, <2>3, <2>4, <2>5, ChainActions
<1>2. CASE UNCHANGED allVars
  BY <1>1, <1>2 DEF allVars, vars, chainVars, ChainInv, ChainTypeOK, RowsOK, ToCome, EngineOK, Closing,
              ByOK, EndingOK, AnswerStands
<1> QED
  BY <1>1, <1>2, ReviewSteps, AttemptSteps, JudgeSteps, AfterCallSteps, ContextSteps, ManagerSteps
     DEF ChainNext, Chain

(* So both hold in every state of the call.                                *)
LEMMA ChainAlways == ChainSpec => [](BaseInv /\ ChainInv)
<1>1. ChainInit => BaseInv /\ ChainInv
  BY ChainStart
<1>2. BaseInv /\ ChainInv /\ [ChainNext]_allVars => (BaseInv /\ ChainInv)'
  BY ChainStep
<1> QED
  BY <1>1, <1>2, PTL DEF ChainSpec

(* A call runs on a human's word only if the row of its last attempt is    *)
(* approved, by someone who answered that row or by a rule's sweep, and on *)
(* a reviewer's word only if the reviewer did not fail, however the turn's *)
(* retries, its stop and the operators' answers interleave                 *)
(* (resolveSupervisedApproval, awaitToolApproval).                         *)
THEOREM GrantedToRun == ChainSpec => []RunsOnlyWhenGranted
<1>1. BaseInv /\ ChainInv => RunsOnlyWhenGranted
  <2> SUFFICES ASSUME BaseInv, ChainInv, call.outcome = "approved", call.granted = "row"
               PROVE  /\ status[call.attempt] = "approved"
                      /\ by[call.attempt].via \in {"resolve", "callback", "auto"}
                      /\ \A a \in 1..(call.attempt - 1) : status[a] # "pending" \/ faults > 0
    BY DEF RunsOnlyWhenGranted, ChainInv, EndingOK
  <2>1. status[call.attempt] = "approved" /\ call.attempt \in Requests /\ faults \in Nat
    BY DEF ChainInv, EndingOK, ChainTypeOK, BaseInv, TInv, TypeOK
  <2>2. by[call.attempt].via \in {"resolve", "callback", "auto"}
    BY <2>1 DEF ChainInv, ByOK
  <2>3. \A a \in 1..(call.attempt - 1) : a \in Requests /\ a < call.attempt
    BY <2>1, AttemptsAssumption
  <2> QED
    BY <2>1, <2>2, <2>3 DEF ChainInv, RowsOK
<1> QED
  BY <1>1, ChainAlways, PTL

(* While the store works a call has at most one open row, whatever its     *)
(* number of attempts, and none once its turn was stopped while it waited: *)
(* the row is closed before the next attempt begins (awaitToolApproval).   *)
THEOREM RowsClosed == ChainSpec => []OneOpenRow
<1>1. BaseInv /\ ChainInv => OneOpenRow
  <2> SUFFICES ASSUME BaseInv, ChainInv, faults = 0 PROVE OneOpenRow
    BY DEF OneOpenRow
  <2>1. call.attempt \in Requests
    BY DEF ChainInv, ChainTypeOK
  <2>2. \A a \in Requests : status[a] = "pending" => a = call.attempt
    <3> SUFFICES ASSUME NEW a \in Requests, status[a] = "pending", a # call.attempt PROVE FALSE
      OBVIOUS
    <3>1. a < call.attempt \/ a > call.attempt
      BY <2>1, AttemptsAssumption
    <3> QED
      BY <3>1 DEF ChainInv, RowsOK, ToCome
  <2>3. call.outcome = "aborted" => status[call.attempt] # "pending"
    BY DEF ChainInv, EndingOK
  <2> QED
    BY <2>2, <2>3 DEF OneOpenRow
<1> QED
  BY <1>1, ChainAlways, PTL

(* A denial that came in time is reported as a denial: only a call that    *)
(* nobody answered is put down to a failed reviewer (afterReviewerError).  *)
THEOREM DenialReported == ChainSpec => []AnswerStands
<1>1. ChainInv => AnswerStands
  BY DEF ChainInv, EndingOK
<1> QED
  BY <1>1, ChainAlways, PTL

(* Driven by the engine the manager still keeps its contract: the chain    *)
(* submits, waits, gives up and closes its own rows, and each row is still *)
(* decided once, acted on once and never answered against its decision.    *)
THEOREM ChainKeepsContract == ChainSpec => ContractKept
<1>1. ChainInit => Contract!Init
  BY DEF ChainInit, Init, Contract!Init, NoChan
<1>2. BaseInv /\ ChainInv /\ [ChainNext]_allVars => [Contract!Next]_Contract!vars
  <2> SUFFICES ASSUME BaseInv, ChainInv, [ChainNext]_allVars
               PROVE  [Contract!Next]_Contract!vars
    OBVIOUS
  <2>1. TInv /\ ActionInv /\ AnswerInv /\ call.attempt \in Requests
    BY DEF BaseInv, ChainInv, ChainTypeOK
  <2>2. CASE [Next]_vars
    BY <2>1, <2>2, ContractStep
  <2>3. CASE UNCHANGED <<status, told, ran>>
    BY <2>3 DEF Contract!vars
  <2>4. CASE StopWaiting(call.attempt)
    <3>1. PICK r \in Requests : r = call.attempt
      BY <2>1
    <3>2. /\ sub[r] # "done" /\ UNCHANGED <<status, ran>>
          /\ told' = [told EXCEPT ![r] = [status |-> "expired", err |-> FALSE]]
      BY <2>4, <3>1 DEF StopWaiting, rowVars, runVars
    <3>3. Answers[r] = "none" /\ Answers' = [Answers EXCEPT ![r] = "expired"]
      BY <2>1, <3>2 DEF Answers, AnswerInv, TInv, TypeOK
    <3>4. Contract!Tell(r)
      BY <3>2, <3>3 DEF Contract!Tell, Answers
    <3> QED
      BY <3>4 DEF Contract!Next
  <2>5. CASE Rules \/ EngineCloses(call.attempt)
    BY <2>3, <2>5 DEF Rules, EngineCloses, rowVars, runVars
  <2> QED
    BY <2>2, <2>4, <2>5, ChainActions
<1> QED
  BY <1>1, <1>2, ChainAlways, PTL DEF ChainSpec, ContractKept, Contract!Spec
=============================================================================
