------------------------------- MODULE OAuth -------------------------------
(***************************************************************************)
(* The OAuth tokens of one remote tool: the handlers that use and refresh  *)
(* them (internal/tool/oauth/handler.go), the row that survives a restart  *)
(* (store.go), and who asks for them and throws them away: the connect and *)
(* revoke requests (internal/api/oauth_handlers.go), registrations         *)
(* (internal/tool/manager.go) and the operations on the tool               *)
(* (lifecycle.go).                                                         *)
(*                                                                         *)
(* The provider rotates refresh tokens: each refresh makes a new one, and  *)
(* one that has been used before reveals its theft, so that the grant is   *)
(* revoked.  A token is the flow that obtained it and how often it was     *)
(* rotated.  What a session does beside asking for its token is Tools.     *)
(***************************************************************************)
EXTENDS PendingAuth, Integers, Sequences

CONSTANTS
    Handlers,       \* oauth.Handler objects; one nobody refers to is reused
    Connects,       \* goroutines that connect requests start
    Settings        \* what a run explores: the actors, the operations, and bounds on how
                    \* often an operation or a request, an authorization, a rotation of a
                    \* grant, a fault or a restart happens

Operator == "operator"      \* operations of the lifecycle manager, under its lock; startup
Caller   == "call"          \* a tool call whose request is answered with 401
Revoker  == "revoke"
Actors   == Connects \union {Operator, Caller, Revoker}
Operations == {"restart", "edit", "update", "remove", "add"}

ASSUME ActorsAssumption == Connects \intersect {Operator, Caller, Revoker} = {}
ASSUME BoundsAssumption ==
    \A s \in Settings : /\ s.actors \subseteq Actors /\ s.menu \subseteq Operations
                        /\ {s.ops, s.asks, s.turns, s.faults, s.crashes} \subseteq Nat

Absent == "absent"          \* the tool has no entry in Manager.servers
Bare   == "bare"            \* its entry has no handler
ASSUME HandlersAssumption == /\ {Absent, Bare, Nobody} \intersect Handlers = {}
                             /\ Handlers # {} /\ Flows # {}

VARIABLES
    store,          \* the row of oauth_tokens
    hand,           \* the handlers
    live,           \* the handler of the tool's entry
    open,           \* handlers of sessions that are not closed
    saving,         \* for each handler, the token its refresh is about to save
    turn,           \* at the provider: rotations of each grant
    revoked,        \* at the provider: grants whose reuse was detected
    job,            \* what each actor is doing
    configured,     \* the tool has a section in the file
    setting,
    lossy,          \* history: grants with a rotation nobody stored, and why
    gone,           \* history: grants thrown away and not stored again
    late,           \* history: actors that began before the last throwing away was over
    stale,          \* history: handlers made before it, or by those, and not cleared since
    ops, faults, crashes

tokens   == <<store, hand, live, open, saving>>
provider == <<turn, revoked>>
bounds   == <<configured, setting, ops, faults, crashes>>
thrown   == <<gone, late, stale>>
vars     == <<registry, tokens, provider, job, bounds, lossy, thrown>>

-----------------------------------------------------------------------------

NoToken == [grant |-> Nobody, turn |-> 0]
Token(g, n) == [grant |-> g, turn |-> n]

(* The source of a handler: none, one loaded from the row, which saves     *)
(* what it refreshes, or the one the SDK made during an authorization.     *)
Handler(source, tok) == [source |-> source, token |-> tok]
NoHandler == Handler("none", NoToken)
HasToken(h) == hand[h].source # "none"

Idle == [todo |-> <<>>, h |-> Nobody, flow |-> Nobody, again |-> FALSE]
At(a, step)   == job[a].todo # <<>> /\ Head(job[a].todo) = step
Go(a, todo)   == job' = [job EXCEPT ![a].todo = todo]
Advance(a)    == Go(a, Tail(job[a].todo))
Busy(a)       == job[a] # Idle

Clear     == <<"uncache", "delete">>
Register  == <<"lookup", "new", "enter", "connect", "publish">>
Authorize == <<"create", "wait", "put", "cache">>

Referred == {live} \union open \union {job[a].h : a \in Actors}
                   \union {h \in Handlers : saving[h] # NoToken}
Fresh    == CHOOSE h \in Handlers : h \notin Referred

(* What nobody refers to is wiped.                                         *)
Swept == hand' = [h \in Handlers |-> IF h \in Referred' THEN hand[h] ELSE NoHandler]


(* Bound: one authorization more, next to those begun and about to begin   *)
(* and the one of an earlier process.                                      *)
FlowLeft == Cardinality(Flows \ Unasked) + Cardinality({a \in Actors : At(a, "create")}) <= setting.asks
Fault    == faults < setting.faults /\ faults' = faults + 1
NoFault  == UNCHANGED faults
SameBut  == UNCHANGED <<configured, setting, ops, crashes>>

-----------------------------------------------------------------------------
(* Throwing a token away: Handler.ClearToken, CleanupOAuthToken.           *)

(* History.  What throws a token away throws away every grant asked for so *)
(* far, and every handler with it that it does not clear is stale.  Who    *)
(* was at work by then, or begins before it is over, may still have one.   *)
Clears(a) == a \in {Operator, Revoker} \ late /\ (At(a, "uncache") \/ At(a, "delete"))
Clearing  == \E a \in Actors : Clears(a)

ThrowAway(a) ==
    /\ gone' = Flows \ Unasked
    /\ late' = {b \in Actors \ {a} : Busy(b)}
    /\ stale' = Handlers

Join(a) ==
    /\ late' = IF Clearing THEN late \union {a} ELSE late \ {a}
    /\ UNCHANGED <<gone, stale>>

(* Mutant: without a handler nothing is deleted.                           *)
UncacheNeedsHandler(a) ==
    /\ At(a, "uncache")
    /\ IF live \in Handlers
       THEN /\ hand' = [hand EXCEPT ![live] = NoHandler]
            /\ Advance(a)
       ELSE Go(a, Tail(Tail(job[a].todo))) /\ UNCHANGED hand
    /\ stale' = stale \ {live}
    /\ UNCHANGED <<registry, store, live, open, saving, provider, bounds, lossy, gone, late>>

(* Mutant: the handler's source outlives the row.                          *)
UncacheNothing(a) ==
    /\ At(a, "uncache")
    /\ Go(a, IF a \in Connects /\ live \notin Handlers THEN Tail(Tail(job[a].todo)) ELSE Tail(job[a].todo))
    /\ stale' = stale \ {live}
    /\ UNCHANGED <<registry, tokens, provider, bounds, lossy, gone, late>>

(* The handler forgets its source.  Without a handler the row is deleted   *)
(* all the same, but by a reconnect.  An operation tries twice.            *)
Uncache(a) ==
    /\ At(a, "uncache")
    /\ IF live \in Handlers
       THEN /\ hand' = [hand EXCEPT ![live] = NoHandler]
            /\ Go(a, IF a = Operator THEN <<"delete">> \o Tail(job[a].todo) ELSE Tail(job[a].todo))
       ELSE /\ Go(a, IF a \in Connects THEN Tail(Tail(job[a].todo)) ELSE Tail(job[a].todo))
            /\ UNCHANGED hand
    /\ stale' = stale \ {live}
    /\ UNCHANGED <<registry, store, live, open, saving, provider, bounds, lossy, gone, late>>

(* Another attempt follows; none does where one succeeded.                 *)
Again(todo)       == Len(todo) > 1 /\ todo[2] = "delete"
AfterDelete(todo) == IF Again(todo) THEN Tail(Tail(todo)) ELSE Tail(todo)

(* TokenStore.Delete; an error is logged.                                  *)
Delete(a) ==
    /\ At(a, "delete")
    /\ \/ /\ store' = NoToken /\ NoFault
          /\ Go(a, AfterDelete(job[a].todo))
          /\ UNCHANGED gone
       \/ /\ Fault
          /\ Advance(a)
          /\ gone' = IF Clears(a) /\ ~Again(job[a].todo) THEN gone \ {store.grant} ELSE gone
          /\ UNCHANGED store
    /\ UNCHANGED <<registry, hand, live, open, saving, provider, lossy, late, stale>> /\ SameBut

-----------------------------------------------------------------------------
(* Registration: registerSSE and setupOAuth.                               *)

LookUp(a) ==
    /\ At(a, "lookup")
    /\ job' = [job EXCEPT ![a].todo = Tail(@), ![a].again = live # Absent]
    /\ UNCHANGED <<registry, tokens, provider, bounds, lossy, thrown>>

(* NewHandler.  Bound: there is a handler nobody refers to.                *)
NewHandler(a) ==
    /\ At(a, "new") /\ Handlers \ Referred # {}
    /\ LET h == Fresh
       IN /\ hand' = [hand EXCEPT ![h] = IF store = NoToken THEN NoHandler ELSE Handler("notify", store)]
          /\ job' = [job EXCEPT ![a].h = h,
                       ![a].todo = IF store = NoToken THEN Tail(@) ELSE Tail(Tail(@))]
          /\ stale' = IF a \in late THEN stale \union {h} ELSE stale \ {h}
    /\ UNCHANGED <<registry, store, live, open, saving, provider, bounds, lossy, gone, late>>

(* Without a token the tool is entered as pending authorization; a first   *)
(* registration ends there.                                                *)
Enter(a) ==
    /\ At(a, "enter")
    /\ live' = job[a].h
    /\ Go(a, IF job[a].again THEN Tail(job[a].todo) ELSE Tail(Tail(Tail(job[a].todo))))
    /\ UNCHANGED <<registry, store, open, saving, provider, bounds, lossy, thrown>>
    /\ Swept

(* The server lets the client in, it does not, or it asks for              *)
(* authorization, after which the request is sent once more.               *)
Connect(a) ==
    /\ At(a, "connect")
    /\ \/ Advance(a)
       \/ job' = [job EXCEPT ![a] = Idle]
       \/ FlowLeft /\ Go(a, Authorize \o job[a].todo)
    /\ UNCHANGED <<registry, store, live, open, saving, provider, bounds, lossy, thrown>>
    /\ Swept

(* The entry is replaced, whatever it was; the old session drains.  When   *)
(* the server does not list its tools its session is closed.               *)
Publish(a) ==
    /\ At(a, "publish")
    /\ live' = job[a].h
    /\ \/ Advance(a) /\ open' = open \union {job[a].h}
       \/ job' = [job EXCEPT ![a] = Idle] /\ UNCHANGED open
    /\ UNCHANGED <<registry, store, saving, provider, bounds, lossy, thrown>>
    /\ Swept

(* startOAuthReconnect, when the server let the client in without a token: *)
(* an authorization is asked for, and the tool registered once more.       *)
Check(a) ==
    /\ At(a, "check")
    /\ IF live \in Handlers /\ ~HasToken(live) /\ FlowLeft
       THEN job' = [job EXCEPT ![a].todo = Authorize \o Register, ![a].h = live]
       ELSE job' = [job EXCEPT ![a] = Idle]
    /\ UNCHANGED <<registry, store, live, open, saving, provider, bounds, lossy, thrown>>
    /\ Swept

-----------------------------------------------------------------------------
(* Handler.Authorize.                                                      *)

Ask(a) ==
    /\ At(a, "create") /\ Unasked # {}
    /\ LET f == CHOOSE g \in Unasked : TRUE
       IN /\ Create(f)
          /\ job' = [job EXCEPT ![a].todo = Tail(@), ![a].flow = f]
          /\ gone' = IF a \in late THEN gone \union {f} ELSE gone
    /\ UNCHANGED <<tokens, provider, bounds, lossy, late, stale>>

(* The code came and is exchanged for a token, or either failed.           *)
Answered(a) ==
    /\ At(a, "wait")
    /\ LET f == job[a].flow
       IN  \/ /\ fetch[f] = "coded"
              /\ turn' = [turn EXCEPT ![f] = 0]
              /\ Advance(a) /\ NoFault
           \/ /\ fetch[f] = "coded" /\ Fault
              /\ job' = [job EXCEPT ![a] = Idle] /\ UNCHANGED turn
           \/ /\ fetch[f] = "failed" /\ NoFault
              /\ job' = [job EXCEPT ![a] = Idle] /\ UNCHANGED turn
    /\ UNCHANGED <<registry, store, live, open, saving, revoked, lossy, thrown>> /\ SameBut
    /\ Swept

(* persistToken.  A row that cannot be written leaves the handler without  *)
(* the token.                                                              *)
Put(a) ==
    /\ At(a, "put")
    /\ \/ /\ store' = Token(job[a].flow, 0) /\ Advance(a) /\ NoFault
          /\ gone' = gone \ {job[a].flow}
       \/ Fault /\ Go(a, Tail(Tail(job[a].todo))) /\ UNCHANGED <<store, gone>>
    /\ UNCHANGED <<registry, hand, live, open, saving, provider, lossy, late, stale>> /\ SameBut

Cache(a) ==
    /\ At(a, "cache")
    /\ hand' = [hand EXCEPT ![job[a].h] = Handler("plain", Token(job[a].flow, 0))]
    /\ gone' = gone \ {job[a].flow}
    /\ Advance(a)
    /\ UNCHANGED <<registry, store, live, open, saving, provider, bounds, lossy, late, stale>>

-----------------------------------------------------------------------------
(* Token sources.                                                          *)

Used(h) == h \in open \/ \E a \in Actors : job[a].h = h /\ At(a, "connect")

(* A source refreshes: the provider rotates the grant, or sees a token     *)
(* that was used before.  The answer may be lost on its way.               *)
Refresh(h) ==
    /\ Used(h) /\ HasToken(h) /\ saving[h] = NoToken
    /\ LET g == hand[h].token.grant
           n == hand[h].token.turn
           next == Token(g, n + 1)
       IN  \/ /\ g \in revoked \/ n # turn[g]
              /\ revoked' = revoked \union {g}
              /\ NoFault /\ UNCHANGED <<hand, saving, turn, lossy>>
           \/ /\ g \notin revoked /\ n = turn[g] /\ n < setting.turns
              /\ turn' = [turn EXCEPT ![g] = n + 1]
              /\ \/ /\ hand' = [hand EXCEPT ![h].token = next]
                    /\ saving' = IF hand[h].source = "notify" THEN [saving EXCEPT ![h] = next] ELSE saving
                    /\ lossy' = IF hand[h].source = "notify" THEN lossy ELSE lossy \union {<<g, "plain">>}
                    /\ NoFault
                 \/ /\ Fault
                    /\ lossy' = lossy \union {<<g, "fault">>}
                    /\ UNCHANGED <<hand, saving>>
              /\ UNCHANGED revoked
    /\ UNCHANGED <<registry, store, live, open, job, thrown>> /\ SameBut

(* Mutant: only a first refresh is taken for a change.                     *)
SaveFirst(h) ==
    /\ saving[h] # NoToken
    /\ store' = IF saving[h].turn = 1 THEN saving[h] ELSE store
    /\ saving' = [saving EXCEPT ![h] = NoToken]
    /\ NoFault /\ UNCHANGED lossy
    /\ UNCHANGED <<registry, live, open, provider, job, thrown>> /\ SameBut
    /\ Swept

(* saveRefreshedToken.                                                     *)
Save(h) ==
    /\ saving[h] # NoToken
    /\ \/ /\ store' = saving[h] /\ NoFault /\ UNCHANGED lossy
          /\ gone' = gone \ {saving[h].grant}
       \/ /\ Fault
          /\ lossy' = lossy \union {<<saving[h].grant, "fault">>}
          /\ UNCHANGED <<store, gone>>
    /\ saving' = [saving EXCEPT ![h] = NoToken]
    /\ UNCHANGED <<registry, live, open, provider, job, late, stale>> /\ SameBut
    /\ Swept

-----------------------------------------------------------------------------
(* Requests and operations.                                                *)

Begin(a, todo) ==
    /\ ~Busy(a) /\ ops < setting.ops
    /\ job' = [job EXCEPT ![a].todo = todo]
    /\ ops' = ops + 1
    /\ UNCHANGED <<registry, tokens, provider, configured, setting, faults, crashes, lossy>>

(* handleToolOAuthConnect.  While a pending authorization of the tool has  *)
(* a URL, that URL is the answer and nothing is started.                   *)
Shown(f) == f \in pending /\ fetch[f] # "created"
RequestConnect(a) ==
    /\ a \in Connects \intersect setting.actors
    /\ live # Absent
    /\ ~\E f \in Flows : Shown(f)
    /\ Begin(a, Clear \o Register \o <<"check">>) /\ Join(a)

RequestRevoke == /\ Revoker \in setting.actors
                 /\ Begin(Revoker, Clear) /\ ThrowAway(Revoker)

(* Mutant: an added tool takes over what is in the row.                    *)
PurgeNoneAdded(op) == IF op \in {"update", "remove"} THEN Clear ELSE <<>>

(* Mutant: an update keeps the token of another identity.                  *)
PurgeNoneUpdated(op) == IF op \in {"remove", "add"} THEN Clear ELSE <<>>

(* What calls CleanupOAuthToken first.                                     *)
Purge(op) == IF op \in {"update", "remove", "add"} THEN Clear ELSE <<>>

(* RestartTool, UpdateTool when it keeps the identity and when it changes  *)
(* it, RemoveTool, AddTool.                                                *)
Operate(op) ==
    /\ op \in setting.menu
    /\ (op = "add") = (live = Absent)
    /\ Begin(Operator, Purge(op) \o
             CASE op = "restart"            -> <<"unregister", "bare">> \o Register
               [] op \in {"edit", "update"} -> <<"unregister">> \o Register
               [] op = "remove"             -> <<"unregister", "erase">>
               [] op = "add"                -> Register \o <<"save">>)
    /\ IF op \in {"update", "remove", "add"} THEN ThrowAway(Operator) ELSE Join(Operator)

(* UnregisterServer; the session is drained before the operation goes on.  *)
Unregister ==
    /\ At(Operator, "unregister")
    /\ live' = Absent
    /\ open' = open \ {live}
    /\ Advance(Operator)
    /\ UNCHANGED <<registry, store, saving, provider, bounds, lossy, thrown>>
    /\ Swept

(* RestartServer keeps an entry in place.                                  *)
Placeholder ==
    /\ At(Operator, "bare")
    /\ live' = Bare
    /\ Advance(Operator)
    /\ UNCHANGED <<registry, store, hand, open, saving, provider, bounds, lossy, thrown>>

(* The section of the tool in the file.                                    *)
WriteFile ==
    /\ At(Operator, "save") \/ At(Operator, "erase")
    /\ configured' = At(Operator, "save")
    /\ Advance(Operator)
    /\ UNCHANGED <<registry, tokens, provider, setting, ops, faults, crashes, lossy, thrown>>

Finish(a) ==
    /\ Busy(a) /\ job[a].todo = <<>>
    /\ job' = [job EXCEPT ![a] = Idle]
    /\ UNCHANGED <<registry, store, live, open, saving, provider, bounds, lossy, thrown>>
    /\ Swept

(* A call's request is answered with 401: the SDK asks its handler for     *)
(* authorization.                                                          *)
Challenge(h) ==
    /\ Caller \in setting.actors /\ h \in open
    /\ ~Busy(Caller) /\ ops < setting.ops /\ FlowLeft
    /\ job' = [job EXCEPT ![Caller].todo = Authorize, ![Caller].h = h]
    /\ ops' = ops + 1
    /\ Join(Caller)
    /\ UNCHANGED <<registry, tokens, provider, configured, setting, faults, crashes, lossy>>

(* A session that was replaced is closed when its calls have returned.     *)
Drained(h) ==
    /\ h \in open \ {live}
    /\ open' = open \ {h}
    /\ UNCHANGED <<registry, store, live, saving, provider, job, bounds, lossy, thrown>>
    /\ Swept

(* registerDeferredOAuthTools, before any request is served: with a token  *)
(* in the row the server is connected, or cannot be; without one the tool  *)
(* is entered as pending authorization.                                    *)
Started(row, section) ==
    LET none == [h \in Handlers |-> NoHandler]
        h == CHOOSE k \in Handlers : TRUE
        State(lv, op, hd) == [live |-> lv, open |-> op, hand |-> hd]
    IN  IF ~section THEN {State(Absent, {}, none)}
        ELSE IF row = NoToken THEN {State(h, {}, none)}
        ELSE {State(Bare, {}, none), State(h, {h}, [none EXCEPT ![h] = Handler("notify", row)])}

(* The process ends and starts: the row and the file are left.             *)
Restart ==
    /\ crashes < setting.crashes
    /\ crashes' = crashes + 1
    /\ RegistryLost
    /\ \E s \in Started(store, configured) : live' = s.live /\ open' = s.open /\ hand' = s.hand
    /\ saving' = [h \in Handlers |-> NoToken]
    /\ lossy' = lossy \union {<<saving[h].grant, "fault">> : h \in {k \in Handlers : saving[k] # NoToken}}
    /\ job' = [a \in Actors |-> Idle]
    /\ gone' = IF Clearing THEN gone \ {store.grant} ELSE gone
    /\ late' = {} /\ stale' = {}
    /\ UNCHANGED <<store, provider, configured, setting, ops, faults>>

-----------------------------------------------------------------------------

(* A token of an earlier process may be in the row.                        *)
Init ==
    /\ LET f == CHOOSE g \in Flows : TRUE
       IN /\ RegistryInit({f})
          /\ turn = [g \in Flows |-> IF g = f THEN 0 ELSE -1]
          /\ store \in {NoToken, Token(f, 0)}
    /\ \E s \in Started(store, TRUE) : live = s.live /\ open = s.open /\ hand = s.hand
    /\ saving = [h \in Handlers |-> NoToken]
    /\ revoked = {}
    /\ job = [a \in Actors |-> Idle]
    /\ configured = TRUE
    /\ setting \in Settings
    /\ lossy = {} /\ gone = {} /\ late = {} /\ stale = {}
    /\ ops = 0 /\ faults = 0 /\ crashes = 0

Step(a) ==
    \/ Uncache(a) \/ Delete(a)
    \/ LookUp(a) \/ NewHandler(a) \/ Enter(a) \/ Connect(a) \/ Publish(a) \/ Check(a)
    \/ Ask(a) \/ Answered(a) \/ Put(a) \/ Cache(a)
    \/ a = Operator /\ (Unregister \/ Placeholder \/ WriteFile)
    \/ Finish(a)

Registry == RegistryStep /\ UNCHANGED <<tokens, provider, job, bounds, lossy, thrown>>

Next ==
    \/ \E a \in Actors : Step(a) \/ RequestConnect(a)
    \/ RequestRevoke
    \/ \E op \in Operations : Operate(op)
    \/ \E h \in Handlers : Challenge(h) \/ Refresh(h) \/ Save(h) \/ Drained(h)
    \/ Registry
    \/ Restart

Spec == Init /\ [][Next]_vars

(* Goroutines go on with what they have begun, the time of an              *)
(* authorization runs out, and the registry is cleaned up.  No user has to *)
(* answer, and no call to return.                                          *)
Fairness ==
    /\ WF_vars(\E a \in Actors : Step(a))
    /\ WF_vars(Registry /\ \E f \in Flows : Fetching(f) \/ TimeOut(f))
    /\ WF_vars(Registry /\ Remove(pending))
    /\ WF_vars(\E h \in Handlers : Save(h))

FairSpec == Spec /\ Fairness
=============================================================================
