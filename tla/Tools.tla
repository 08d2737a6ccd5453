------------------------------- MODULE Tools -------------------------------
(***************************************************************************)
(* MCP tool servers: the manager that connects them and routes calls       *)
(* (internal/tool/manager.go), the lifecycle manager that adds, edits and  *)
(* removes them and keeps the TOML file in step (lifecycle.go,             *)
(* config_writer.go), the health checker, the retries that startup leaves  *)
(* behind (cmd/denkeeper/main.go) and the OAuth reconnect                  *)
(* (internal/api/oauth_handlers.go).                                       *)
(*                                                                         *)
(* Operations of the lifecycle manager exclude each other (lm.mu).  The    *)
(* health checker, the startup retries and the OAuth reconnect do not take *)
(* that lock: they change the same servers by their own registrations.     *)
(* An operation is the list of its steps, todo; a step is one critical     *)
(* section of the manager, one wait, one exchange with the server or one   *)
(* rewrite of the file.                                                    *)
(***************************************************************************)
EXTENDS ToolIndex, Integers

CONSTANTS
    Names,          \* server names, each a sequence of parts (see ToolIndex)
    Ids,            \* serverConn objects; one that nothing refers to is reused
    Callers,        \* goroutines that execute tool calls
    Lists,          \* the lists of tools a server may answer with, by name
    Settled,        \* names connected before startup reaches the others: their conn
    Targets,        \* names operated on
    Adds,           \* configurations a tool is added with
    Edits,          \* configurations an update sends
    Helds,          \* sets of tools to withhold
    Unset,          \* a field the caller left out
    Settings,       \* what a run explores: who of "health", "boot", "oauth" runs next to the
                    \* operations, which operations there are and how many, the sections
                    \* the file starts with, how often a server goes away or a write fails
    MaxTools,       \* tools.max_tools
    Quick,          \* mcp.max_restart_attempts
    Retries         \* mcp.init_retry_attempts - 1

(* A configuration: gen tells two of them apart (command, URL, client), on *)
(* is Enabled, held is DisabledTools.  NoCfg is the absence of a section.  *)
NoCfg == [gen |-> 0, transport |-> "none", auth |-> FALSE, on |-> "on", held |-> {}]
PluginCfg == [NoCfg EXCEPT !.gen = 9, !.transport = "stdio"]

Actors == {"lifecycle", "health", "boot", "oauth"}
Operations == {"add", "remove", "update", "restart", "disable", "enable", "withhold",
               "addPlugin", "removePlugin", "reconnect"}
Remote(cfg) == cfg.transport = "sse"
None == 0

ASSUME NamesAssumption   ==
    /\ IsFiniteSet(Names)
    /\ \A n \in Names : n \in Seq(Range(n)) \ {<<>>}
    /\ \A n \in Names : \A list \in Lists[n] :
          list \in Seq(Range(list)) /\ \A t \in Range(list) : t \in Seq(Range(t))
ASSUME IdsAssumption     == Ids \subseteq Nat \ {None}
ASSUME SettledAssumption ==
    /\ DOMAIN Settled \subseteq Names \ Targets /\ Targets \subseteq Names
    /\ \A n \in DOMAIN Settled : Settled[n] \in Ids
    /\ \A m, n \in DOMAIN Settled : Settled[m] = Settled[n] => m = n
ASSUME BoundsAssumption  ==
    /\ {MaxTools, Quick, Retries} \subseteq Nat
    /\ \A s \in Settings : /\ s.rivals \subseteq Actors /\ s.menu \subseteq Operations
                            /\ s.callers \subseteq Callers
                            /\ {s.ops, s.outages, s.faults} \subseteq Nat

ASSUME ConfigsAssumption ==
    \A cfg \in Adds \union Edits \union UNION {s.boots : s \in Settings} : DOMAIN cfg = DOMAIN NoCfg

VARIABLES
    servers,    \* Manager.servers: the conn under each name
    conns,      \* every serverConn
    index,      \* what rebuildToolIndex derived: where each name leads, shared bare names
    order,      \* discoveryOrder
    count,      \* disabledCount
    reaping,    \* conns that a goroutine of registerSSE drains
    plugins,    \* LifecycleManager.plugins
    file,       \* [tools.<name>] sections of denkeeper.toml
    sections,   \* names with a [plugins.<name>] section
    token,      \* names with a stored OAuth token
    job,        \* what each actor is doing
    up,         \* names whose server answers
    starting,   \* names startup has not come to
    setting,    \* the setting this process runs in
    failed,     \* history: an operation, a write or a connection at startup failed
    startedOff, \* history: disabled tools that their last operation, an add or a restart, started
    ops, outages, faults

manager == <<servers, conns, index, order, count, reaping>>
disk    == <<plugins, file, sections>>
world   == <<up, outages, faults>>
rest    == <<starting, setting, ops, startedOff>>
vars    == <<manager, disk, token, job, world, rest, failed>>

-----------------------------------------------------------------------------
(* Records.                                                                *)

Conn(n, cfg, session) ==
    [name |-> n, cfg |-> cfg, session |-> session, drain |-> "live", calls |-> {},
     tools |-> <<>>, off |-> cfg.held, mark |-> "", handler |-> FALSE,
     restarts |-> 0, resting |-> FALSE, forced |-> FALSE]

(* An entry without a process; its set of disabled tools is not built.     *)
Placeholder(n, cfg, mark) == [Conn(n, cfg, "none") EXCEPT !.off = {}, !.mark = mark]

Idle == [op |-> "idle", name |-> <<>>, cfg |-> NoCfg, todo |-> <<>>, conn |-> None,
         probed |-> None, again |-> FALSE, tries |-> 0]

Listed == {n \in Names : servers[n] # None}
Held(c) == Cardinality(conns[c].off)
Enabled(c) == conns[c].mark \notin {"user", "config", "gaveUp"}      \* ServerStatus.Enabled

(* A conn nothing refers to is reused, unless its session is still open;   *)
(* it is wiped when the operation that dropped it ends.                    *)
Referred(c, jobs) ==
    \/ \E n \in Names : servers[n] = c
    \/ c \in reaping
    \/ \E a \in Actors : c \in {jobs[a].conn, jobs[a].probed}
    \/ \E t \in DOMAIN index.map : index.map[t].conn = c
    \/ conns[c].calls # {}
    \/ conns[c].session = "open"
Unused == {c \in Ids : ~Referred(c, job)}
Fresh  == CHOOSE c \in Unused : TRUE
Swept(jobs) == [c \in Ids |-> IF Referred(c, jobs) THEN conns[c] ELSE Conn(<<>>, NoCfg, "none")]

ListsOf(srv, cs) == [n \in Names |-> IF srv[n] = None THEN <<>> ELSE cs[srv[n]].tools]
Offers == ListsOf(servers, conns)

Rebuild(srv, cs, ord) ==
    LET offered == Offered(ord, ListsOf(srv, cs))
        map == ToolMap(offered)
    IN  [map |-> [t \in DOMAIN map |-> [conn |-> srv[map[t].server], tool |-> map[t].tool]],
         shared |-> Shared(offered)]

-----------------------------------------------------------------------------
(* Steps of an operation.                                                  *)

Register(cfg) ==
    (IF Remote(cfg) THEN <<"lookup", "oauth">> ELSE <<>>) \o <<"connect", "publish", "list", "index">>
Unregister    == <<"unpublish", "drain">>

At(a, step) == job[a].todo # <<>> /\ Head(job[a].todo) = step
Advance(a)  == job' = [job EXCEPT ![a].todo = Tail(@)]
Turn(a, todo) == job' = [job EXCEPT ![a].todo = todo]

(* What is left when a registration that has come to "oauth" stops there.  *)
AfterRegister(todo) == SubSeq(todo, 6, Len(todo))

(* Where the error of a registration leads: EnableTool shelves the server  *)
(* again, startup leaves a remote server to background retries.            *)
RegisterFailed(j) ==
    CASE j.op = "enable"                                     -> <<"shelve", "fail">>
      [] j.op = "boot" /\ Remote(j.cfg) /\ j.tries > 0       -> <<"pending">>
      [] j.op = "retry" /\ j.tries > 0                       -> <<"wait">>
      [] j.op = "retry" /\ j.tries = 0                       -> <<"giveUp", "done">>
      [] OTHER                                               -> <<"fail">>

(* AddTool and AddPlugin stop the server they started when the file cannot *)
(* be written; the other operations return the error.                      *)
WriteFailed(j) ==
    IF j.op \in {"add", "addPlugin"} /\ j.cfg # NoCfg THEN Unregister \o <<"fail">> ELSE <<"fail">>

(* The operation, or the goroutine, ends.                                  *)
Finish(a) ==
    /\ At(a, "done") \/ At(a, "fail")
    /\ job' = [job EXCEPT ![a] = Idle]
    /\ failed' = (failed \/ At(a, "fail"))
    /\ conns' = Swept(job')
    /\ UNCHANGED <<servers, index, order, count, reaping, disk, token, world, rest>>

-----------------------------------------------------------------------------
(* Manager: teardown.                                                      *)

Drain(c) == [conns[c] EXCEPT !.drain = IF @ = "live" THEN "draining" ELSE @]

(* Phase 1 of UnregisterServer, under the manager's lock.                  *)
Unpublish(a) ==
    /\ At(a, "unpublish")
    /\ LET n == job[a].name
           c == servers[n]
           left == [servers EXCEPT ![n] = None]
       IN  IF c = None
           THEN /\ IF job[a].op \in {"remove", "update", "restart"}
                   THEN Turn(a, <<"fail">>)
                   ELSE Turn(a, Tail(Tail(job[a].todo)))
                /\ UNCHANGED manager
           ELSE /\ servers' = left
                /\ conns' = [conns EXCEPT ![c] = [Drain(c) EXCEPT !.tools = <<>>]]
                /\ order' = RemoveFirst(order, n)         \* it is there once
                /\ index' = Rebuild(left, conns', order')
                /\ count' = LET on == {m \in Names : left[m] # None}
                            IN  FoldSet(LAMBDA m, s : s + Held(left[m]), 0, on)
                /\ job' = [job EXCEPT ![a].todo = Tail(@), ![a].conn = c]
                /\ UNCHANGED reaping
    /\ UNCHANGED <<disk, token, world, rest, failed>>

(* Phase 2: the session is closed and the conn is through.  Close waits    *)
(* for the calls it still carries, so the calls have returned by then.     *)
Closed(c) ==
    conns' = [conns EXCEPT ![c].drain = "closed",
                           ![c].session = IF @ = "none" THEN @ ELSE "closed"]

(* Mutant: the session is closed without waiting for the calls.            *)
DrainedAtOnce(a) ==
    /\ At(a, "drain")
    /\ Closed(job[a].conn)
    /\ job' = [job EXCEPT ![a].todo = Tail(@), ![a].conn = None]
    /\ UNCHANGED <<servers, index, order, count, reaping, disk, token, world, rest, failed>>

Drained(a) ==
    /\ At(a, "drain") /\ conns[job[a].conn].calls = {}
    /\ Closed(job[a].conn)
    /\ job' = [job EXCEPT ![a].todo = Tail(@), ![a].conn = None]
    /\ UNCHANGED <<servers, index, order, count, reaping, disk, token, world, rest, failed>>

(* The goroutine that drains a conn registerSSE has replaced.              *)
Reap(c) ==
    /\ c \in reaping /\ conns[c].calls = {}
    /\ Closed(c)
    /\ reaping' = reaping \ {c}
    /\ UNCHANGED <<servers, index, order, count, disk, token, job, world, rest, failed>>

(* The drain window expires with calls running (forcedClose): Close is     *)
(* called, and blocks whoever drains the conn until they return.           *)
Drains(c) == c \in reaping \/ \E a \in Actors : At(a, "drain") /\ job[a].conn = c

Expire(c) ==
    /\ Drains(c) /\ conns[c].calls # {} /\ ~conns[c].forced
    /\ conns' = [conns EXCEPT ![c].forced = TRUE,
                              ![c].session = IF @ \in {"open", "broken"} THEN "closing" ELSE @]
    /\ UNCHANGED <<servers, index, order, count, reaping, disk, token, job, world, rest, failed>>

-----------------------------------------------------------------------------
(* Manager: registration.                                                  *)

(* registerSSE looks whether the name is listed already.                   *)
LookUp(a) ==
    /\ At(a, "lookup")
    /\ job' = [job EXCEPT ![a].todo = Tail(@), ![a].again = servers[job[a].name] # None]
    /\ UNCHANGED <<manager, disk, token, world, rest, failed>>

(* setupOAuth: without a token the server is entered as pending            *)
(* authorization, over whatever the name leads to.  A first registration   *)
(* ends there.                                                             *)
SetupOAuth(a) ==
    /\ At(a, "oauth")
    /\ LET n == job[a].name IN
       IF ~job[a].cfg.auth \/ n \in token
       THEN Advance(a) /\ UNCHANGED manager
       ELSE /\ Unused # {}
            /\ conns' = [conns EXCEPT ![Fresh] = [Conn(n, job[a].cfg, "none") EXCEPT !.handler = TRUE]]
            /\ servers' = [servers EXCEPT ![n] = Fresh]
            /\ count' = count + Cardinality(job[a].cfg.held)
            /\ Turn(a, IF job[a].again THEN Tail(job[a].todo) ELSE AfterRegister(job[a].todo))
            /\ UNCHANGED <<index, order, reaping>>
    /\ UNCHANGED <<disk, token, world, rest, failed>>

(* The server answers, or it does not.  A connection of a server that asks *)
(* for authorization waits for the user, who grants it or does not.        *)
Connect(a) ==
    /\ At(a, "connect")
    /\ LET n == job[a].name
           asks == job[a].cfg.auth /\ n \notin token
       IN  \/ /\ up[n] /\ Unused # {}
              /\ conns' = [conns EXCEPT ![Fresh] =
                             [Conn(n, job[a].cfg, "open") EXCEPT !.handler = job[a].cfg.auth]]
              /\ job' = [job EXCEPT ![a].todo = Tail(@), ![a].conn = Fresh]
              /\ token' \in IF asks THEN {token, token \union {n}} ELSE {token}
           \/ /\ ~up[n] \/ asks
              /\ Turn(a, RegisterFailed(job[a]))
              /\ UNCHANGED <<conns, token>>
    /\ UNCHANGED <<servers, index, order, count, reaping, disk, world, rest, failed>>

(* Mutant: nobody drains the conn that is replaced.                        *)
PublishNoReap(a) ==
    /\ At(a, "publish")
    /\ LET n == job[a].name
           prev == servers[n]
           retires == Remote(job[a].cfg) /\ prev # None
       IN  /\ conns' = IF retires THEN [conns EXCEPT ![prev] = Drain(prev)] ELSE conns
           /\ UNCHANGED reaping
           /\ count' = count + Held(job[a].conn) - (IF retires THEN Held(prev) ELSE 0)
           /\ servers' = [servers EXCEPT ![n] = job[a].conn]
    /\ Advance(a)
    /\ UNCHANGED <<index, order, disk, token, world, rest, failed>>

(* The new conn takes the name.  registerSSE retires the one it replaces,  *)
(* registerStdio does not look at it.                                      *)
Publish(a) ==
    /\ At(a, "publish")
    /\ LET n == job[a].name
           prev == servers[n]
           retires == Remote(job[a].cfg) /\ prev # None
       IN  /\ conns' = IF retires THEN [conns EXCEPT ![prev] = Drain(prev)] ELSE conns
           /\ reaping' = IF retires THEN reaping \union {prev} ELSE reaping
           /\ count' = count + Held(job[a].conn) - (IF retires THEN Held(prev) ELSE 0)
           /\ servers' = [servers EXCEPT ![n] = job[a].conn]
    /\ Advance(a)
    /\ UNCHANGED <<index, order, disk, token, world, rest, failed>>

(* discoverTools: the server is asked for its tools.  When it does not     *)
(* answer, its session is closed and the entry stays.                      *)
ListTools(a) ==
    /\ At(a, "list")
    /\ IF conns[job[a].conn].session = "open"
       THEN Advance(a) /\ UNCHANGED conns
       ELSE /\ conns' = [conns EXCEPT ![job[a].conn].session = "closed"]
            /\ job' = [job EXCEPT ![a].todo = RegisterFailed(job[a]), ![a].conn = None]
    /\ UNCHANGED <<servers, index, order, count, reaping, disk, token, world, rest, failed>>

(* discoverTools: the answer is entered and the index rebuilt.             *)
Index(a) ==
    /\ At(a, "index")
    /\ \E list \in Lists[job[a].name] :
          conns' = [conns EXCEPT ![job[a].conn].tools = list]
    /\ order' = IF Contains(order, job[a].name) THEN order ELSE Append(order, job[a].name)
    /\ index' = Rebuild(servers, conns', order')
    /\ job' = [job EXCEPT ![a].todo = Tail(@), ![a].conn = None]
    /\ UNCHANGED <<servers, count, reaping, disk, token, world, rest, failed>>

(* An entry that is not connected: RegisterDisabled, the placeholder of    *)
(* RestartServer, RegisterPending.                                         *)
Enter(a, step, mark) ==
    /\ At(a, step)
    /\ Unused # {}
    /\ conns' = [conns EXCEPT ![Fresh] = Placeholder(job[a].name, job[a].cfg, mark)]
    /\ servers' = [servers EXCEPT ![job[a].name] = Fresh]
    /\ UNCHANGED <<index, order, count, reaping, disk, token, world, rest, failed>>

Shelve(a) == Enter(a, "shelve", "user") /\ Advance(a)
Hold(a)   == Enter(a, "hold", "") /\ Advance(a)

-----------------------------------------------------------------------------
(* The TOML file (config_writer.go).  Each rewrite is atomic and may fail. *)

Rewrite(a, step, ok, tools, plugged, tracked) ==
    /\ At(a, step)
    /\ \/ /\ ok
          /\ file' = tools /\ sections' = plugged /\ plugins' = tracked
          /\ Advance(a)
          /\ UNCHANGED <<faults, failed>>
       \/ /\ ~ok \/ faults < setting.faults
          /\ faults' = IF ok THEN faults + 1 ELSE faults
          /\ failed' = TRUE
          /\ Turn(a, WriteFailed(job[a]))
          /\ UNCHANGED disk
    /\ UNCHANGED <<manager, token, up, outages, rest>>

SetOn(n, on) == [file EXCEPT ![n].on = on]

WriteFile(a) ==
    LET n == job[a].name
        cfg == job[a].cfg
        there == file[n] # NoCfg
    IN  \/ Rewrite(a, "save", TRUE, [file EXCEPT ![n] = cfg], sections, plugins)
        \/ Rewrite(a, "erase", TRUE, [file EXCEPT ![n] = NoCfg], sections, plugins)
        \/ Rewrite(a, "saveOff", there, SetOn(n, "off"), sections, plugins)
        \/ Rewrite(a, "saveOn", there, SetOn(n, "on"), sections, plugins)
        \/ Rewrite(a, "saveHeld", there, [file EXCEPT ![n].held = cfg.held], sections, plugins)
        \/ Rewrite(a, "savePlugin", TRUE, file, sections \union {n}, plugins \union {n})
        \/ Rewrite(a, "erasePlugin", TRUE, file, sections \ {n}, plugins \ {n})

-----------------------------------------------------------------------------
(* Operations of the lifecycle manager.  A call that is refused before it  *)
(* changes anything is a step that is not taken.  Clients name a tool as   *)
(* ListTools shows it, which leaves plugins out.                           *)

Started == starting = {} /\ job["boot"].op # "boot"
Free == Started /\ job["lifecycle"] = Idle /\ ops < setting.ops

Begin(a, op, n, cfg, todo) ==
    /\ job' = [job EXCEPT ![a] = [Idle EXCEPT !.op = op, !.name = n, !.cfg = cfg, !.todo = todo]]
    /\ op \in setting.menu
    /\ ops' = ops + 1
    /\ startedOff' = CASE op \in {"withhold", "reconnect"}                  -> startedOff
                       [] op \in {"add", "restart"} /\ cfg.on = "off"     -> startedOff \union {n}
                       [] OTHER                                           -> startedOff \ {n}
    /\ UNCHANGED <<disk, world, starting, setting, failed>>

Tool(n) == servers[n] # None /\ n \notin plugins
Current(n) == conns[servers[n]].cfg

(* checkConflict and checkLimit.  A plugin with tools is in both counts.   *)
Admits(n) == /\ servers[n] = None /\ n \notin plugins
             /\ Cardinality(Listed) + Cardinality(plugins) < MaxTools

AddTool(n, cfg) ==
    /\ Free /\ Admits(n)
    /\ token' = token \ {n}
    /\ Begin("lifecycle", "add", n, cfg, Register(cfg) \o <<"save", "done">>)
    /\ UNCHANGED manager

RemoveTool(n) ==
    /\ Free /\ n \notin plugins
    /\ token' = token \ {n}
    /\ Begin("lifecycle", "remove", n, NoCfg, Unregister \o <<"erase", "done">>)
    /\ UNCHANGED manager

(* preserveUnsetFields.                                                    *)
Merged(cfg, old) ==
    [cfg EXCEPT !.on = IF @ = Unset THEN old.on ELSE @, !.held = IF @ = Unset THEN old.held ELSE @]

IdentityChanged(old, new) == (old.auth \/ new.auth) /\ (old.auth # new.auth \/ old.gen # new.gen)

(* Mutant: the old section is erased last.                                 *)
UpdateToolErasesLast(n, cfg) ==
    /\ Free /\ Tool(n)
    /\ LET new == Merged(cfg, Current(n))
       IN  /\ token' = IF IdentityChanged(Current(n), new) THEN token \ {n} ELSE token
           /\ Begin("lifecycle", "update", n, new,
                    Unregister \o (IF new.on = "off" THEN <<"shelve">> ELSE Register(new))
                               \o <<"save", "erase", "done">>)
    /\ UNCHANGED manager

(* Mutant: an edit starts a server that is switched off.                   *)
UpdateToolStarts(n, cfg) ==
    /\ Free /\ Tool(n)
    /\ LET new == Merged(cfg, Current(n))
       IN  /\ token' = IF IdentityChanged(Current(n), new) THEN token \ {n} ELSE token
           /\ Begin("lifecycle", "update", n, new,
                    Unregister \o Register(new) \o <<"erase", "save", "done">>)
    /\ UNCHANGED manager

UpdateTool(n, cfg) ==
    /\ Free /\ Tool(n)
    /\ LET new == Merged(cfg, Current(n))
       IN  /\ token' = IF IdentityChanged(Current(n), new) THEN token \ {n} ELSE token
           /\ Begin("lifecycle", "update", n, new,
                    Unregister \o (IF new.on = "off" THEN <<"shelve">> ELSE Register(new))
                               \o <<"erase", "save", "done">>)
    /\ UNCHANGED manager

(* Mutant: the placeholder goes over the server that runs.                 *)
RestartToolInPlace(n) ==
    /\ Free /\ Tool(n)
    /\ Begin("lifecycle", "restart", n, Current(n), <<"hold">> \o Register(Current(n)) \o <<"done">>)
    /\ UNCHANGED <<manager, token>>

RestartTool(n) ==
    /\ Free /\ Tool(n)
    /\ Begin("lifecycle", "restart", n, Current(n),
             Unregister \o <<"hold">> \o Register(Current(n)) \o <<"done">>)
    /\ UNCHANGED <<manager, token>>

DisableTool(n) ==
    /\ Free /\ Tool(n) /\ Enabled(servers[n])
    /\ Begin("lifecycle", "disable", n, [Current(n) EXCEPT !.on = "off"],
             Unregister \o <<"shelve", "saveOff", "done">>)
    /\ UNCHANGED <<manager, token>>

EnableTool(n) ==
    /\ Free /\ Tool(n) /\ ~Enabled(servers[n])
    /\ LET cfg == [Current(n) EXCEPT !.on = "on"]
       IN  Begin("lifecycle", "enable", n, cfg, Unregister \o Register(cfg) \o <<"saveOn", "done">>)
    /\ UNCHANGED <<manager, token>>

(* UpdateDisabledTools, SetDisabledTools.                                  *)
Withhold(n, held) ==
    /\ Free /\ Tool(n)
    /\ LET c == servers[n]
       IN  /\ conns' = [conns EXCEPT ![c].off = held, ![c].cfg.held = held]
           /\ count' = count + Cardinality(held) - Held(c)
           /\ Begin("lifecycle", "withhold", n, [Current(n) EXCEPT !.held = held], <<"saveHeld", "done">>)
    /\ UNCHANGED <<servers, index, order, reaping, token>>

(* A plugin without the tools capability has no server.                    *)
AddPlugin(n, tools) ==
    /\ Free /\ Admits(n)
    /\ Begin("lifecycle", "addPlugin", n, IF tools THEN PluginCfg ELSE NoCfg,
             (IF tools THEN Register(PluginCfg) ELSE <<>>) \o <<"savePlugin", "done">>)
    /\ UNCHANGED <<manager, token>>

RemovePlugin(n) ==
    /\ Free /\ n \in plugins
    /\ token' = token \ {n}
    /\ Begin("lifecycle", "removePlugin", n, NoCfg, Unregister \o <<"erasePlugin", "done">>)
    /\ UNCHANGED manager

-----------------------------------------------------------------------------
(* The health checker.                                                     *)

(* probeCandidate, and the check of checkServers that there is a session.  *)
Candidate(c) == /\ Enabled(c) /\ ~conns[c].resting
                /\ conns[c].drain # "draining" /\ conns[c].session # "none"

Probe(n) ==
    /\ "health" \in setting.rivals /\ job["health"] = Idle /\ Started
    /\ servers[n] # None /\ Candidate(servers[n])
    /\ job' = [job EXCEPT !["health"] = [Idle EXCEPT !.op = "heal", !.name = n,
                                           !.probed = servers[n], !.todo = <<"probe">>]]
    /\ UNCHANGED <<manager, disk, token, world, rest, failed>>

(* probeServer; the count of restarts is cleared after the cooldown.       *)
ProbeAnswered ==
    /\ At("health", "probe")
    /\ LET c == job["health"].probed
       IN  /\ conns[c].session = "open"
           /\ \E r \in {conns[c].restarts, 0} : conns' = [conns EXCEPT ![c].restarts = r]
    /\ job' = [job EXCEPT !["health"] = Idle]
    /\ UNCHANGED <<servers, index, order, count, reaping, disk, token, world, rest, failed>>

(* Mutant: a server that failed too often is given up.                     *)
ProbeFailedGivesUp ==
    /\ At("health", "probe")
    /\ LET c == job["health"].probed
           slow == conns[c].restarts >= Quick
       IN  /\ conns[c].session # "open"
           /\ conns' = [conns EXCEPT ![c].restarts = Min({@ + 1, Quick + 1}),
                                     ![c].mark = IF slow THEN "gaveUp" ELSE @]
           /\ job' = [job EXCEPT !["health"].cfg = conns[c].cfg,
                        !["health"].todo = IF slow THEN <<"done">>
                                ELSE <<"backoff">> \o Unregister
                                     \o <<"reinsert">> \o Register(conns[c].cfg) \o <<"healed">>]
    /\ UNCHANGED <<servers, index, order, count, reaping, disk, token, world, rest, failed>>

(* handleServerFailure, until its backoff.  The configuration is the one   *)
(* the conn has now.                                                       *)
ProbeFailed ==
    /\ At("health", "probe")
    /\ LET c == job["health"].probed
           slow == conns[c].restarts >= Quick
       IN  /\ conns[c].session # "open"
           /\ conns' = [conns EXCEPT ![c].restarts = Min({@ + 1, Quick + 1}), ![c].resting = slow]
           /\ job' = [job EXCEPT !["health"].cfg = conns[c].cfg,
                        !["health"].todo = (IF slow THEN <<>> ELSE <<"backoff">>) \o Unregister
                                \o <<"reinsert">> \o Register(conns[c].cfg) \o <<"healed">>]
    /\ UNCHANGED <<servers, index, order, count, reaping, disk, token, world, rest, failed>>

Backoff ==
    /\ At("health", "backoff")
    /\ Advance("health")
    /\ UNCHANGED <<manager, disk, token, world, rest, failed>>

(* The old entry returns under its name, whatever is there by now.         *)
Reinsert ==
    /\ At("health", "reinsert")
    /\ servers' = [servers EXCEPT ![job["health"].name] = job["health"].probed]
    /\ Advance("health")
    /\ UNCHANGED <<conns, index, order, count, reaping, disk, token, world, rest, failed>>

(* The new conn inherits the count of restarts.                            *)
Healed ==
    /\ At("health", "healed")
    /\ LET c == servers[job["health"].name]
       IN  conns' = IF c = None THEN conns
                    ELSE [conns EXCEPT ![c].restarts = conns[job["health"].probed].restarts]
    /\ Turn("health", <<"done">>)
    /\ UNCHANGED <<servers, index, order, count, reaping, disk, token, world, rest, failed>>

(* nextRetryAt passes.                                                     *)
RetryDue(c) ==
    /\ conns[c].resting
    /\ conns' = [conns EXCEPT ![c].resting = FALSE]
    /\ UNCHANGED <<servers, index, order, count, reaping, disk, token, job, world, rest, failed>>

-----------------------------------------------------------------------------
(* Startup, and the retries it leaves behind.                              *)

(* registerNonOAuthTools, registerDeferredOAuthTools.                      *)
BootTool(n) ==
    /\ n \in starting /\ job["boot"] = Idle
    /\ starting' = starting \ {n}
    /\ LET cfg == file[n]
       IN  job' = IF cfg = NoCfg THEN job
                  ELSE [job EXCEPT !["boot"] = [Idle EXCEPT !.op = "boot", !.name = n, !.cfg = cfg,
                          !.tries = IF "boot" \in setting.rivals THEN Retries ELSE 0,
                          !.todo = (IF cfg.on = "off" THEN <<"shelve">> ELSE Register(cfg))
                                     \o <<"done">>]]
    /\ UNCHANGED <<manager, disk, token, world, setting, ops, startedOff, failed>>

(* registerWithInitRetry: the entry is "connecting", a goroutine goes on.  *)
Pending ==
    /\ Enter("boot", "pending", "connecting")
    /\ job' = [job EXCEPT !["boot"].op = "retry", !["boot"].todo = <<"wait">>]

Retry ==
    /\ At("boot", "wait")
    /\ job' = [job EXCEPT !["boot"].tries = @ - 1, !["boot"].todo = Register(job["boot"].cfg) \o <<"done">>]
    /\ UNCHANGED <<manager, disk, token, world, rest, failed>>

(* MarkDisabled, on the entry that is there when the retries are used up.  *)
GiveUp ==
    /\ At("boot", "giveUp")
    /\ LET c == servers[job["boot"].name]
       IN  conns' = IF c = None THEN conns ELSE [conns EXCEPT ![c].mark = "gaveUp"]
    /\ Advance("boot")
    /\ UNCHANGED <<servers, index, order, count, reaping, disk, token, world, rest, failed>>

-----------------------------------------------------------------------------
(* startOAuthReconnect.                                                    *)

Reconnect(n) ==
    /\ "oauth" \in setting.rivals /\ job["oauth"] = Idle /\ Started /\ ops < setting.ops
    /\ servers[n] # None /\ Current(n).auth
    /\ Begin("oauth", "reconnect", n, Current(n),
             <<"clear">> \o Register(Current(n)) \o <<"initiate">>)
    /\ UNCHANGED <<manager, token>>

ClearToken ==
    /\ At("oauth", "clear")
    /\ LET c == servers[job["oauth"].name]
       IN  token' = IF c # None /\ conns[c].handler THEN token \ {job["oauth"].name} ELSE token
    /\ Advance("oauth")
    /\ UNCHANGED <<manager, disk, world, rest, failed>>

(* The server let the client in without authorization: the user is asked   *)
(* for it, and the tools are discovered again.                             *)
Initiate ==
    /\ At("oauth", "initiate")
    /\ LET n == job["oauth"].name
           c == servers[n]
           asks == IF c = None THEN FALSE ELSE conns[c].handler /\ n \notin token
       IN  \/ /\ asks
              /\ token' = token \union {n}
              /\ Turn("oauth", Register(job["oauth"].cfg) \o <<"done">>)
           \/ Turn("oauth", <<"done">>) /\ UNCHANGED token
    /\ UNCHANGED <<manager, disk, world, rest, failed>>

-----------------------------------------------------------------------------
(* Execute.                                                                *)

(* resolveTool: the conn and the tool a name leads to; <<>> is an error.   *)
Resolve(t) ==
    CASE t \in DOMAIN index.map -> <<index.map[t].conn, index.map[t].tool>>
      [] t \notin DOMAIN index.map /\ t \in index.shared -> <<>>
      [] OTHER -> IF Qualifying(order, Offers, t) = {} THEN <<>>
                  ELSE LET p == ByPrefix(order, Offers, t) IN <<servers[p[1]], p[2]>>

Callable == DOMAIN index.map \union {Qualified(s, t) : s \in Listed, t \in UNION {Range(l) : l \in UNION {Lists[n] : n \in Names}}}

Admitted(c) == conns[c].drain = "live"       \* enterCall

(* A call resolves its name and is admitted in one read-locked section.    *)
Call(x) ==
    /\ x \in setting.callers
    /\ \A c \in Ids : x \notin conns[c].calls
    /\ \E t \in Callable :
          /\ Resolve(t) # <<>>
          /\ LET c == Resolve(t)[1]
             IN  /\ Admitted(c)
                 /\ Resolve(t)[2] \notin conns[c].off
                 /\ conns' = [conns EXCEPT ![c].calls = @ \union {x}]
    /\ UNCHANGED <<servers, index, order, count, reaping, disk, token, job, world, rest, failed>>

(* Mutant: leaveCall does not release a drain that waits.                  *)
ReturnUnnoticed(x) ==
    /\ \E c \in Ids : /\ x \in conns[c].calls /\ conns[c].drain = "live"
                      /\ conns' = [conns EXCEPT ![c].calls = @ \ {x}]
    /\ UNCHANGED <<servers, index, order, count, reaping, disk, token, job, world, rest, failed>>

Return(x) ==
    /\ \E c \in Ids : /\ x \in conns[c].calls
                      /\ conns' = [conns EXCEPT ![c].calls = @ \ {x}]
    /\ UNCHANGED <<servers, index, order, count, reaping, disk, token, job, world, rest, failed>>

(* ToolDefs: nothing is filtered while the count of disabled tools is 0.   *)
ToolDefs ==
    IF count = 0 THEN DOMAIN index.map
    ELSE {t \in DOMAIN index.map : index.map[t].tool \notin conns[index.map[t].conn].off}

-----------------------------------------------------------------------------
(* Servers come and go.                                                    *)

GoDown(n) ==
    /\ up[n] /\ outages < setting.outages
    /\ up' = [up EXCEPT ![n] = FALSE]
    /\ outages' = outages + 1
    /\ conns' = [c \in Ids |-> IF conns[c].name = n /\ conns[c].session = "open"
                               THEN [conns[c] EXCEPT !.session = "broken"] ELSE conns[c]]
    /\ UNCHANGED <<servers, index, order, count, reaping, disk, token, job, faults, rest, failed>>

ComeUp(n) ==
    /\ ~up[n]
    /\ up' = [up EXCEPT ![n] = TRUE]
    /\ UNCHANGED <<manager, disk, token, job, outages, faults, rest, failed>>

-----------------------------------------------------------------------------

Init ==
    /\ \E lists \in [DOMAIN Settled -> UNION {Lists[n] : n \in DOMAIN Settled}] :
          /\ \A n \in DOMAIN Settled : lists[n] \in Lists[n]
          /\ conns = [c \in Ids |->
                IF \E n \in DOMAIN Settled : Settled[n] = c
                THEN LET n == CHOOSE m \in DOMAIN Settled : Settled[m] = c
                     IN  [Conn(n, [NoCfg EXCEPT !.gen = 1, !.transport = "stdio"], "open") EXCEPT !.tools = lists[n]]
                ELSE Conn(<<>>, NoCfg, "none")]
    /\ servers = [n \in Names |-> IF n \in DOMAIN Settled THEN Settled[n] ELSE None]
    /\ order = SetToSeq(DOMAIN Settled)
    /\ index = Rebuild(servers, conns, order)
    /\ count = 0
    /\ reaping = {}
    /\ plugins = {} /\ sections = {}
    /\ setting \in Settings
    /\ \E f \in [Targets -> setting.boots] :
          file = [n \in Names |-> IF n \in Targets THEN f[n]
                                 ELSE IF n \in DOMAIN Settled THEN conns[Settled[n]].cfg ELSE NoCfg]
    /\ token \in SUBSET {n \in Targets : file[n].auth}
    /\ job = [a \in Actors |-> Idle]
    /\ up = [n \in Names |-> TRUE]
    /\ starting = Targets
    /\ failed = FALSE
    /\ startedOff = {}
    /\ ops = 0 /\ outages = 0 /\ faults = 0

(* What an actor does once it has begun.                                   *)
Step(a) ==
    \/ Finish(a) \/ Unpublish(a) \/ Drained(a)
    \/ LookUp(a) \/ SetupOAuth(a) \/ Connect(a) \/ Publish(a) \/ ListTools(a) \/ Index(a)
    \/ Shelve(a) \/ Hold(a) \/ WriteFile(a)
    \/ a = "health" /\ (ProbeAnswered \/ ProbeFailed \/ Backoff \/ Reinsert \/ Healed)
    \/ a = "boot"   /\ (Pending \/ Retry \/ GiveUp)
    \/ a = "oauth"  /\ (ClearToken \/ Initiate)

Next ==
    \/ \E a \in Actors : Step(a)
    \/ \E n \in Targets :
          \/ \E cfg \in Adds : AddTool(n, cfg)
          \/ \E cfg \in Edits : UpdateTool(n, cfg)
          \/ RemoveTool(n) \/ RestartTool(n) \/ DisableTool(n) \/ EnableTool(n)
          \/ \E held \in Helds : Withhold(n, held)
          \/ \E tools \in BOOLEAN : AddPlugin(n, tools)
          \/ RemovePlugin(n)
          \/ Probe(n) \/ BootTool(n) \/ Reconnect(n)
          \/ GoDown(n) \/ ComeUp(n)
    \/ \E c \in Ids : Reap(c) \/ Expire(c) \/ RetryDue(c)
    \/ \E x \in Callers : Call(x) \/ Return(x)

Spec == Init /\ [][Next]_vars

(* The goroutines run: steps under way are taken, a drain window expires,  *)
(* the health checker comes to every server on each tick.  A call returns: *)
(* the engine gives every one toolExecTimeout, and no other caller exists. *)
(* Nothing says that a server comes back.                                  *)
Fairness ==
    /\ \A a \in Actors : WF_vars(Step(a))
    /\ \A n \in Targets : WF_vars(BootTool(n)) /\ SF_vars(Probe(n))
    /\ \A c \in Ids : WF_vars(Reap(c))
    /\ WF_vars(\E c \in Ids : Expire(c) \/ RetryDue(c))
    /\ \A x \in Callers : WF_vars(Return(x))

FairSpec == Spec /\ Fairness
=============================================================================
