----------------------------- MODULE ToolsProps -----------------------------
(***************************************************************************)
(* What the tool servers promise.  The operations of the lifecycle manager *)
(* alone keep memory, index and file together; next to the health checker, *)
(* the startup retries or an OAuth reconnect, which take no part in its    *)
(* lock, less is promised, and the properties say how much.                *)
(***************************************************************************)
EXTENDS Tools

Quiet == starting = {} /\ \A a \in Actors : job[a] = Idle
Alone == setting.rivals = {}
Busy(c) == c \in reaping \/ \E a \in Actors : c \in {job[a].conn, job[a].probed}

(* A session is never closed under a running call unless the drain window  *)
(* of that server has expired and the forced close was audited, whichever  *)
(* of the goroutines closes it (manager.go drainAndClose).                 *)
CallsDrainFirst ==
    [][\A c \in Ids :
          conns[c].session \in {"open", "broken"} /\ conns[c].calls # {}
            /\ conns'[c].session \in {"closing", "closed"} => conns'[c].forced]_vars

(* No server process is forgotten: an open session belongs to a listed     *)
(* server or to the goroutine that connects or drains it; and a conn that  *)
(* is being torn down has somebody who finishes the teardown, so none is   *)
(* left refusing calls for good under a name it no longer serves.          *)
NothingLeaks ==
    \A c \in Ids :
        /\ conns[c].drain = "draining" => Busy(c)
        /\ Alone /\ conns[c].session = "open" => c \in {servers[n] : n \in Names} \/ Busy(c)

(* Every advertised name leads to the tool it names, and a bare name that  *)
(* two servers offer leads to neither; between operations the index is the *)
(* one of the servers that are listed (toolindex.go rebuildToolIndex).     *)
RoutesAsAdvertised ==
    /\ Alone /\ Quiet => index = Rebuild(servers, conns, order)
    /\ \A t \in DOMAIN index.map :
        LET c == index.map[t].conn
            local == index.map[t].tool
        IN  /\ t \in {local, Qualified(conns[c].name, local)}
            /\ conns[c].drain = "live" => local \in Range(conns[c].tools)
            /\ t = local /\ Alone => \A n \in Listed :
                  n # conns[c].name => local \notin Range(conns[servers[n]].tools)

(* While nothing has failed, the file describes the servers there are, and *)
(* a server runs, or waits for authorization, exactly when its section     *)
(* says enabled: a restart of the process finds the servers that ran.  The *)
(* exception is a disabled tool that an add or a manual restart started,   *)
(* which neither looks at (lifecycle.go AddTool, RestartTool).             *)
Runs(n) ==
    LET s == conns[servers[n]]
    IN  \/ s.session \in {"open", "broken"}
        \/ s.session = "none" /\ s.handler

Described(n) ==
    /\ file[n] = Current(n)
    /\ Runs(n) <=> (file[n].on # "off" \/ n \in startedOff)

SavedAsRunning ==
    Alone /\ Quiet /\ ~failed =>
        /\ plugins = sections
        /\ \A n \in Names :
              IF servers[n] = None THEN file[n] = NoCfg ELSE n \in plugins \/ Described(n)

(* "Disabled tools are excluded from the result." (manager.go, ToolDefs)   *)
WithheldStaysHidden ==
    \A t \in ToolDefs : index.map[t].tool \notin conns[index.map[t].conn].off

(* An operation of the lifecycle manager returns and lets lm.mu go: what a *)
(* teardown waits for ends, whichever calls and rivals run.                *)
OperationsReturn == job["lifecycle"] # Idle ~> job["lifecycle"] = Idle

(* A server that is reachable in the end is connected again, however often *)
(* its restarts have failed: the health checker slows down and does not    *)
(* give up (manager.go handleServerFailure).  Operations may interfere.    *)
Lost(n) == servers[n] # None /\ Enabled(servers[n]) /\ conns[servers[n]].session \in {"broken", "closed"}
Working(n) == servers[n] # None /\ conns[servers[n]].session = "open"
ServerRecovers ==
    \A n \in Targets :
        "health" \in setting.rivals /\ <>[]up[n] => (Lost(n) /\ ops = 0 ~> Working(n) \/ ops > 0)

(* What is begun on a server ends, and so does its outage.                 *)
ServersComeBack == OperationsReturn /\ ServerRecovers
=============================================================================
