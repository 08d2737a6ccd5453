------------------------------ MODULE MCTools ------------------------------
(* One server operated on next to a settled one that shares a tool with it *)
(* and has a tool named like the other's qualified one.                    *)
EXTENDS ToolsProps

a == <<"a">>
b == <<"b">>
t == <<"t">>
u == <<"u">>

Stdio == [gen |-> 1, transport |-> "stdio", auth |-> FALSE, on |-> "on", held |-> {}]
Sse   == [Stdio EXCEPT !.transport = "sse"]
OAuth == [Sse EXCEPT !.auth = TRUE]

MCNames   == {a, b}
MCLists   == (a :> {<<t, u>>}) @@ (b :> {<<t, <<"a", "t">>>>})
MCSettled == b :> 1
MCTargets == {a}
MCAdds    == {Sse, [Stdio EXCEPT !.on = "off"]}
MCEdits   == {[Sse EXCEPT !.gen = 2, !.on = Unset, !.held = Unset]}
MCHelds   == {{}, {u}}

Sections == {NoCfg, Stdio, [Stdio EXCEPT !.on = "off"], [Sse EXCEPT !.held = {u}], OAuth}
Locked   == [rivals |-> {}, menu |-> Operations, callers |-> Callers, boots |-> Sections,
             ops |-> 2, outages |-> 1, faults |-> 1]
Beside   == [Locked EXCEPT !.callers = {}, !.ops = 1, !.faults = 0]

MCSettings ==
    {[Locked EXCEPT !.callers = {}],
     [Locked EXCEPT !.ops = 1],
     [Locked EXCEPT !.rivals = {"health"}, !.ops = 0],
     [Beside EXCEPT !.rivals = {"health"}, !.boots = {Sse}, !.menu = {"remove", "disable"}],
     [Beside EXCEPT !.rivals = {"boot"}, !.menu = {"add", "remove", "disable", "enable"}],
     [Beside EXCEPT !.rivals = {"oauth"}, !.boots = {OAuth}, !.menu = {"reconnect", "disable"}]}
=============================================================================
