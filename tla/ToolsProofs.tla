---------------------------- MODULE ToolsProofs ----------------------------
(***************************************************************************)
(* What holds of the tool servers for any names, configurations, callers   *)
(* and bounds, and in any setting.                                         *)
(***************************************************************************)
EXTENDS ToolsProps, SequenceTheorems, FiniteSetTheorems, TLAPS

Steps == {"unpublish", "drain", "hold", "shelve", "reinsert", "clear", "backoff", "probe",
          "lookup", "oauth", "connect", "publish", "list", "index", "save", "erase",
          "saveOff", "saveOn", "saveHeld", "savePlugin", "erasePlugin", "pending", "wait",
          "giveUp", "initiate", "healed", "done", "fail"}

JobFields  == {"op", "name", "cfg", "todo", "conn", "probed", "again", "tries"}
ConnFields == {"name", "cfg", "session", "drain", "calls", "tools", "off", "mark", "handler",
               "restarts", "resting", "forced"}

(* The variables keep the fields they start with.                          *)
Shapes ==
    /\ DOMAIN conns = Ids
    /\ \A c \in Ids : DOMAIN conns[c] = ConnFields
    /\ DOMAIN servers = Names
    /\ \A n \in Names : servers[n] \in Ids \union {None}
    /\ DOMAIN file = Names
    /\ reaping \subseteq Ids

-----------------------------------------------------------------------------
(* The list of steps: what may come after what.                            *)

Removing == {"remove", "removePlugin"}
Writes   == {"save", "erase", "saveOff", "saveOn", "saveHeld", "savePlugin", "erasePlugin"}
Final    == {"done", "fail", "healed", "initiate", "probe", "pending", "wait"}

(* What an operation does when the servers are as it wants them.           *)
Closing == [add |-> "save", update |-> "erase", remove |-> "erase", disable |-> "saveOff",
            enable |-> "saveOn", withhold |-> "saveHeld", addPlugin |-> "savePlugin",
            removePlugin |-> "erasePlugin", restart |-> "done", boot |-> "done",
            retry |-> "done", heal |-> "healed", reconnect |-> "initiate"]

Follower(op) ==
    [unpublish |-> {"drain"},
     drain     |-> {"fail"} \union (IF op \in Removing THEN {Closing[op]}
                       ELSE {"shelve", "hold", "reinsert", "lookup", "connect"}),
     shelve    |-> {"fail", Closing[op]},
     backoff   |-> {"unpublish"},
     hold |-> {"lookup", "connect"}, reinsert |-> {"lookup", "connect"}, clear |-> {"lookup", "connect"},
     lookup |-> {"oauth"}, oauth |-> {"connect"}, connect |-> {"publish"}, publish |-> {"list"},
     list      |-> {"index"},
     index     |-> {Closing[op]} \union (IF op = "reconnect" THEN {"done"} ELSE {}),
     erase     |-> {IF op = "update" THEN "save" ELSE "done"},
     save |-> {"done"}, saveOff |-> {"done"}, saveOn |-> {"done"}, saveHeld |-> {"done"},
     savePlugin |-> {"done"}, erasePlugin |-> {"done"}, giveUp |-> {"done"}]

After(op, s) == IF s \in DOMAIN Follower(op) THEN Follower(op)[s] ELSE {}

Writing(op) == {Closing[op]} \union (IF op = "update" THEN {"save"} ELSE {})

Linked(op, s) ==
    \A i \in 1 .. Len(s) :
        /\ s[i] \in Writes => s[i] \in Writing(op)
        /\ i # Len(s) => s[i + 1] \in After(op, s[i])

Planned(op, todo) == op \in DOMAIN Closing /\ Linked(op, todo) /\ Last(todo) \in Final

Holding == {"drain", "publish", "list", "index"}

Ready(j) ==
    /\ DOMAIN j = JobFields
    /\ j.todo \in Seq(Steps) /\ j.conn \in Ids \union {None} /\ j.probed \in Ids \union {None}
    /\ j.todo # <<>> => j.name \in Names /\ Planned(j.op, j.todo)
    /\ j.conn # None <=> j.todo # <<>> /\ Head(j.todo) \in Holding

Roles == [health |-> {"heal"}, boot |-> {"boot", "retry"}, oauth |-> {"reconnect"},
          lifecycle |-> DOMAIN Closing \ {"heal", "boot", "retry", "reconnect"}]

Jobs ==
    /\ DOMAIN job = Actors
    /\ \A a \in Actors : Ready(job[a]) /\ (job[a].todo # <<>> => job[a].op \in Roles[a])

(* Whatever is being torn down has somebody who finishes it.               *)
Attended(c) == c \in reaping \/ \E a \in Actors : job[a].conn = c /\ At(a, "drain")

Teardown == \A c \in Ids : conns[c].drain = "draining" => Attended(c)

-----------------------------------------------------------------------------
(* The operations of the lifecycle manager alone.                          *)

Before == {"lookup", "oauth", "connect", "publish", "shelve", "hold"}
Waits == {"pending", "wait", "giveUp"}
Vacant(n) == servers[n] = None \/ conns[servers[n]].session # "open"

(* One goroutine at a time has something to do, and has its name to        *)
(* itself.                                                                 *)
OneAtATime == Alone =>
    /\ job["health"] = Idle /\ job["oauth"] = Idle
    /\ starting # {} \/ job["boot"].todo # <<>> => job["lifecycle"].todo = <<>>
    /\ \A a \in Actors :
          /\ job[a].tries = 0 /\ job[a].op # "retry"
          /\ job[a].op = "boot" <=> a = "boot" /\ job[a].todo # <<>>
          /\ \A s \in Waits : ~At(a, s)
    /\ \A n \in starting \cap Names :
          servers[n] = None /\ (\A a \in Actors : job[a].todo # <<>> => job[a].name # n)

(* A goroutine that is about to enter a conn under its name finds none     *)
(* there, or one without a session; what it has entered stays until it is  *)
(* done with it.                                                           *)
Entering(a) ==
    /\ job[a].todo # <<>> /\ Head(job[a].todo) \in Before => Vacant(job[a].name)
    /\ At(a, "drain") => servers[job[a].name] = None
    /\ At(a, "list") \/ At(a, "index") => servers[job[a].name] = job[a].conn

Known(c) == \/ \E n \in Names : servers[n] = c
            \/ c \in reaping
            \/ \E a \in Actors : job[a].conn = c

Replacing == Alone =>
    /\ \A a \in Actors : Entering(a)
    /\ \A c \in Ids : conns[c].session = "open" => Known(c)

LeakInv == Shapes /\ Jobs /\ Teardown /\ OneAtATime /\ Replacing

-----------------------------------------------------------------------------
(* The file and what runs.                                                 *)

Saved(n) ==
    /\ n \in plugins => file[n] = NoCfg
    /\ IF servers[n] = None THEN file[n] = NoCfg
       ELSE n \in plugins \/ file[n] = Current(n)

Named == Alone =>
    /\ \A n \in Names : servers[n] # None => conns[servers[n]].name = n
    /\ \A a \in Actors :
          /\ job[a].conn # None => conns[job[a].conn].name = job[a].name
          /\ At(a, "publish") \/ At(a, "list") \/ At(a, "index") =>
                conns[job[a].conn].cfg = job[a].cfg

Failing(a) == Last(job[a].todo) = "fail"

(* An operation that has not failed: what it has done to the file, what    *)
(* runs, and what it has done to the list of plugins.                      *)
Written(a) ==
    LET j == job[a]  f == file[j.name] IN
    /\ j.op \in {"add", "update"} /\ At(a, "done") => f = j.cfg
    /\ j.op = "remove" /\ At(a, "done") => f = NoCfg
    /\ j.op \in {"restart", "boot"} => f = j.cfg
    /\ j.op = "disable"  => j.cfg = IF At(a, "done") THEN f ELSE [f EXCEPT !.on = "off"]
    /\ j.op = "enable"   => j.cfg = IF At(a, "done") THEN f ELSE [f EXCEPT !.on = "on"]
    /\ j.op = "withhold" => j.cfg = IF At(a, "done") THEN f ELSE [f EXCEPT !.held = j.cfg.held]
    /\ j.op \in {"addPlugin", "removePlugin"} => f = NoCfg

Placed(a) ==
    LET j == job[a] IN
    /\ j.op \in Removing =>
          /\ Head(j.todo) \in {"unpublish", "drain", "done", Closing[j.op]}
          /\ ~At(a, "unpublish") => servers[j.name] = None
    /\ j.op \notin Removing \union {"addPlugin"} /\ Head(j.todo) \in {"list", "index", "done"} \union Writes =>
          servers[j.name] # None /\ Current(j.name) = j.cfg

Listing(a) ==
    LET j == job[a] IN
    j.name \in plugins <=> \/ j.op = "addPlugin" /\ At(a, "done")
                           \/ j.op = "removePlugin" /\ ~At(a, "done")

Going(a) == Written(a) /\ Placed(a) /\ Listing(a)

InStep == Alone /\ ~failed =>
    /\ \A n \in starting : n \notin plugins
    /\ \A n \in Names \ starting :
          (\E a \in Actors : job[a].todo # <<>> /\ job[a].name = n) \/ Saved(n)
    /\ \A a \in Actors : job[a].todo # <<>> /\ ~Failing(a) => Going(a)

SaveInv == plugins = sections /\ Named /\ InStep

ToolsInv == LeakInv /\ SaveInv

-----------------------------------------------------------------------------
(* The operators: lists of steps.                                          *)

LEMMA TailPlanned ==
    ASSUME NEW op, NEW todo \in Seq(Steps), todo # <<>>, Planned(op, todo)
    PROVE  /\ Head(todo) \in Steps
           /\ Tail(todo) \in Seq(Steps)
           /\ Tail(todo) = <<>> <=> Head(todo) \in Final
           /\ Tail(todo) # <<>> =>
                 /\ Planned(op, Tail(todo))
                 /\ Head(Tail(todo)) \in After(op, Head(todo))
                 /\ Last(Tail(todo)) = Last(todo)
<1> DEFINE n == Len(todo)  left == Tail(todo)
<1>1. /\ n \in Nat \ {0}
      /\ Head(todo) = todo[1] /\ Head(todo) \in Steps
      /\ left \in Seq(Steps) /\ Len(left) = n - 1
      /\ \A i \in 1 .. n - 1 : left[i] = todo[i + 1]
  BY EmptySeq, HeadTailProperties
<1>2. n = 1 => Head(todo) \in Final /\ left = <<>>
  <2> HAVE n = 1
  <2>1. left = <<>>
    <3>1. Len(left) = 0
      BY <1>1
    <3> HIDE DEF left
    <3> QED
      BY <1>1, <3>1, EmptySeq
  <2> QED
    BY <1>1, <2>1 DEF Planned, Last
<1>3. CASE n > 1
  <2>1. left # <<>> /\ Head(left) = todo[2] /\ todo[2] \in After(op, Head(todo))
    <3>1. 1 \in 1 .. n - 1 /\ 1 \in 1 .. n /\ 1 # n /\ 1 + 1 = 2
      BY <1>1, <1>3
    <3>2. left[1] = todo[2] /\ Len(left) # 0
      BY <1>1, <3>1
    <3>3. todo[2] \in After(op, todo[1])
      BY <3>1 DEF Planned, Linked
    <3> HIDE DEF left
    <3>4. left # <<>> /\ Head(left) = left[1]
      BY <1>1, <3>2, EmptySeq
    <3> QED
      BY <1>1, <3>2, <3>3, <3>4
  <2>2. Head(todo) \notin Final
    BY <2>1 DEF After, Follower, Final
  <2>3. Linked(op, left)
    <3> SUFFICES ASSUME NEW i \in 1 .. Len(left)
                 PROVE  /\ left[i] \in Writes => left[i] \in Writing(op)
                        /\ i # Len(left) => left[i + 1] \in After(op, left[i])
      BY DEF Linked
    <3>1. i + 1 \in 1 .. n /\ left[i] = todo[i + 1] /\ (i = Len(left) <=> i + 1 = n)
      BY <1>1
    <3>2. i # Len(left) => left[i + 1] = todo[(i + 1) + 1]
      <4> HIDE DEF n, left
      <4>1. i # Len(left) => i + 1 \in 1 .. n - 1
        BY <1>1
      <4> QED
        BY <4>1, <1>1
    <3> HIDE DEF n, left
    <3> QED
      BY <3>1, <3>2 DEF Planned, Linked, n
  <2>4. Last(left) = Last(todo)
    BY <1>1, <1>3 DEF Last
  <2> QED
    BY <1>1, <2>1, <2>2, <2>3, <2>4 DEF Planned
<1> QED
  BY <1>1, <1>2, <1>3

LEMMA Joined ==
    ASSUME NEW op, NEW s \in Seq(Steps), NEW t \in Seq(Steps), s # <<>>, t # <<>>,
           Linked(op, s), Linked(op, t), Head(t) \in After(op, Last(s))
    PROVE  /\ s \o t \in Seq(Steps) /\ s \o t # <<>>
           /\ Linked(op, s \o t)
           /\ Head(s \o t) = Head(s) /\ Last(s \o t) = Last(t)
<1>1. /\ Len(s) \in Nat \ {0} /\ Len(t) \in Nat \ {0}
      /\ s \o t \in Seq(Steps) /\ Len(s \o t) = Len(s) + Len(t)
      /\ \A i \in 1 .. Len(s) : (s \o t)[i] = s[i]
      /\ \A i \in 1 .. Len(t) : (s \o t)[Len(s) + i] = t[i]
      /\ Head(s) = s[1] /\ Head(t) = t[1] /\ Last(s) = s[Len(s)] /\ Last(t) = t[Len(t)]
  BY DEF Last
<1>2. s \o t # <<>> /\ Head(s \o t) = Head(s) /\ Last(s \o t) = Last(t)
  BY <1>1 DEF Last
<1>3. Linked(op, s \o t)
  <2> DEFINE u == s \o t
  <2> SUFFICES ASSUME NEW i \in 1 .. Len(u)
               PROVE  /\ u[i] \in Writes => u[i] \in Writing(op)
                      /\ i # Len(u) => u[i + 1] \in After(op, u[i])
    BY DEF Linked
  <2>1. CASE i < Len(s)
    BY <1>1, <2>1 DEF Linked
  <2>2. CASE i = Len(s)
    <3>1. u[i] = Last(s) /\ u[i + 1] = Head(t) /\ i # Len(u)
      BY <1>1, <2>2
    <3> QED
      BY <3>1, <1>1, <2>2 DEF Linked
  <2>3. CASE i > Len(s)
    <3>1. PICK k \in 1 .. Len(t) : i = Len(s) + k
      <4>1. i - Len(s) \in 1 .. Len(t) /\ i = Len(s) + (i - Len(s))
        BY <1>1, <2>3
      <4> QED
        BY <4>1
    <3>2. u[i] = t[k]
      BY <3>1, <1>1
    <3>4. i = Len(u) <=> k = Len(t)
      BY <3>1, <1>1
    <3>3. k # Len(t) => u[i + 1] = t[k + 1]
      <4>1. k # Len(t) => k + 1 \in 1 .. Len(t) /\ i + 1 = Len(s) + (k + 1)
        BY <3>1, <1>1
      <4> QED
        BY <4>1, <1>1
    <3> QED
      BY <3>2, <3>3, <3>4 DEF Linked
  <2>4. i \in Int /\ Len(s) \in Int
    BY <1>1
  <2>5. i < Len(s) \/ i = Len(s) \/ i > Len(s)
    BY <2>4
  <2> QED
    BY <2>1, <2>2, <2>3, <2>5
<1> QED
  BY <1>1, <1>2, <1>3

LEMMA Pieces ==
    ASSUME NEW op \in DOMAIN Closing, NEW cfg
    PROVE  /\ Unregister \in Seq(Steps) /\ Unregister # <<>> /\ Linked(op, Unregister)
           /\ Head(Unregister) = "unpublish" /\ Last(Unregister) = "drain"
           /\ Register(cfg) \in Seq(Steps) /\ Register(cfg) # <<>> /\ Linked(op, Register(cfg))
           /\ Head(Register(cfg)) \in {"lookup", "connect"} /\ Last(Register(cfg)) = "index"
<1>1. /\ Unregister \in Seq(Steps) /\ Unregister # <<>> /\ Len(Unregister) = 2
      /\ Head(Unregister) = "unpublish"
      /\ Unregister[1] = "unpublish" /\ Unregister[2] = "drain"
  BY DEF Unregister, Steps
<1>2. Linked(op, Unregister) /\ Last(Unregister) = "drain"
  <2>1. \A i \in 1 .. Len(Unregister) : i \in {1, 2}
    BY <1>1
  <2> QED
    BY <1>1, <2>1 DEF Linked, After, Follower, Writes, Last
<1>3. CASE Remote(cfg)
  <2> DEFINE s == <<"lookup", "oauth">>  t == <<"connect", "publish", "list", "index">>
  <2>1. Register(cfg) = s \o t
    BY <1>3 DEF Register
  <2>4. /\ s \in Seq(Steps) /\ Len(s) = 2 /\ s[1] = "lookup" /\ s[2] = "oauth"
        /\ t \in Seq(Steps) /\ Len(t) = 4 /\ t[1] = "connect" /\ t[2] = "publish"
        /\ t[3] = "list" /\ t[4] = "index"
    BY DEF Steps
  <2>2. /\ Len(Register(cfg)) = 6 /\ Register(cfg) \in Seq(Steps) /\ Register(cfg) # <<>>
        /\ Register(cfg)[1] = "lookup" /\ Register(cfg)[2] = "oauth"
        /\ Register(cfg)[3] = "connect" /\ Register(cfg)[4] = "publish"
        /\ Register(cfg)[5] = "list" /\ Register(cfg)[6] = "index"
    <3> HIDE DEF s, t
    <3>1. /\ s \o t \in Seq(Steps) /\ Len(s \o t) = 6
          /\ \A i \in 1 .. 6 : (s \o t)[i] = IF i <= 2 THEN s[i] ELSE t[i - 2]
      <4>1. /\ s \o t \in Seq(Steps) /\ Len(s \o t) = Len(s) + Len(t)
            /\ \A i \in 1 .. Len(s) + Len(t) : (s \o t)[i] = IF i <= Len(s) THEN s[i] ELSE t[i - Len(s)]
        BY <2>4, ConcatProperties
      <4> QED
        BY <4>1, <2>4
    <3>2. s \o t # <<>>
      BY <3>1, EmptySeq
    <3> QED
      BY <2>1, <2>4, <3>1, <3>2
  <2>3. Linked(op, Register(cfg))
    <3>1. \A i \in 1 .. Len(Register(cfg)) : i \in {1, 2, 3, 4, 5, 6}
      BY <2>2
    <3> QED
      BY <2>2, <3>1 DEF Linked, After, Follower, Writes
  <2> QED
    BY <1>1, <1>2, <2>2, <2>3 DEF Last
<1>4. CASE ~Remote(cfg)
  <2>1. Register(cfg) = <<"connect", "publish", "list", "index">>
    BY <1>4 DEF Register
  <2>2. /\ Len(Register(cfg)) = 4 /\ Register(cfg) \in Seq(Steps) /\ Register(cfg) # <<>>
        /\ Register(cfg)[1] = "connect" /\ Register(cfg)[2] = "publish"
        /\ Register(cfg)[3] = "list" /\ Register(cfg)[4] = "index"
    BY <2>1 DEF Steps
  <2>3. Linked(op, Register(cfg))
    <3>1. \A i \in 1 .. Len(Register(cfg)) : i \in {1, 2, 3, 4}
      BY <2>2
    <3> QED
      BY <2>2, <3>1 DEF Linked, After, Follower, Writes
  <2> QED
    BY <1>1, <1>2, <2>2, <2>3 DEF Last
<1> QED
  BY <1>3, <1>4

(* What follows what, step by step.                                        *)
LEMMA Afters ==
    ASSUME NEW op
    PROVE  /\ After(op, "unpublish") = {"drain"}
           /\ "fail" \in After(op, "drain")
           /\ op \in Removing => After(op, "drain") = {"fail", Closing[op]}
           /\ op \notin Removing =>
                 After(op, "drain") = {"fail", "shelve", "hold", "reinsert", "lookup", "connect"}
           /\ \A s \in {"hold", "reinsert", "clear"} : After(op, s) = {"lookup", "connect"}
           /\ After(op, "backoff") = {"unpublish"}
           /\ After(op, "shelve") = {Closing[op], "fail"}
           /\ Closing[op] \in After(op, "index")
           /\ op = "reconnect" => "done" \in After(op, "index")
           /\ After(op, "giveUp") = {"done"}
           /\ \A s \in Writes : (s = "erase" => op # "update") => After(op, s) = {"done"}
           /\ After("update", "erase") = {"save"}
           /\ After(op, "lookup") = {"oauth"} /\ After(op, "oauth") = {"connect"}
           /\ After(op, "connect") = {"publish"} /\ After(op, "publish") = {"list"}
           /\ After(op, "list") = {"index"}
           /\ After(op, "index") \subseteq {Closing[op], "done"}
           /\ \A s \in Final : After(op, s) = {}
<1>1. After(op, "unpublish") = {"drain"}
  BY DEF After, Follower
<1>2. After(op, "drain") = {"fail"} \union (IF op \in Removing THEN {Closing[op]}
                                ELSE {"shelve", "hold", "reinsert", "lookup", "connect"})
  BY DEF After, Follower
<1>3. \A s \in {"hold", "reinsert", "clear"} : After(op, s) = {"lookup", "connect"}
  BY DEF After, Follower
<1>5. After(op, "backoff") = {"unpublish"}
  BY DEF After, Follower
<1>6. After(op, "shelve") = {Closing[op], "fail"}
  BY DEF After, Follower
<1>7. After(op, "index") = {Closing[op]} \union (IF op = "reconnect" THEN {"done"} ELSE {})
  BY DEF After, Follower
<1>8. After(op, "giveUp") = {"done"}
  BY DEF After, Follower
<1>9. After("update", "erase") = {"save"}
  BY DEF After, Follower
<1>4. ASSUME NEW s \in Writes, s = "erase" => op # "update"
      PROVE  After(op, s) = {"done"}
  BY <1>4 DEF After, Follower, Writes
<1>10. /\ After(op, "lookup") = {"oauth"} /\ After(op, "oauth") = {"connect"}
       /\ After(op, "connect") = {"publish"} /\ After(op, "publish") = {"list"}
       /\ After(op, "list") = {"index"}
  BY DEF After, Follower
<1>11. \A s \in Final : After(op, s) = {}
  BY DEF After, Follower, Final
<1> QED
  BY <1>1, <1>2, <1>3, <1>4, <1>5, <1>6, <1>7, <1>8, <1>9, <1>10, <1>11

LEMMA Closes ==
    /\ Closing["add"] = "save" /\ Closing["update"] = "erase" /\ Closing["remove"] = "erase"
    /\ Closing["disable"] = "saveOff" /\ Closing["enable"] = "saveOn"
    /\ Closing["withhold"] = "saveHeld" /\ Closing["addPlugin"] = "savePlugin"
    /\ Closing["removePlugin"] = "erasePlugin" /\ Closing["restart"] = "done"
    /\ Closing["boot"] = "done" /\ Closing["retry"] = "done" /\ Closing["heal"] = "healed"
    /\ Closing["reconnect"] = "initiate"
    /\ DOMAIN Closing = {"add", "remove", "update", "restart", "disable", "enable", "withhold",
                         "addPlugin", "removePlugin", "boot", "retry", "reconnect", "heal"}
    /\ \A op \in DOMAIN Closing : op # "update" => Writing(op) = {Closing[op]}
    /\ Writing("update") = {"erase", "save"}
<1>1. /\ Closing["add"] = "save" /\ Closing["update"] = "erase" /\ Closing["remove"] = "erase"
      /\ Closing["disable"] = "saveOff" /\ Closing["enable"] = "saveOn"
      /\ Closing["withhold"] = "saveHeld" /\ Closing["addPlugin"] = "savePlugin"
      /\ Closing["removePlugin"] = "erasePlugin" /\ Closing["restart"] = "done"
      /\ Closing["boot"] = "done" /\ Closing["retry"] = "done" /\ Closing["heal"] = "healed"
      /\ Closing["reconnect"] = "initiate"
      /\ DOMAIN Closing = {"add", "remove", "update", "restart", "disable", "enable", "withhold",
                           "addPlugin", "removePlugin", "boot", "retry", "reconnect", "heal"}
  BY DEF Closing
<1>2. \A op : op # "update" => Writing(op) = {Closing[op]}
  BY DEF Writing
<1>3. Writing("update") = {"erase", "save"}
  BY <1>1 DEF Writing
<1> QED
  BY <1>1, <1>2, <1>3

(* The lists an operation ends with.                                       *)
LEMMA Endings ==
    ASSUME NEW op \in DOMAIN Closing
    PROVE  /\ \A x \in Final : /\ <<x>> \in Seq(Steps) /\ <<x>> # <<>> /\ Linked(op, <<x>>)
                               /\ Head(<<x>>) = x /\ Last(<<x>>) = x
           /\ \A x \in {"shelve", "giveUp"} \union Writing(op) : \A y \in After(op, x) :
                 /\ <<x, y>> \in Seq(Steps) /\ <<x, y>> # <<>>
                 /\ y \notin {"healed", "initiate"} => Linked(op, <<x, y>>)
                 /\ Head(<<x, y>>) = x /\ Last(<<x, y>>) = y
           /\ op = "update" =>
                 LET s == <<"erase", "save", "done">> IN
                 s \in Seq(Steps) /\ s # <<>> /\ Linked(op, s) /\ Head(s) = "erase" /\ Last(s) = "done"
<1>1. ASSUME NEW x \in Final
      PROVE  /\ <<x>> \in Seq(Steps) /\ <<x>> # <<>> /\ Linked(op, <<x>>)
             /\ Head(<<x>>) = x /\ Last(<<x>>) = x
  <2>1. x \in Steps /\ x \notin Writes
    BY DEF Final, Steps, Writes
  <2> QED
    BY <2>1 DEF Linked, Last
<1>2. ASSUME NEW x \in {"shelve", "giveUp"} \union Writing(op), NEW y \in After(op, x)
      PROVE  /\ <<x, y>> \in Seq(Steps) /\ <<x, y>> # <<>>
             /\ y \notin {"healed", "initiate"} => Linked(op, <<x, y>>)
             /\ Head(<<x, y>>) = x /\ Last(<<x, y>>) = y
  <2>1. x \in Steps /\ y \in Steps
    BY DEF Closing, Writing, After, Follower, Steps
  <2>2. y \in Writes => y \in Writing(op)
    BY DEF Closing, Writing, After, Follower, Writes
  <2>3. x \in Writes => x \in Writing(op)
    BY DEF Writes
  <2>4. /\ <<x, y>> \in Seq(Steps) /\ <<x, y>> # <<>> /\ Len(<<x, y>>) = 2
        /\ Head(<<x, y>>) = x /\ <<x, y>>[1] = x /\ <<x, y>>[2] = y
    BY <2>1
  <2>5. \A i \in 1 .. Len(<<x, y>>) : i \in {1, 2}
    BY <2>4
  <2> QED
    BY <2>2, <2>3, <2>4, <2>5 DEF Linked, Last
<1>3. ASSUME op = "update"
      PROVE  LET s == <<"erase", "save", "done">> IN
             s \in Seq(Steps) /\ s # <<>> /\ Linked(op, s) /\ Head(s) = "erase" /\ Last(s) = "done"
  <2> DEFINE s == <<"erase", "save", "done">>
  <2>1. /\ s \in Seq(Steps) /\ s # <<>> /\ Len(s) = 3 /\ Head(s) = "erase"
        /\ s[1] = "erase" /\ s[2] = "save" /\ s[3] = "done"
    BY DEF Steps
  <2>2. \A i \in 1 .. Len(s) : i \in {1, 2, 3}
    BY <2>1
  <2> QED
    <3>1. /\ After(op, "erase") = {"save"} /\ After(op, "save") = {"done"}
          /\ Writing(op) = {"erase", "save"}
      BY <1>3, Afters, Closes DEF Writes
    <3> QED
      BY <2>1, <2>2, <3>1 DEF Linked, Writes, Last
<1> QED
  BY <1>1, <1>2, <1>3

(* A list that may be used in an operation, by its first and last step.    *)
List(op, x, s, y) == s \in Seq(Steps) /\ s # <<>> /\ Linked(op, s) /\ Head(s) = x /\ Last(s) = y

LEMMA Followed ==
    ASSUME NEW op, NEW s, NEW t, NEW x, NEW y, NEW v, NEW w,
           List(op, x, s, y), List(op, v, t, w), v \in After(op, y)
    PROVE  List(op, x, s \o t, w)
BY Joined DEF List

Single(op, x) == List(op, x, <<x>>, x)

(* The first step of a registration.                                       *)
Opening(cfg) == Head(Register(cfg))

LEMMA ListsUsed ==
    ASSUME NEW op \in DOMAIN Closing, NEW cfg
    PROVE  /\ List(op, "unpublish", Unregister, "drain")
           /\ List(op, Opening(cfg), Register(cfg), "index")
           /\ Opening(cfg) \in {"lookup", "connect"}
           /\ \A x \in Final : Single(op, x)
           /\ List(op, "shelve", <<"shelve", "fail">>, "fail")
           /\ List(op, "giveUp", <<"giveUp", "done">>, "done")
<1>1. "fail" \in After(op, "shelve") /\ "done" \in After(op, "giveUp")
  BY Afters
<1>2. \A x \in Final : Single(op, x)
  BY Endings DEF List, Single
<1>3. List(op, "shelve", <<"shelve", "fail">>, "fail")
  BY <1>1, Endings DEF List
<1>4. List(op, "giveUp", <<"giveUp", "done">>, "done")
  BY <1>1, Endings DEF List
<1>5. List(op, "unpublish", Unregister, "drain")
  BY Pieces DEF List
<1>6. List(op, Opening(cfg), Register(cfg), "index") /\ Opening(cfg) \in {"lookup", "connect"}
  BY Pieces DEF List, Opening
<1> QED
  BY <1>2, <1>3, <1>4, <1>5, <1>6

LEMMA Programs ==
    ASSUME NEW cfg
    PROVE  LET R == Register(cfg)  o == Opening(cfg)  U == Unregister  u == "unpublish" IN
           /\ List("add", o, R \o <<"save", "done">>, "done")
           /\ List("remove", u, U \o <<"erase", "done">>, "done")
           /\ List("update", u, U \o <<"shelve">> \o <<"erase", "save", "done">>, "done")
           /\ List("update", u, U \o R \o <<"erase", "save", "done">>, "done")
           /\ List("restart", u, U \o <<"hold">> \o R \o <<"done">>, "done")
           /\ List("disable", u, U \o <<"shelve", "saveOff", "done">>, "done")
           /\ List("enable", u, U \o R \o <<"saveOn", "done">>, "done")
           /\ List("withhold", "saveHeld", <<"saveHeld", "done">>, "done")
           /\ List("addPlugin", o, R \o <<"savePlugin", "done">>, "done")
           /\ List("addPlugin", "savePlugin", <<>> \o <<"savePlugin", "done">>, "done")
           /\ List("removePlugin", u, U \o <<"erasePlugin", "done">>, "done")
           /\ List("boot", "shelve", <<"shelve">> \o <<"done">>, "done")
           /\ \A op \in {"boot", "retry", "reconnect"} : List(op, o, R \o <<"done">>, "done")
           /\ List("reconnect", "clear", <<"clear">> \o R \o <<"initiate">>, "initiate")
           /\ List("heal", "probe", <<"probe">>, "probe")
           /\ List("heal", u, <<>> \o U \o <<"reinsert">> \o R \o <<"healed">>, "healed")
           /\ List("heal", "backoff", <<"backoff">> \o U \o <<"reinsert">> \o R \o <<"healed">>, "healed")
           /\ \A op \in {"add", "addPlugin"} : List(op, u, U \o <<"fail">>, "fail")
<1> DEFINE R == Register(cfg)  o == Opening(cfg)  U == Unregister  u == "unpublish"
<1>0. \A op :
         /\ After(op, "unpublish") = {"drain"}
         /\ "fail" \in After(op, "drain")
         /\ op \in Removing => Closing[op] \in After(op, "drain")
         /\ op \notin Removing => {"shelve", "hold", "reinsert", "lookup", "connect"} \subseteq After(op, "drain")
         /\ \A s \in {"hold", "reinsert", "clear"} : After(op, s) = {"lookup", "connect"}
         /\ After(op, "backoff") = {"unpublish"}
         /\ After(op, "shelve") = {Closing[op], "fail"}
         /\ Closing[op] \in After(op, "index")
         /\ op = "reconnect" => "done" \in After(op, "index")
  BY Afters
<1>1. \A op \in DOMAIN Closing :
         /\ List(op, u, U, "drain") /\ List(op, o, R, "index") /\ o \in {"lookup", "connect"}
         /\ \A x \in Final : Single(op, x)
  <2> SUFFICES ASSUME NEW op \in DOMAIN Closing
               PROVE  /\ List(op, u, U, "drain") /\ List(op, o, R, "index") /\ o \in {"lookup", "connect"}
                      /\ \A x \in Final : Single(op, x)
    OBVIOUS
  <2>1. \A x \in Final : Single(op, x)
    BY ListsUsed
  <2>2. List(op, u, U, "drain") /\ List(op, o, R, "index") /\ o \in {"lookup", "connect"}
    BY ListsUsed
  <2> QED
    BY <2>1, <2>2
<1>2. \A op, s, t, x, y, v, w :
         List(op, x, s, y) /\ List(op, v, t, w) /\ v \in After(op, y) => List(op, x, s \o t, w)
  BY Followed
<1>3. /\ List("add", "save", <<"save", "done">>, "done")
      /\ List("remove", "erase", <<"erase", "done">>, "done")
      /\ List("update", "erase", <<"erase", "save", "done">>, "done")
      /\ List("enable", "saveOn", <<"saveOn", "done">>, "done")
      /\ List("disable", "saveOff", <<"saveOff", "done">>, "done")
      /\ List("withhold", "saveHeld", <<"saveHeld", "done">>, "done")
      /\ List("addPlugin", "savePlugin", <<"savePlugin", "done">>, "done")
      /\ List("removePlugin", "erasePlugin", <<"erasePlugin", "done">>, "done")
  BY Endings, Afters, Closes DEF List, Writes
<1>4. \A op \in DOMAIN Closing : \A x \in {"shelve", "hold", "clear", "backoff", "reinsert"} : Single(op, x)
  BY DEF Single, List, Steps, Linked, Writes, Last
<1>5. List("disable", "shelve", <<"shelve", "saveOff", "done">>, "done")
  <2> DEFINE s == <<"shelve", "saveOff", "done">>
  <2>1. /\ s \in Seq(Steps) /\ s # <<>> /\ Len(s) = 3 /\ Head(s) = "shelve"
        /\ s[1] = "shelve" /\ s[2] = "saveOff" /\ s[3] = "done"
    BY DEF Steps
  <2>2. \A i \in 1 .. Len(s) : i \in {1, 2, 3}
    BY <2>1
  <2>3. /\ "saveOff" \in After("disable", "shelve") /\ "done" \in After("disable", "saveOff")
        /\ "saveOff" \in Writing("disable")
    BY Afters, Closes DEF Writes
  <2> QED
    BY <2>1, <2>2, <2>3 DEF List, Linked, Writes, Last
<1> HIDE DEF R, o, U
<1>6. /\ {"done", "fail", "healed", "initiate", "probe"} \subseteq Final
      /\ {"add", "remove", "update", "restart", "disable", "enable", "withhold", "addPlugin",
          "removePlugin", "boot", "retry", "reconnect", "heal"} \subseteq DOMAIN Closing
  BY Closes DEF Final
<1>7. /\ List("add", o, R \o <<"save", "done">>, "done")
      /\ List("remove", u, U \o <<"erase", "done">>, "done")
      /\ List("disable", u, U \o <<"shelve", "saveOff", "done">>, "done")
      /\ List("addPlugin", o, R \o <<"savePlugin", "done">>, "done")
      /\ List("removePlugin", u, U \o <<"erasePlugin", "done">>, "done")
  BY <1>1, <1>2, <1>3, <1>5, <1>6, <1>0, Closes DEF Removing, Writes, Single
<1>8. /\ List("addPlugin", "savePlugin", <<>> \o <<"savePlugin", "done">>, "done")
      /\ <<>> \o U = U
  BY <1>1, <1>3, <1>6, ConcatEmptySeq DEF List
<1>9. /\ List("update", u, U \o <<"shelve">> \o <<"erase", "save", "done">>, "done")
      /\ List("update", u, U \o R \o <<"erase", "save", "done">>, "done")
  <2>1. List("update", u, U \o <<"shelve">>, "shelve") /\ List("update", u, U \o R, "index")
    BY <1>1, <1>2, <1>4, <1>6, <1>0, Closes DEF Removing, Writes, Single
  <2> QED
    BY <1>2, <1>3, <2>1, <1>0, Closes DEF Removing, Writes, Single
<1>10. List("enable", u, U \o R \o <<"saveOn", "done">>, "done")
  <2>1. List("enable", u, U \o R, "index")
    BY <1>1, <1>2, <1>6, <1>0, Closes DEF Removing, Writes, Single
  <2> QED
    BY <1>2, <1>3, <2>1, <1>0, Closes DEF Removing, Writes, Single
<1>11. List("restart", u, U \o <<"hold">> \o R \o <<"done">>, "done")
  <2>1. List("restart", u, U \o <<"hold">>, "hold")
    BY <1>1, <1>2, <1>4, <1>6, <1>0, Closes DEF Removing, Writes, Single
  <2>2. List("restart", u, U \o <<"hold">> \o R, "index")
    BY <1>1, <1>2, <1>6, <2>1, <1>0, Closes DEF Removing, Writes, Single
  <2> QED
    BY <1>1, <1>2, <1>6, <2>2, <1>0, Closes DEF Removing, Writes, Single
<1>12. /\ List("boot", "shelve", <<"shelve">> \o <<"done">>, "done")
       /\ \A op \in {"boot", "retry", "reconnect"} : List(op, o, R \o <<"done">>, "done")
       /\ List("heal", "probe", <<"probe">>, "probe")
       /\ \A op \in {"add", "addPlugin"} : List(op, u, U \o <<"fail">>, "fail")
  BY <1>1, <1>2, <1>4, <1>6, <1>0, Closes DEF Removing, Writes, Single
<1>13. List("reconnect", "clear", <<"clear">> \o R \o <<"initiate">>, "initiate")
  <2>1. List("reconnect", "clear", <<"clear">> \o R, "index")
    BY <1>1, <1>2, <1>4, <1>6, <1>0, Closes DEF Removing, Writes, Single
  <2> QED
    BY <1>1, <1>2, <1>6, <2>1, <1>0, Closes DEF Removing, Writes, Single
<1>14. /\ List("heal", u, <<>> \o U \o <<"reinsert">> \o R \o <<"healed">>, "healed")
       /\ List("heal", "backoff", <<"backoff">> \o U \o <<"reinsert">> \o R \o <<"healed">>, "healed")
  <2>1. ASSUME NEW x, NEW s, List("heal", x, s, "drain")
        PROVE  List("heal", x, s \o <<"reinsert">> \o R \o <<"healed">>, "healed")
    <3>1. List("heal", x, s \o <<"reinsert">>, "reinsert")
      BY <1>2, <1>4, <1>6, <2>1, <1>0, Closes DEF Removing, Writes, Single
    <3>2. List("heal", x, s \o <<"reinsert">> \o R, "index")
      BY <1>1, <1>2, <1>6, <3>1, <1>0, Closes DEF Removing, Writes, Single
    <3> QED
      BY <1>1, <1>2, <1>6, <3>2, <1>0, Closes DEF Removing, Writes, Single
  <2>2. List("heal", "backoff", <<"backoff">> \o U, "drain")
    BY <1>1, <1>2, <1>4, <1>6, <1>0, Closes DEF Removing, Writes, Single
  <2> QED
    BY <1>1, <1>6, <1>8, <2>1, <2>2
<1> QED
  BY <1>3, <1>7, <1>8, <1>9, <1>10, <1>11, <1>12, <1>13, <1>14 DEF R, o, U

-----------------------------------------------------------------------------
(* What a step does to the jobs.                                           *)

Others(a) == DOMAIN job' = Actors /\ \A b \in Actors \ {a} : job'[b] = job[b]
Same(a) ==
    /\ DOMAIN job'[a] = JobFields
    /\ job'[a].op = job[a].op /\ job'[a].name = job[a].name /\ job'[a].cfg = job[a].cfg
    /\ job'[a].tries = job[a].tries /\ job'[a].probed = job[a].probed

(* The next step of the list is on.                                        *)
GoesOn(a) ==
    /\ Others(a) /\ Same(a) /\ job'[a].todo # <<>>
    /\ Head(job'[a].todo) \in After(job[a].op, Head(job[a].todo))
    /\ Last(job'[a].todo) = Last(job[a].todo)

LEMMA JobsOthers ==
    ASSUME Jobs, NEW a \in Actors, Others(a), Ready(job'[a]),
           job'[a].todo # <<>> => job'[a].op \in Roles[a]
    PROVE  Jobs'
BY DEF Jobs, Others, Ready, Roles

LEMMA Idles ==
    /\ DOMAIN Idle = JobFields /\ Idle.todo = <<>> /\ Idle.conn = None /\ Idle.probed = None
    /\ Idle.tries = 0 /\ Idle.op = "idle" /\ Ready(Idle)
BY EmptySeq DEF Idle, JobFields, Ready

LEMMA NextHead ==
    ASSUME Jobs, NEW a \in Actors, NEW s, At(a, s), s \notin Final,
           Others(a), Same(a), job'[a].todo = Tail(job[a].todo), job'[a].conn \in Ids \union {None},
           Head(job'[a].todo) \in Holding <=> job'[a].conn # None
    PROVE  GoesOn(a) /\ Jobs' /\ Head(job'[a].todo) \in After(job[a].op, s)
<1>1. /\ job[a].todo \in Seq(Steps) /\ job[a].todo # <<>> /\ Planned(job[a].op, job[a].todo)
      /\ Head(job[a].todo) = s /\ job[a].name \in Names
  BY DEF Jobs, Ready, At
<1>2. /\ Tail(job[a].todo) \in Seq(Steps) /\ Tail(job[a].todo) # <<>>
      /\ Planned(job[a].op, Tail(job[a].todo))
      /\ Head(Tail(job[a].todo)) \in After(job[a].op, s)
      /\ Last(Tail(job[a].todo)) = Last(job[a].todo)
  BY <1>1, TailPlanned
<1>3. Ready(job'[a]) /\ job'[a].op \in Roles[a]
  BY <1>1, <1>2 DEF Ready, Same, Jobs
<1> QED
  BY <1>1, <1>2, <1>3, JobsOthers DEF GoesOn

(* The first step of a list that is under way, and of what is left of it.  *)
LEMMA Heads ==
    ASSUME Jobs, NEW a \in Actors, NEW s, At(a, s)
    PROVE  /\ job[a].op \in DOMAIN Closing /\ job[a].todo \in Seq(Steps) /\ job[a].todo # <<>>
           /\ job[a].op \in Roles[a]
           /\ Head(job[a].todo) = s /\ job[a].name \in Names /\ DOMAIN job[a] = JobFields
           /\ job[a].conn \in Ids \union {None} /\ (job[a].conn # None <=> s \in Holding)
           /\ s \in Writes => s \in Writing(job[a].op)
           /\ s \notin Final => /\ Tail(job[a].todo) \in Seq(Steps) /\ Tail(job[a].todo) # <<>>
                               /\ Planned(job[a].op, Tail(job[a].todo))
                               /\ Head(Tail(job[a].todo)) \in After(job[a].op, s)
                               /\ Last(Tail(job[a].todo)) = Last(job[a].todo)
<1>1. /\ job[a].todo \in Seq(Steps) /\ job[a].todo # <<>> /\ Planned(job[a].op, job[a].todo)
      /\ Head(job[a].todo) = s /\ job[a].name \in Names /\ job[a].conn \in Ids \union {None}
      /\ job[a].conn # None <=> s \in Holding
      /\ DOMAIN job[a] = JobFields /\ job[a].op \in Roles[a]
  BY DEF Jobs, Ready, At
<1>2. s = job[a].todo[1] /\ 1 \in 1 .. Len(job[a].todo)
  BY <1>1, EmptySeq
<1>3. s \in Writes => s \in Writing(job[a].op)
  BY <1>1, <1>2 DEF Planned, Linked
<1> QED
  BY <1>1, <1>3, TailPlanned DEF Planned

LEMMA Usable ==
    ASSUME NEW op, NEW s, NEW x, NEW y, List(op, x, s, y), op \in DOMAIN Closing, y \in Final
    PROVE  s \in Seq(Steps) /\ s # <<>> /\ Planned(op, s) /\ Head(s) = x /\ Last(s) = y
BY DEF List, Planned

(* Where a registration, or a rewrite of the file, that fails leads to.    *)
LEMMA RegistrationFails ==
    ASSUME Jobs, NEW a \in Actors, job[a].todo # <<>>
    PROVE  LET t == RegisterFailed(job[a]) IN
           /\ t \in Seq(Steps) /\ t # <<>> /\ Planned(job[a].op, t) /\ Head(t) \notin Holding
           /\ job[a].tries = 0 /\ job[a].op # "retry" =>
                 Head(t) \in {"shelve", "fail"} /\ Last(t) = "fail"
<1> DEFINE j == job[a]  op == job[a].op  t == RegisterFailed(job[a])
<1>1. op \in DOMAIN Closing
  BY DEF Jobs, Ready, Planned
<1>2. /\ List(op, "shelve", <<"shelve", "fail">>, "fail")
      /\ List(op, "pending", <<"pending">>, "pending") /\ List(op, "wait", <<"wait">>, "wait")
      /\ List(op, "giveUp", <<"giveUp", "done">>, "done") /\ List(op, "fail", <<"fail">>, "fail")
  <2>1. \A x \in {"pending", "wait", "fail"} : x \in Final
    BY DEF Final
  <2> QED
    BY <1>1, <2>1, ListsUsed DEF Single
<1>3. \/ t = <<"shelve", "fail">>
      \/ t = <<"pending">> /\ j.tries > 0
      \/ t = <<"wait">> /\ op = "retry"
      \/ t = <<"giveUp", "done">> /\ op = "retry"
      \/ t = <<"fail">>
  BY DEF RegisterFailed
<1>4. /\ {"fail", "pending", "wait", "done"} \subseteq Final
      /\ {"shelve", "fail", "pending", "wait", "giveUp"} \cap Holding = {}
      /\ ~(0 > 0)
  BY DEF Final, Holding
<1> HIDE DEF j, op, t
<1>5. \E x, y : /\ List(op, x, t, y) /\ y \in Final /\ x \notin Holding
                /\ j.tries = 0 /\ op # "retry" => x \in {"shelve", "fail"} /\ y = "fail"
  <2>1. CASE t = <<"shelve", "fail">>
    BY <1>2, <1>4, <2>1
  <2>2. CASE t = <<"pending">> /\ j.tries > 0
    BY <1>2, <1>4, <2>2
  <2>3. CASE t = <<"wait">> /\ op = "retry"
    BY <1>2, <1>4, <2>3
  <2>4. CASE t = <<"giveUp", "done">> /\ op = "retry"
    BY <1>2, <1>4, <2>4
  <2>5. CASE t = <<"fail">>
    BY <1>2, <1>4, <2>5
  <2> QED
    BY <1>3, <2>1, <2>2, <2>3, <2>4, <2>5
<1> QED
  BY <1>1, <1>5, Usable DEF j, op, t

LEMMA WriteFails ==
    ASSUME Jobs, NEW a \in Actors, job[a].todo # <<>>
    PROVE  LET t == WriteFailed(job[a]) IN
           /\ t \in Seq(Steps) /\ t # <<>> /\ Planned(job[a].op, t) /\ Head(t) \notin Holding
           /\ Last(t) = "fail" /\ Head(t) \in {"unpublish", "fail"}
<1> DEFINE op == job[a].op  t == WriteFailed(job[a])
<1>1. op \in DOMAIN Closing
  BY DEF Jobs, Ready, Planned
<1>2. "fail" \in Final /\ "fail" \notin Holding /\ "unpublish" \notin Holding
  BY DEF Final, Holding
<1>3. \/ op \in {"add", "addPlugin"} /\ t = Unregister \o <<"fail">>
      \/ t = <<"fail">>
  BY DEF WriteFailed
<1> HIDE DEF op, t
<1>4. \E x \in {"unpublish", "fail"} : List(op, x, t, "fail")
  <2>1. List(op, "fail", <<"fail">>, "fail")
    BY <1>1, <1>2, ListsUsed DEF Single
  <2>2. op \in {"add", "addPlugin"} => List(op, "unpublish", Unregister \o <<"fail">>, "fail")
    BY Programs
  <2> QED
    BY <1>3, <2>1, <2>2
<1> QED
  BY <1>1, <1>2, <1>4, Usable DEF op, t

(* A job goes on with another list.                                        *)
Turns(a, t) == Others(a) /\ Same(a) /\ job'[a].todo = t

LEMMA Turned ==
    ASSUME Jobs, NEW a \in Actors, job[a].todo # <<>>, NEW t \in Seq(Steps), Turns(a, t),
           t # <<>> => Planned(job[a].op, t),
           job'[a].conn = None, t # <<>> => Head(t) \notin Holding
    PROVE  Jobs'
<1>1. Ready(job'[a]) /\ job'[a].op \in Roles[a]
  BY DEF Turns, Same, Jobs, Ready
<1> QED
  BY <1>1, JobsOthers DEF Turns

LEMMA Sets ==
    ASSUME Jobs, NEW a \in Actors, NEW t, NEW c
    PROVE  /\ job' = [job EXCEPT ![a].todo = t] => Turns(a, t) /\ job'[a].conn = job[a].conn
           /\ job' = [job EXCEPT ![a].todo = t, ![a].conn = c] => Turns(a, t) /\ job'[a].conn = c
<1>1. DOMAIN job = Actors /\ DOMAIN job[a] = JobFields
  BY DEF Jobs, Ready
<1> QED
  BY <1>1 DEF Turns, Others, Same, JobFields

(* Operations of the manager, one by one.                                  *)
LEMMA FinishMoves ==
    ASSUME Jobs, NEW a \in Actors, Finish(a)
    PROVE  Others(a) /\ job'[a] = Idle /\ Jobs'
<1>1. Others(a) /\ job'[a] = Idle
  BY DEF Finish, Jobs, Others
<1> QED
  BY <1>1, Idles, JobsOthers

LEMMA UnpublishMoves ==
    ASSUME Jobs, Shapes, IdsAssumption, NEW a \in Actors, Unpublish(a)
    PROVE  LET c == servers[job[a].name] IN
           /\ At(a, "unpublish") /\ Jobs' /\ Others(a) /\ Same(a)
           /\ IF c = None
              THEN /\ job'[a].conn = None /\ job'[a].todo # <<>> /\ UNCHANGED manager
                   /\ \/ job'[a].todo = <<"fail">>
                      \/ /\ job[a].op \notin {"remove", "update", "restart"}
                         /\ Head(job'[a].todo) \in After(job[a].op, "drain")
                         /\ Last(job'[a].todo) = Last(job[a].todo)
              ELSE GoesOn(a) /\ Head(job'[a].todo) = "drain" /\ job'[a].conn = c
<1> DEFINE c == servers[job[a].name]  todo == job[a].todo
<1>1. At(a, "unpublish") /\ "unpublish" \notin Final /\ "unpublish" \notin Holding
  BY DEF Unpublish, Final, Holding
<1>2. /\ job[a].op \in DOMAIN Closing /\ job[a].name \in Names /\ DOMAIN job[a] = JobFields
      /\ job[a].conn = None /\ todo # <<>>
      /\ Tail(todo) \in Seq(Steps) /\ Tail(todo) # <<>> /\ Planned(job[a].op, Tail(todo))
      /\ Head(Tail(todo)) = "drain" /\ Last(Tail(todo)) = Last(todo)
  BY <1>1, Heads, Afters DEF Holding
<1>3. CASE c # None
  <2>0. job' = [job EXCEPT ![a].todo = Tail(@), ![a].conn = c]
    BY <1>3 DEF Unpublish
  <2>1. Turns(a, Tail(todo)) /\ job'[a].conn = c
    BY <2>0, Sets
  <2>2. c \in Ids \union {None}
    BY <1>2 DEF Shapes
  <2> QED
    BY <1>1, <1>2, <1>3, <2>1, <2>2, NextHead DEF Holding, GoesOn, Turns
<1>4. CASE c = None
  <2> DEFINE t == IF job[a].op \in {"remove", "update", "restart"} THEN <<"fail">> ELSE Tail(Tail(todo))
  <2>1. Turns(a, t) /\ job'[a].conn = None /\ UNCHANGED manager
    <3>1. job' = [job EXCEPT ![a].todo = t] /\ UNCHANGED manager
      BY <1>4 DEF Unpublish, Turn
    <3> HIDE DEF t
    <3>2. Turns(a, t) /\ job'[a].conn = job[a].conn
      BY <3>1, Sets
    <3> QED
      BY <1>2, <3>1, <3>2
  <2>2. List(job[a].op, "fail", <<"fail">>, "fail") /\ "fail" \in Final /\ "fail" \notin Holding
    <3>1. "fail" \in Final /\ "fail" \notin Holding
      BY DEF Final, Holding
    <3> QED
      BY <1>2, <3>1, ListsUsed DEF Single
  <2>3. /\ Tail(Tail(todo)) \in Seq(Steps) /\ Tail(Tail(todo)) # <<>>
        /\ Planned(job[a].op, Tail(Tail(todo)))
        /\ Head(Tail(Tail(todo))) \in After(job[a].op, "drain")
        /\ Last(Tail(Tail(todo))) = Last(todo)
    BY <1>2, TailPlanned DEF Final
  <2>4. After(job[a].op, "drain") \cap Holding = {}
    BY <1>2, Afters, Closes DEF Holding, Removing
  <2>5. t \in Seq(Steps) /\ t # <<>> /\ Planned(job[a].op, t) /\ Head(t) \notin Holding
    BY <1>2, <2>2, <2>3, <2>4, Usable
  <2> HIDE DEF t
  <2>6. Jobs'
    BY <1>2, <2>1, <2>5, Turned
  <2> QED
    BY <1>1, <1>4, <2>1, <2>3, <2>5, <2>6 DEF Turns, t
<1> QED
  BY <1>3, <1>4

(* The steps during which a goroutine holds a conn.                        *)
LEMMA Holds ==
    ASSUME NEW op \in DOMAIN Closing
    PROVE  /\ \A s \in Steps \ {"unpublish", "connect", "publish", "list"} : After(op, s) \cap Holding = {}
           /\ After(op, "connect") \subseteq Holding /\ After(op, "publish") \subseteq Holding
           /\ After(op, "list") \subseteq Holding
<1>1. Closing[op] \notin Holding
  BY Closes DEF Holding
<1>2. \A s \in Writes : After(op, s) \cap Holding = {}
  BY Afters DEF Holding
<1>3. /\ After(op, "drain") \cap Holding = {} /\ After(op, "index") \cap Holding = {}
      /\ After(op, "shelve") \cap Holding = {}
      /\ \A s \in {"hold", "reinsert", "clear", "backoff", "lookup", "oauth", "giveUp"} : After(op, s) \cap Holding = {}
  BY <1>1, Afters DEF Holding
<1>4. \A s \in Final : After(op, s) = {}
  BY Afters
<1>5. \A s \in Steps \ {"unpublish", "connect", "publish", "list"} :
         s \in Writes \/ s \in Final
           \/ s \in {"drain", "index", "shelve", "hold", "reinsert", "clear", "backoff", "lookup", "oauth", "giveUp"}
  BY DEF Steps, Writes, Final
<1>6. /\ After(op, "connect") \subseteq Holding /\ After(op, "publish") \subseteq Holding
      /\ After(op, "list") \subseteq Holding
  BY Afters DEF Holding
<1> QED
  BY <1>2, <1>3, <1>4, <1>5, <1>6

(* A step that is not the last.                                            *)
LEMMA Advances ==
    ASSUME Jobs, NEW a \in Actors, NEW s, At(a, s), s \notin Final,
           Turns(a, Tail(job[a].todo)), job'[a].conn \in Ids \union {None},
           job'[a].conn # None <=> s \in {"unpublish", "connect", "publish", "list"}
    PROVE  /\ GoesOn(a) /\ Jobs' /\ Head(job'[a].todo) \in After(job[a].op, s)
           /\ job[a].op \in DOMAIN Closing /\ job[a].name \in Names /\ job[a].todo # <<>>
           /\ Head(job[a].todo) = s
<1>1. /\ job[a].op \in DOMAIN Closing /\ Head(Tail(job[a].todo)) \in After(job[a].op, s)
      /\ s \in Steps /\ job[a].name \in Names /\ job[a].todo # <<>> /\ Head(job[a].todo) = s
  BY Heads DEF At
<1>2. "unpublish" = s => After(job[a].op, s) \subseteq Holding
  BY Afters DEF Holding
<1>3. Head(Tail(job[a].todo)) \in Holding <=> s \in {"unpublish", "connect", "publish", "list"}
  BY <1>1, <1>2, Holds
<1> QED
  BY <1>1, <1>3, NextHead DEF Turns

LEMMA AdvanceMoves ==
    ASSUME Jobs, NEW a \in Actors, NEW s, At(a, s), Advance(a), s \notin Final,
           s \notin {"unpublish", "drain", "connect", "index"}
    PROVE  /\ GoesOn(a) /\ Jobs' /\ Head(job'[a].todo) \in After(job[a].op, s)
           /\ job'[a].conn = job[a].conn
           /\ job[a].op \in DOMAIN Closing /\ job[a].name \in Names /\ job[a].todo # <<>>
           /\ Head(job[a].todo) = s
<1>1. Turns(a, Tail(job[a].todo)) /\ job'[a].conn = job[a].conn
  <2>1. job' = [job EXCEPT ![a].todo = Tail(job[a].todo)]
    BY DEF Advance
  <2> QED
    BY <2>1, Sets
<1>2. job[a].conn \in Ids \union {None} /\ (job[a].conn # None <=> s \in Holding)
  BY Heads
<1>3. s \in Holding <=> s \in {"unpublish", "connect", "publish", "list"}
  BY DEF Holding
<1> QED
  BY <1>1, <1>2, <1>3, Advances

LEMMA DrainMoves ==
    ASSUME Jobs, NEW a \in Actors, Drained(a)
    PROVE  /\ At(a, "drain") /\ GoesOn(a) /\ Jobs' /\ job'[a].conn = None
           /\ Head(job'[a].todo) \in After(job[a].op, "drain")
           /\ job[a].op \in DOMAIN Closing /\ job[a].name \in Names
<1>1. At(a, "drain") /\ job' = [job EXCEPT ![a].todo = Tail(job[a].todo), ![a].conn = None]
  BY DEF Drained
<1>2. Turns(a, Tail(job[a].todo)) /\ job'[a].conn = None
  BY <1>1, Sets
<1> QED
  BY <1>1, <1>2, Advances DEF Final

LEMMA LookUpMoves ==
    ASSUME Jobs, NEW a \in Actors, LookUp(a)
    PROVE  /\ At(a, "lookup") /\ GoesOn(a) /\ Jobs' /\ job'[a].conn = None
           /\ Head(job'[a].todo) = "oauth"
           /\ job[a].op \in DOMAIN Closing /\ job[a].name \in Names
<1>1. At(a, "lookup")
  BY DEF LookUp
<1>2. job[a].conn = None /\ DOMAIN job[a] = JobFields
  BY <1>1, Heads DEF Holding
<1>3. Turns(a, Tail(job[a].todo)) /\ job'[a].conn = None
  BY <1>2 DEF LookUp, Jobs, Turns, Others, Same, JobFields
<1> QED
  BY <1>1, <1>3, Advances, Afters DEF Final

LEMMA Skips ==
    ASSUME Jobs, NEW a \in Actors, At(a, "oauth")
    PROVE  LET t == AfterRegister(job[a].todo) IN
           /\ t \in Seq(Steps) /\ t # <<>> /\ Planned(job[a].op, t)
           /\ Head(t) \in After(job[a].op, "index") /\ Last(t) = Last(job[a].todo)
<1> DEFINE t0 == job[a].todo  op == job[a].op  n == Len(t0)
           Cut(i) == SubSeq(t0, i + 1, n)
<1>1. t0 \in Seq(Steps) /\ t0 # <<>> /\ Planned(op, t0) /\ Head(t0) = "oauth"
  BY DEF Jobs, Ready, At
<1>2. Cut(0) = t0 /\ n \in Nat
  BY <1>1
<1>3. ASSUME NEW i \in Nat, NEW s, Cut(i) \in Seq(Steps), Cut(i) # <<>>, Planned(op, Cut(i)),
             Head(Cut(i)) = s, s \notin Final
      PROVE  /\ Cut(i + 1) \in Seq(Steps) /\ Cut(i + 1) # <<>> /\ Planned(op, Cut(i + 1))
             /\ Head(Cut(i + 1)) \in After(op, s) /\ Last(Cut(i + 1)) = Last(Cut(i))
  <2>1. i + 1 \in 1 .. n
    <3>1. CASE n < i + 1
      BY <1>2, <1>3, <3>1, SubSeqEmpty
    <3> QED
      BY <1>2, <3>1
  <2>2. Tail(Cut(i)) = Cut(i + 1)
    BY <1>1, <1>2, <2>1, HeadTailOfSubSeq
  <2> HIDE DEF Cut
  <2> QED
    BY <1>3, <2>2, TailPlanned
<1> HIDE DEF Cut, t0, op, n
<1>4. /\ Cut(1) \in Seq(Steps) /\ Cut(1) # <<>> /\ Planned(op, Cut(1))
      /\ Head(Cut(1)) = "connect" /\ Last(Cut(1)) = Last(t0)
  BY <1>1, <1>2, <1>3, Afters DEF Final
<1>5. /\ Cut(1 + 1) \in Seq(Steps) /\ Cut(1 + 1) # <<>> /\ Planned(op, Cut(1 + 1))
      /\ Head(Cut(1 + 1)) = "publish" /\ Last(Cut(1 + 1)) = Last(t0)
  BY <1>4, <1>3, Afters DEF Final
<1>6. /\ Cut(2 + 1) \in Seq(Steps) /\ Cut(2 + 1) # <<>> /\ Planned(op, Cut(2 + 1))
      /\ Head(Cut(2 + 1)) = "list" /\ Last(Cut(2 + 1)) = Last(t0)
  BY <1>5, <1>3, Afters DEF Final
<1>7. /\ Cut(3 + 1) \in Seq(Steps) /\ Cut(3 + 1) # <<>> /\ Planned(op, Cut(3 + 1))
      /\ Head(Cut(3 + 1)) = "index" /\ Last(Cut(3 + 1)) = Last(t0)
  BY <1>6, <1>3, Afters DEF Final
<1>8. /\ Cut(4 + 1) \in Seq(Steps) /\ Cut(4 + 1) # <<>> /\ Planned(op, Cut(4 + 1))
      /\ Head(Cut(4 + 1)) \in After(op, "index") /\ Last(Cut(4 + 1)) = Last(t0)
  BY <1>7, <1>3 DEF Final
<1>9. Cut(4 + 1) = AfterRegister(t0)
  BY DEF Cut, AfterRegister, n
<1> QED
  BY <1>8, <1>9 DEF t0, op

LEMMA FreshUnused == ASSUME Unused # {} PROVE Fresh \in Unused /\ Fresh \in Ids /\ ~Referred(Fresh, job)
BY DEF Fresh, Unused

(* The registration fails: where that leads, and where it leads when it    *)
(* is not retried.                                                         *)
Gives(a) ==
    /\ Others(a) /\ Same(a) /\ job'[a].todo # <<>> /\ job'[a].conn = None
    /\ Head(job'[a].todo) \notin Holding
    /\ job[a].tries = 0 /\ job[a].op # "retry" =>
          Head(job'[a].todo) \in {"shelve", "fail"} /\ Last(job'[a].todo) = "fail"

LEMMA GiveMoves ==
    ASSUME Jobs, NEW a \in Actors, job[a].todo # <<>>, Turns(a, RegisterFailed(job[a])),
           job'[a].conn = None
    PROVE  Gives(a) /\ Jobs'
BY RegistrationFails, Turned DEF Gives, Turns

LEMMA SetupMoves ==
    ASSUME Jobs, NEW a \in Actors, SetupOAuth(a)
    PROVE  /\ At(a, "oauth") /\ Jobs' /\ Others(a) /\ Same(a) /\ job'[a].conn = None
           /\ job[a].op \in DOMAIN Closing /\ job[a].name \in Names /\ job'[a].todo # <<>>
           /\ Last(job'[a].todo) = Last(job[a].todo)
           /\ \/ Head(job'[a].todo) = "connect"
              \/ /\ Head(job'[a].todo) \in After(job[a].op, "index")
                 /\ Unused # {} /\ servers' = [servers EXCEPT ![job[a].name] = Fresh]
<1>1. At(a, "oauth") /\ "oauth" \notin Final /\ "oauth" \notin Holding
  BY DEF SetupOAuth, Final, Holding
<1>2. /\ job[a].op \in DOMAIN Closing /\ job[a].name \in Names /\ job[a].conn = None
      /\ job[a].todo # <<>>
  BY <1>1, Heads
<1>3. CASE Advance(a)
  BY <1>1, <1>2, <1>3, AdvanceMoves, Afters DEF Final, Holding, GoesOn
<1>4. CASE ~Advance(a)
  <2>1. /\ job' = [job EXCEPT ![a].todo = AfterRegister(job[a].todo)]
        /\ Unused # {} /\ servers' = [servers EXCEPT ![job[a].name] = Fresh]
    BY <1>4 DEF SetupOAuth, Turn, Advance
  <2>2. Turns(a, AfterRegister(job[a].todo)) /\ job'[a].conn = None
    BY <1>2, <2>1, Sets
  <2>3. After(job[a].op, "index") \cap Holding = {}
    BY <1>2, Holds DEF Steps
  <2> QED
    BY <1>1, <1>2, <2>1, <2>2, <2>3, Skips, Turned DEF Turns
<1> QED
  BY <1>3, <1>4

LEMMA ConnectMoves ==
    ASSUME Jobs, IdsAssumption, NEW a \in Actors, Connect(a)
    PROVE  /\ At(a, "connect") /\ Jobs' /\ Others(a) /\ Same(a) /\ job[a].conn = None
           /\ job[a].op \in DOMAIN Closing /\ job[a].name \in Names /\ job'[a].todo # <<>>
           /\ \/ /\ Unused # {} /\ GoesOn(a) /\ Head(job'[a].todo) = "publish" /\ job'[a].conn = Fresh
                 /\ conns' = [conns EXCEPT ![Fresh] =
                       [Conn(job[a].name, job[a].cfg, "open") EXCEPT !.handler = job[a].cfg.auth]]
              \/ Gives(a) /\ UNCHANGED conns
<1>1. At(a, "connect") /\ "connect" \notin Final /\ "connect" \notin Holding
  BY DEF Connect, Final, Holding
<1>2. /\ job[a].op \in DOMAIN Closing /\ job[a].name \in Names /\ job[a].conn = None
      /\ job[a].todo # <<>>
  BY <1>1, Heads
<1>3. \/ /\ Unused # {}
         /\ conns' = [conns EXCEPT ![Fresh] =
                [Conn(job[a].name, job[a].cfg, "open") EXCEPT !.handler = job[a].cfg.auth]]
         /\ job' = [job EXCEPT ![a].todo = Tail(job[a].todo), ![a].conn = Fresh]
      \/ job' = [job EXCEPT ![a].todo = RegisterFailed(job[a])] /\ UNCHANGED conns
  BY DEF Connect, Turn
<1>4. CASE /\ Unused # {}
           /\ conns' = [conns EXCEPT ![Fresh] =
                [Conn(job[a].name, job[a].cfg, "open") EXCEPT !.handler = job[a].cfg.auth]]
           /\ job' = [job EXCEPT ![a].todo = Tail(job[a].todo), ![a].conn = Fresh]
  <2>1. Turns(a, Tail(job[a].todo)) /\ job'[a].conn = Fresh /\ Fresh \in Ids /\ Fresh # None
    BY <1>4, Sets, FreshUnused DEF IdsAssumption
  <2>2. GoesOn(a) /\ Jobs' /\ Head(job'[a].todo) \in After(job[a].op, "connect")
    BY <1>1, <2>1, Advances
  <2>3. Head(job'[a].todo) = "publish"
    BY <2>2, Afters
  <2> QED
    BY <1>1, <1>2, <1>4, <2>1, <2>2, <2>3 DEF GoesOn
<1>5. CASE job' = [job EXCEPT ![a].todo = RegisterFailed(job[a])] /\ UNCHANGED conns
  <2>1. Turns(a, RegisterFailed(job[a])) /\ job'[a].conn = None
    BY <1>2, <1>5, Sets
  <2> QED
    BY <1>1, <1>2, <1>5, <2>1, GiveMoves DEF Gives
<1> QED
  BY <1>3, <1>4, <1>5

LEMMA ListMoves ==
    ASSUME Jobs, NEW a \in Actors, ListTools(a)
    PROVE  /\ At(a, "list") /\ Jobs' /\ Others(a) /\ Same(a)
           /\ job[a].op \in DOMAIN Closing /\ job[a].name \in Names /\ job'[a].todo # <<>>
           /\ \/ GoesOn(a) /\ Head(job'[a].todo) = "index" /\ job'[a].conn = job[a].conn /\ UNCHANGED conns
              \/ Gives(a) /\ conns' = [conns EXCEPT ![job[a].conn].session = "closed"]
<1>1. At(a, "list") /\ "list" \notin Final
  BY DEF ListTools, Final
<1>2. job[a].op \in DOMAIN Closing /\ job[a].name \in Names /\ job[a].todo # <<>>
  BY <1>1, Heads
<1>3. CASE Advance(a) /\ UNCHANGED conns
  BY <1>1, <1>2, <1>3, AdvanceMoves, Afters DEF GoesOn
<1>4. CASE ~(Advance(a) /\ UNCHANGED conns)
  <2>1. /\ conns' = [conns EXCEPT ![job[a].conn].session = "closed"]
        /\ job' = [job EXCEPT ![a].todo = RegisterFailed(job[a]), ![a].conn = None]
    BY <1>4 DEF ListTools
  <2>2. Turns(a, RegisterFailed(job[a])) /\ job'[a].conn = None
    BY <2>1, Sets
  <2> QED
    BY <1>1, <1>2, <2>1, <2>2, GiveMoves DEF Gives
<1> QED
  BY <1>3, <1>4

LEMMA IndexMoves ==
    ASSUME Jobs, NEW a \in Actors, Index(a)
    PROVE  /\ At(a, "index") /\ GoesOn(a) /\ Jobs' /\ job'[a].conn = None
           /\ Head(job'[a].todo) \in After(job[a].op, "index")
           /\ job[a].op \in DOMAIN Closing /\ job[a].name \in Names
<1>1. At(a, "index") /\ job' = [job EXCEPT ![a].todo = Tail(job[a].todo), ![a].conn = None]
  BY DEF Index
<1>2. Turns(a, Tail(job[a].todo)) /\ job'[a].conn = None
  BY <1>1, Sets
<1> QED
  BY <1>1, <1>2, Advances DEF Final

LEMMA WriteMoves ==
    ASSUME Jobs, NEW a \in Actors, NEW s \in Writes, NEW ok, NEW tools, NEW plugged, NEW tracked,
           Rewrite(a, s, ok, tools, plugged, tracked)
    PROVE  /\ At(a, s) /\ Jobs' /\ Others(a) /\ Same(a) /\ job'[a].conn = None
           /\ job[a].op \in DOMAIN Closing /\ job[a].name \in Names /\ job'[a].todo # <<>>
           /\ s \in Writing(job[a].op)
           /\ \/ GoesOn(a) /\ Head(job'[a].todo) \in After(job[a].op, s)
                 /\ file' = tools /\ sections' = plugged /\ plugins' = tracked /\ UNCHANGED failed
              \/ Head(job'[a].todo) \in {"unpublish", "fail"} /\ failed' /\ UNCHANGED disk
<1>1. At(a, s) /\ s \notin Final /\ s \notin Holding
  BY DEF Rewrite, Final, Holding, Writes
<1>2. /\ job[a].op \in DOMAIN Closing /\ job[a].name \in Names /\ job[a].todo # <<>>
      /\ job[a].conn = None /\ s \in Writing(job[a].op)
  BY <1>1, Heads
<1>3. CASE /\ Advance(a) /\ file' = tools /\ sections' = plugged /\ plugins' = tracked
           /\ UNCHANGED failed
  BY <1>1, <1>2, <1>3, AdvanceMoves DEF Writes, GoesOn
<1>4. CASE Turn(a, WriteFailed(job[a])) /\ failed' = TRUE /\ UNCHANGED disk
  <2>1. job' = [job EXCEPT ![a].todo = WriteFailed(job[a])]
    BY <1>4 DEF Turn
  <2>2. Turns(a, WriteFailed(job[a])) /\ job'[a].conn = None
    BY <1>2, <2>1, Sets
  <2> QED
    BY <1>1, <1>2, <1>4, <2>2, WriteFails, Turned DEF Turns
<1> QED
  BY <1>3, <1>4 DEF Rewrite

(* The health checker, the retries of startup, the OAuth reconnect.        *)
LEMMA ActorMoves ==
    ASSUME Jobs, NEW a \in Actors, NEW s, At(a, s), s \notin Holding,
           NEW op \in Roles[a], op \in DOMAIN Closing, NEW t, NEW x, NEW y, List(op, x, t, y),
           y \in Final, x \notin Holding,
           Others(a), DOMAIN job'[a] = JobFields, job'[a].op = op,
           job'[a].name = job[a].name, job'[a].todo = t, job'[a].conn = None,
           job'[a].probed = job[a].probed
    PROVE  Jobs' /\ job'[a].todo # <<>> /\ Head(job'[a].todo) = x
<1>1. job[a].name \in Names
  BY Heads
<1>2. t \in Seq(Steps) /\ t # <<>> /\ Planned(op, t) /\ Head(t) = x
  BY Usable
<1>3. Ready(job'[a])
  BY <1>1, <1>2 DEF Ready, Jobs
<1> QED
  BY <1>2, <1>3, JobsOthers

HealthStep == ProbeAnswered \/ ProbeFailed \/ Backoff \/ Reinsert \/ Healed
BootStep   == Pending \/ Retry \/ GiveUp
OAuthStep  == ClearToken \/ Initiate

LEMMA HealthMoves ==
    ASSUME Jobs, HealthStep
    PROVE  /\ Jobs' /\ Others("health") /\ job'["health"].conn = None
           /\ \E s \in {"probe", "backoff", "reinsert", "healed"} : At("health", s)
           /\ \A s \in Holding : ~At("health", s)
<1> DEFINE a == "health"  j == job["health"]
<1>1. "health" \in Actors /\ DOMAIN job = Actors /\ DOMAIN j = JobFields
  BY DEF Jobs, Ready, Actors
<1>2. PICK s \in {"probe", "backoff", "reinsert", "healed"} : At("health", s)
  BY DEF HealthStep, ProbeAnswered, ProbeFailed, Backoff, Reinsert, Healed
<1>3. s \notin Holding /\ j.conn = None /\ \A r \in Holding : ~At("health", r)
  BY <1>1, <1>2, Heads DEF Holding, At
<1>4. CASE ProbeAnswered
  <2>1. Others(a) /\ job'[a] = Idle
    BY <1>1, <1>4 DEF ProbeAnswered, Others
  <2> QED
    BY <1>1, <1>2, <1>3, <2>1, Idles, JobsOthers
<1>5. CASE ProbeFailed
  <2> DEFINE c == j.probed  cfg == conns[j.probed].cfg  slow == conns[c].restarts >= Quick
             t == (IF slow THEN <<>> ELSE <<"backoff">>) \o Unregister \o <<"reinsert">>
                     \o Register(cfg) \o <<"healed">>
  <2>1. /\ Others(a) /\ DOMAIN job'[a] = JobFields /\ job'[a].op = j.op /\ job'[a].name = j.name
        /\ job'[a].conn = j.conn /\ job'[a].probed = j.probed /\ job'[a].todo = t
    BY <1>1, <1>5 DEF ProbeFailed, Others, JobFields
  <2>2. \E x \in {"unpublish", "backoff"} : List("heal", x, t, "healed")
    BY Programs
  <2>3. j.op = "heal" /\ "heal" \in DOMAIN Closing /\ "heal" \in Roles[a]
    BY <1>1, <1>2, Heads, Closes DEF Roles
  <2>4. "healed" \in Final /\ "unpublish" \notin Holding /\ "backoff" \notin Holding
    BY DEF Final, Holding
  <2> HIDE DEF t
  <2> QED
    BY <1>1, <1>2, <1>3, <2>1, <2>2, <2>3, <2>4, ActorMoves
<1>6. CASE Backoff
  <2>1. At(a, "backoff") /\ Advance(a)
    BY <1>6 DEF Backoff
  <2> QED
    BY <1>1, <1>2, <1>3, <2>1, AdvanceMoves DEF Final, GoesOn
<1>7. CASE Reinsert
  <2>1. At(a, "reinsert") /\ Advance(a)
    BY <1>7 DEF Reinsert
  <2> QED
    BY <1>1, <1>2, <1>3, <2>1, AdvanceMoves DEF Final, GoesOn
<1>8. CASE Healed
  <2>1. job' = [job EXCEPT !["health"].todo = <<"done">>]
    BY <1>8 DEF Healed, Turn
  <2>2. Turns(a, <<"done">>) /\ job'[a].conn = j.conn
    BY <1>1, <2>1, Sets
  <2>3. j.op \in DOMAIN Closing /\ j.op \in Roles[a]
    BY <1>1, <1>2, Heads
  <2>4. List(j.op, "done", <<"done">>, "done") /\ "done" \in Final /\ "done" \notin Holding
    <3>1. "done" \in Final /\ "done" \notin Holding
      BY DEF Final, Holding
    <3> QED
      BY <2>3, <3>1, ListsUsed DEF Single
  <2> QED
    BY <1>1, <1>2, <1>3, <2>2, <2>3, <2>4, ActorMoves DEF Turns, Same
<1> QED
  BY <1>4, <1>5, <1>6, <1>7, <1>8 DEF HealthStep

LEMMA BootMoves ==
    ASSUME Jobs, BootStep
    PROVE  /\ Jobs' /\ Others("boot") /\ job'["boot"].conn = None
           /\ \E s \in {"pending", "wait", "giveUp"} : At("boot", s)
           /\ \A s \in Holding : ~At("boot", s)
<1> DEFINE a == "boot"  j == job["boot"]
<1>1. "boot" \in Actors /\ DOMAIN job = Actors /\ DOMAIN j = JobFields
  BY DEF Jobs, Ready, Actors
<1>2. PICK s \in {"pending", "wait", "giveUp"} : At("boot", s)
  BY DEF BootStep, Pending, Enter, Retry, GiveUp
<1>3. s \notin Holding /\ j.conn = None /\ \A r \in Holding : ~At("boot", r)
  BY <1>1, <1>2, Heads DEF Holding, At
<1>4. CASE Pending
  <2>1. /\ Others(a) /\ DOMAIN job'[a] = JobFields /\ job'[a].op = "retry" /\ job'[a].name = j.name
        /\ job'[a].conn = j.conn /\ job'[a].probed = j.probed /\ job'[a].todo = <<"wait">>
    BY <1>1, <1>4 DEF Pending, Others, JobFields
  <2>2. "retry" \in Roles[a] /\ "retry" \in DOMAIN Closing /\ "wait" \in Final /\ "wait" \notin Holding
    BY Closes DEF Roles, Final, Holding
  <2>3. List("retry", "wait", <<"wait">>, "wait")
    BY <2>2, ListsUsed DEF Single
  <2> QED
    BY <1>1, <1>2, <1>3, <2>1, <2>2, <2>3, ActorMoves
<1>5. CASE Retry
  <2>1. /\ Others(a) /\ DOMAIN job'[a] = JobFields /\ job'[a].op = j.op /\ job'[a].name = j.name
        /\ job'[a].conn = j.conn /\ job'[a].probed = j.probed /\ job'[a].todo = Register(j.cfg) \o <<"done">>
    BY <1>1, <1>5 DEF Retry, Others, JobFields
  <2>2. j.op \in Roles[a] /\ j.op \in DOMAIN Closing /\ j.op \in {"boot", "retry", "reconnect"}
    BY <1>1, <1>2, Heads DEF Roles
  <2>3. List(j.op, Opening(j.cfg), Register(j.cfg) \o <<"done">>, "done")
    BY <2>2, Programs
  <2>4. "done" \in Final /\ Opening(j.cfg) \notin Holding
    BY <2>2, ListsUsed DEF Final, Holding
  <2> QED
    BY <1>1, <1>2, <1>3, <2>1, <2>2, <2>3, <2>4, ActorMoves
<1>6. CASE GiveUp
  <2>1. At(a, "giveUp") /\ Advance(a)
    BY <1>6 DEF GiveUp
  <2> QED
    BY <1>1, <1>2, <1>3, <2>1, AdvanceMoves DEF Final, GoesOn
<1> QED
  BY <1>4, <1>5, <1>6 DEF BootStep

LEMMA OAuthMoves ==
    ASSUME Jobs, OAuthStep
    PROVE  /\ Jobs' /\ Others("oauth") /\ job'["oauth"].conn = None
           /\ \E s \in {"clear", "initiate"} : At("oauth", s)
           /\ \A s \in Holding : ~At("oauth", s)
<1> DEFINE a == "oauth"  j == job["oauth"]
<1>1. "oauth" \in Actors /\ DOMAIN job = Actors /\ DOMAIN j = JobFields
  BY DEF Jobs, Ready, Actors
<1>2. PICK s \in {"clear", "initiate"} : At("oauth", s)
  BY DEF OAuthStep, ClearToken, Initiate
<1>3. s \notin Holding /\ j.conn = None /\ \A r \in Holding : ~At("oauth", r)
  BY <1>1, <1>2, Heads DEF Holding, At
<1>4. CASE ClearToken
  <2>1. At(a, "clear") /\ Advance(a)
    BY <1>4 DEF ClearToken
  <2> QED
    BY <1>1, <1>2, <1>3, <2>1, AdvanceMoves DEF Final, GoesOn
<1>5. CASE Initiate
  <2>1. PICK t \in {Register(j.cfg) \o <<"done">>, <<"done">>} : job' = [job EXCEPT !["oauth"].todo = t]
    BY <1>5 DEF Initiate, Turn
  <2>2. Turns(a, t) /\ job'[a].conn = j.conn
    BY <1>1, <2>1, Sets
  <2>3. j.op = "reconnect" /\ j.op \in DOMAIN Closing /\ j.op \in Roles[a] /\ "done" \in Final /\ "done" \notin Holding
    BY <1>1, <1>2, Heads DEF Roles, Final, Holding
  <2>4. \E x : List(j.op, x, t, "done") /\ x \notin Holding
    <3>1. List(j.op, Opening(j.cfg), Register(j.cfg) \o <<"done">>, "done")
      BY <2>3, Programs
    <3>2. List(j.op, "done", <<"done">>, "done") /\ Opening(j.cfg) \notin Holding
      BY <2>3, ListsUsed DEF Single, Holding
    <3> QED
      BY <2>1, <2>3, <3>1, <3>2
  <2> QED
    BY <1>1, <1>2, <1>3, <2>2, <2>3, <2>4, ActorMoves DEF Turns, Same
<1> QED
  BY <1>4, <1>5 DEF OAuthStep

(* What begins a job.                                                      *)
Starts(a, op, n, cfg, heads) ==
    /\ Jobs' /\ Others(a)
    /\ job'[a].op = op /\ job'[a].name = n /\ job'[a].cfg = cfg /\ job'[a].conn = None
    /\ job'[a].todo # <<>> /\ Head(job'[a].todo) \in heads /\ Last(job'[a].todo) # "fail"

LEMMA Begun ==
    ASSUME Jobs, NEW a \in Actors, NEW op \in Roles[a], op \in DOMAIN Closing, NEW n \in Names, NEW cfg,
           NEW t, NEW heads, NEW y \in Final \ {"fail"},
           \E x \in heads : List(op, x, t, y), heads \cap Holding = {},
           job' = [job EXCEPT ![a] = [Idle EXCEPT !.op = op, !.name = n, !.cfg = cfg, !.todo = t]]
    PROVE  Starts(a, op, n, cfg, heads) /\ job'[a].tries = 0
<1> DEFINE j == [Idle EXCEPT !.op = op, !.name = n, !.cfg = cfg, !.todo = t]
<1>1. /\ DOMAIN j = JobFields /\ j.op = op /\ j.name = n /\ j.cfg = cfg /\ j.todo = t
      /\ j.conn = None /\ j.tries = 0 /\ j.probed = None
  BY Idles DEF JobFields
<1> HIDE DEF j
<1>2. job' = [job EXCEPT ![a] = j]
  BY DEF j
<1>3. Others(a) /\ job'[a] = j
  BY <1>2 DEF Jobs, Others
<1>4. PICK x \in heads : List(op, x, t, y)
  OBVIOUS
<1>5. t \in Seq(Steps) /\ t # <<>> /\ Planned(op, t) /\ Head(t) = x /\ Last(t) = y
  BY <1>4, Usable
<1>6. Ready(job'[a])
  BY <1>1, <1>3, <1>4, <1>5 DEF Ready
<1> QED
  BY <1>1, <1>3, <1>4, <1>5, <1>6, JobsOthers DEF Starts

LEMMA BeginMoves ==
    ASSUME Jobs, NEW n \in Names, NEW cfg, NEW held
    PROVE  LET a == "lifecycle"  cur == Current(n)  new == Merged(cfg, Current(n)) IN
           /\ AddTool(n, cfg) => Starts(a, "add", n, cfg, {"lookup", "connect"})
           /\ RemoveTool(n) => Starts(a, "remove", n, NoCfg, {"unpublish"})
           /\ UpdateTool(n, cfg) => Starts(a, "update", n, new, {"unpublish"})
           /\ RestartTool(n) => Starts(a, "restart", n, cur, {"unpublish"})
           /\ DisableTool(n) => Starts(a, "disable", n, [cur EXCEPT !.on = "off"], {"unpublish"})
           /\ EnableTool(n) => Starts(a, "enable", n, [cur EXCEPT !.on = "on"], {"unpublish"})
           /\ Withhold(n, held) => Starts(a, "withhold", n, [cur EXCEPT !.held = held], {"saveHeld"})
           /\ \A tools \in BOOLEAN : AddPlugin(n, tools) =>
                 Starts(a, "addPlugin", n, IF tools THEN PluginCfg ELSE NoCfg,
                        IF tools THEN {"lookup", "connect"} ELSE {"savePlugin"})
           /\ RemovePlugin(n) => Starts(a, "removePlugin", n, NoCfg, {"unpublish"})
           /\ Reconnect(n) => Starts("oauth", "reconnect", n, cur, {"clear"})
           /\ (\/ AddTool(n, cfg) \/ RemoveTool(n) \/ UpdateTool(n, cfg) \/ RestartTool(n)
               \/ DisableTool(n) \/ EnableTool(n) \/ Withhold(n, held) \/ RemovePlugin(n)
               \/ \E tools \in BOOLEAN : AddPlugin(n, tools)) => job'[a].tries = 0
<1> DEFINE a == "lifecycle"  cur == Current(n)  new == Merged(cfg, Current(n))
           Job(op, c, t) == [Idle EXCEPT !.op = op, !.name = n, !.cfg = c, !.todo = t]
<1>1. a \in Actors /\ "oauth" \in Actors /\ "reconnect" \in Roles["oauth"] /\ "reconnect" \in DOMAIN Closing
      /\ \A op \in {"add", "remove", "update", "restart", "disable", "enable", "withhold",
                    "addPlugin", "removePlugin"} : op \in Roles[a] /\ op \in DOMAIN Closing
  BY Closes DEF Actors, Roles
<1>2. /\ "done" \in Final \ {"fail"} /\ "initiate" \in Final \ {"fail"}
      /\ {"lookup", "connect"} \cap Holding = {} /\ {"unpublish"} \cap Holding = {}
      /\ {"saveHeld"} \cap Holding = {} /\ {"savePlugin"} \cap Holding = {} /\ {"clear"} \cap Holding = {}
  BY DEF Final, Holding
<1>3. \A c : Opening(c) \in {"lookup", "connect"}
  BY <1>1, ListsUsed
<1> HIDE DEF a, cur, new, Job
<1>4. ASSUME NEW op \in {"add", "remove", "update", "restart", "disable", "enable", "withhold",
                         "addPlugin", "removePlugin"}, NEW c, NEW t, NEW heads,
             job' = [job EXCEPT ![a] = Job(op, c, t)],
             \E x \in heads : List(op, x, t, "done"), heads \cap Holding = {}
      PROVE  Starts(a, op, n, c, heads) /\ job'[a].tries = 0
  BY <1>1, <1>2, <1>4, Begun DEF Job
<1>5. ASSUME AddTool(n, cfg) PROVE Starts(a, "add", n, cfg, {"lookup", "connect"}) /\ job'[a].tries = 0
  <2>1. job' = [job EXCEPT ![a] = Job("add", cfg, Register(cfg) \o <<"save", "done">>)]
    BY <1>5 DEF AddTool, Begin, Job, a
  <2>2. List("add", Opening(cfg), Register(cfg) \o <<"save", "done">>, "done")
    BY Programs
  <2> QED
    BY <1>2, <1>3, <1>4, <2>1, <2>2
<1>6. ASSUME RemoveTool(n) PROVE Starts(a, "remove", n, NoCfg, {"unpublish"}) /\ job'[a].tries = 0
  <2>1. job' = [job EXCEPT ![a] = Job("remove", NoCfg, Unregister \o <<"erase", "done">>)]
    BY <1>6 DEF RemoveTool, Begin, Job, a
  <2>2. List("remove", "unpublish", Unregister \o <<"erase", "done">>, "done")
    BY Programs
  <2> QED
    BY <1>2, <1>4, <2>1, <2>2
<1>7. ASSUME UpdateTool(n, cfg) PROVE Starts(a, "update", n, new, {"unpublish"}) /\ job'[a].tries = 0
  <2> DEFINE t == Unregister \o (IF new.on = "off" THEN <<"shelve">> ELSE Register(new)) \o <<"erase", "save", "done">>
  <2>1. job' = [job EXCEPT ![a] = Job("update", new, t)]
    BY <1>7 DEF UpdateTool, Begin, Job, a, new
  <2>2. List("update", "unpublish", t, "done")
    BY Programs
  <2> HIDE DEF t
  <2> QED
    BY <1>2, <1>4, <2>1, <2>2
<1>8. ASSUME RestartTool(n) PROVE Starts(a, "restart", n, cur, {"unpublish"}) /\ job'[a].tries = 0
  <2>1. job' = [job EXCEPT ![a] = Job("restart", cur, Unregister \o <<"hold">> \o Register(cur) \o <<"done">>)]
    BY <1>8 DEF RestartTool, Begin, Job, a, cur
  <2>2. List("restart", "unpublish", Unregister \o <<"hold">> \o Register(cur) \o <<"done">>, "done")
    BY Programs
  <2> QED
    BY <1>2, <1>4, <2>1, <2>2
<1>9. ASSUME DisableTool(n) PROVE Starts(a, "disable", n, [cur EXCEPT !.on = "off"], {"unpublish"}) /\ job'[a].tries = 0
  <2>1. job' = [job EXCEPT ![a] = Job("disable", [cur EXCEPT !.on = "off"],
                                      Unregister \o <<"shelve", "saveOff", "done">>)]
    BY <1>9 DEF DisableTool, Begin, Job, a, cur
  <2>2. List("disable", "unpublish", Unregister \o <<"shelve", "saveOff", "done">>, "done")
    BY Programs
  <2> QED
    BY <1>2, <1>4, <2>1, <2>2
<1>10. ASSUME EnableTool(n) PROVE Starts(a, "enable", n, [cur EXCEPT !.on = "on"], {"unpublish"}) /\ job'[a].tries = 0
  <2> DEFINE c == [cur EXCEPT !.on = "on"]
  <2>1. job' = [job EXCEPT ![a] = Job("enable", c, Unregister \o Register(c) \o <<"saveOn", "done">>)]
    BY <1>10 DEF EnableTool, Begin, Job, a, cur
  <2>2. List("enable", "unpublish", Unregister \o Register(c) \o <<"saveOn", "done">>, "done")
    BY Programs
  <2> HIDE DEF c
  <2>3. Starts(a, "enable", n, c, {"unpublish"}) /\ job'[a].tries = 0
    BY <1>2, <1>4, <2>1, <2>2
  <2> QED
    BY <2>3 DEF c
<1>11. ASSUME Withhold(n, held)
       PROVE Starts(a, "withhold", n, [cur EXCEPT !.held = held], {"saveHeld"}) /\ job'[a].tries = 0
  <2>1. job' = [job EXCEPT ![a] = Job("withhold", [cur EXCEPT !.held = held], <<"saveHeld", "done">>)]
    BY <1>11 DEF Withhold, Begin, Job, a, cur
  <2>2. List("withhold", "saveHeld", <<"saveHeld", "done">>, "done")
    BY Programs
  <2> QED
    BY <1>2, <1>4, <2>1, <2>2
<1>12. ASSUME NEW tools \in BOOLEAN, AddPlugin(n, tools)
       PROVE  Starts(a, "addPlugin", n, IF tools THEN PluginCfg ELSE NoCfg,
                     IF tools THEN {"lookup", "connect"} ELSE {"savePlugin"}) /\ job'[a].tries = 0
  <2>1. CASE tools
    <3>1. job' = [job EXCEPT ![a] = Job("addPlugin", PluginCfg, Register(PluginCfg) \o <<"savePlugin", "done">>)]
      BY <1>12, <2>1 DEF AddPlugin, Begin, Job, a
    <3>2. List("addPlugin", Opening(PluginCfg), Register(PluginCfg) \o <<"savePlugin", "done">>, "done")
      BY Programs
    <3>3. Starts(a, "addPlugin", n, PluginCfg, {"lookup", "connect"}) /\ job'[a].tries = 0
      BY <1>2, <1>3, <1>4, <3>1, <3>2
    <3> QED
      BY <2>1, <3>3
  <2>2. CASE ~tools
    <3>1. job' = [job EXCEPT ![a] = Job("addPlugin", NoCfg, <<>> \o <<"savePlugin", "done">>)]
      BY <1>12, <2>2 DEF AddPlugin, Begin, Job, a
    <3>2. List("addPlugin", "savePlugin", <<>> \o <<"savePlugin", "done">>, "done")
      BY Programs
    <3>3. Starts(a, "addPlugin", n, NoCfg, {"savePlugin"}) /\ job'[a].tries = 0
      BY <1>2, <1>4, <3>1, <3>2
    <3> QED
      BY <2>2, <3>3
  <2> QED
    BY <2>1, <2>2
<1>13. ASSUME RemovePlugin(n) PROVE Starts(a, "removePlugin", n, NoCfg, {"unpublish"}) /\ job'[a].tries = 0
  <2>1. job' = [job EXCEPT ![a] = Job("removePlugin", NoCfg, Unregister \o <<"erasePlugin", "done">>)]
    BY <1>13 DEF RemovePlugin, Begin, Job, a
  <2>2. List("removePlugin", "unpublish", Unregister \o <<"erasePlugin", "done">>, "done")
    BY Programs
  <2> QED
    BY <1>2, <1>4, <2>1, <2>2
<1>14. ASSUME Reconnect(n) PROVE Starts("oauth", "reconnect", n, cur, {"clear"})
  <2> DEFINE t == <<"clear">> \o Register(cur) \o <<"initiate">>
  <2>1. job' = [job EXCEPT !["oauth"] = [Idle EXCEPT !.op = "reconnect", !.name = n, !.cfg = cur, !.todo = t]]
    BY <1>14 DEF Reconnect, Begin, cur
  <2>2. List("reconnect", "clear", t, "initiate")
    BY Programs
  <2> HIDE DEF t
  <2> QED
    BY <1>1, <1>2, <2>1, <2>2, Begun
<1> QED
  BY <1>5, <1>6, <1>7, <1>8, <1>9, <1>10, <1>11, <1>12, <1>13, <1>14 DEF a, cur, new

LEMMA ProbeMoves ==
    ASSUME Jobs, Shapes, NEW n \in Names, Probe(n)
    PROVE  /\ Jobs' /\ Others("health") /\ job'["health"].conn = None /\ job["health"] = Idle
<1>1. job["health"] = Idle /\ "health" \in Actors /\ DOMAIN job = Actors
  BY DEF Probe, Jobs, Actors
<1>2. /\ Others("health") /\ DOMAIN job'["health"] = JobFields /\ job'["health"].op = "heal"
      /\ job'["health"].name = n /\ job'["health"].conn = None /\ job'["health"].todo = <<"probe">>
      /\ job'["health"].probed \in Ids \union {None}
  BY <1>1, Idles DEF Probe, Others, JobFields, Shapes
<1>3. List("heal", "probe", <<"probe">>, "probe") /\ "heal" \in DOMAIN Closing
  BY Programs, Closes
<1>4. "probe" \in Final /\ "probe" \notin Holding /\ "heal" \in Roles["health"]
  BY DEF Final, Holding, Roles
<1>5. Ready(job'["health"])
  BY <1>2, <1>3, <1>4, Usable DEF Ready
<1> QED
  BY <1>1, <1>2, <1>4, <1>5, JobsOthers

LEMMA BootToolMoves ==
    ASSUME Jobs, BoundsAssumption, NEW n \in Names, BootTool(n)
    PROVE  /\ Jobs' /\ Others("boot") /\ job["boot"] = Idle
           /\ \/ file[n] = NoCfg /\ UNCHANGED job
              \/ /\ file[n] # NoCfg
                 /\ Starts("boot", "boot", n, file[n], {"shelve", "lookup", "connect"})
                 /\ Alone => job'["boot"].tries = 0
<1> DEFINE cfg == file[n]  t == (IF cfg.on = "off" THEN <<"shelve">> ELSE Register(cfg)) \o <<"done">>
           k == IF "boot" \in setting.rivals THEN Retries ELSE 0
           j == [Idle EXCEPT !.op = "boot", !.name = n, !.cfg = cfg, !.tries = k, !.todo = t]
<1>1. "boot" \in Actors /\ DOMAIN job = Actors /\ job["boot"] = Idle
  BY DEF Actors, Jobs, BootTool
<1>2. CASE cfg = NoCfg
  <2>1. job' = job
    BY <1>2 DEF BootTool
  <2> QED
    BY <1>1, <1>2, <2>1 DEF Jobs, Others
<1>3. CASE cfg # NoCfg
  <2>1. job' = [job EXCEPT !["boot"] = j]
    BY <1>3 DEF BootTool
  <2>2. /\ DOMAIN j = JobFields /\ j.op = "boot" /\ j.name = n /\ j.cfg = cfg /\ j.todo = t
        /\ j.conn = None /\ j.tries = k /\ j.probed = None
    BY Idles DEF JobFields
  <2>3. \E x \in {"shelve", "lookup", "connect"} : List("boot", x, t, "done")
    <3>1. Opening(cfg) \in {"lookup", "connect"}
      BY Closes, ListsUsed
    <3>2. List("boot", "shelve", <<"shelve">> \o <<"done">>, "done")
          /\ List("boot", Opening(cfg), Register(cfg) \o <<"done">>, "done")
      BY Programs
    <3> QED
      BY <3>1, <3>2
  <2>4. Alone => k = 0
    BY DEF Alone
  <2> HIDE DEF j, k, t
  <2>5. Others("boot") /\ job'["boot"] = j
    BY <1>1, <2>1 DEF Others
  <2>6. /\ "boot" \in DOMAIN Closing /\ "boot" \in Roles["boot"] /\ "done" \in Final
        /\ {"shelve", "lookup", "connect"} \cap Holding = {}
    BY Closes DEF Roles, Final, Holding
  <2>7. t \in Seq(Steps) /\ t # <<>> /\ Planned("boot", t) /\ Last(t) = "done"
        /\ Head(t) \in {"shelve", "lookup", "connect"}
    BY <2>3, <2>6, Usable
  <2>8. Ready(j)
    BY <2>2, <2>6, <2>7 DEF Ready
  <2>9. Jobs'
    BY <1>1, <2>2, <2>5, <2>6, <2>8, JobsOthers
  <2> QED
    BY <1>1, <1>3, <2>2, <2>4, <2>5, <2>7, <2>9 DEF Starts
<1> QED
  BY <1>2, <1>3

-----------------------------------------------------------------------------
(* Shapes, and who drains what is drained.                                 *)

NoNewDrain == \A c \in Ids : conns'[c].drain = "draining" => conns[c].drain = "draining"

(* A conn is entered, or one field of a conn is set.                       *)
LEMMA ConnShape ==
    ASSUME NEW n, NEW cfg, NEW session
    PROVE  /\ DOMAIN Conn(n, cfg, session) = ConnFields
           /\ Conn(n, cfg, session).drain = "live" /\ Conn(n, cfg, session).session = session
           /\ Conn(n, cfg, session).name = n /\ Conn(n, cfg, session).cfg = cfg
           /\ \A h : LET r == [Conn(n, cfg, session) EXCEPT !.handler = h] IN
                       /\ DOMAIN r = ConnFields /\ r.drain = "live" /\ r.session = session
                       /\ r.name = n /\ r.cfg = cfg /\ r.handler = h
BY DEF Conn, ConnFields

LEMMA PlaceholderShape ==
    ASSUME NEW n, NEW cfg, NEW mark
    PROVE  LET r == Placeholder(n, cfg, mark) IN
           /\ DOMAIN r = ConnFields /\ r.drain = "live" /\ r.session = "none"
           /\ r.name = n /\ r.cfg = cfg /\ ~r.handler
BY DEF Placeholder, Conn, ConnFields

LEMMA ManagerShapes ==
    ASSUME Shapes, Jobs, IdsAssumption, NEW a \in Actors,
           \/ Finish(a) \/ Drained(a) \/ LookUp(a) \/ SetupOAuth(a) \/ Connect(a)
           \/ ListTools(a) \/ Index(a)
    PROVE  Shapes' /\ NoNewDrain
<1> DEFINE n == job[a].name
<1>1. CASE Finish(a)
  <2>1. conns' = Swept(job') /\ UNCHANGED <<servers, reaping, file>>
    BY <1>1 DEF Finish, disk
  <2>2. \A c \in Ids : conns'[c] = conns[c] \/ conns'[c] = Conn(<<>>, NoCfg, "none")
    BY <2>1 DEF Swept
  <2>3. DOMAIN conns' = Ids
    BY <2>1 DEF Swept
  <2> QED
    BY <2>1, <2>2, <2>3, ConnShape DEF Shapes, NoNewDrain
<1>2. CASE Drained(a)
  <2>1. Closed(job[a].conn) /\ UNCHANGED <<servers, reaping, file>>
    BY <1>2 DEF Drained, disk
  <2> QED
    BY <2>1 DEF Closed, Shapes, NoNewDrain, ConnFields
<1>3. CASE LookUp(a)
  BY <1>3 DEF LookUp, manager, disk, Shapes, NoNewDrain
<1>4. CASE SetupOAuth(a)
  <2>1. CASE UNCHANGED manager
    BY <1>4, <2>1 DEF SetupOAuth, manager, disk, Shapes, NoNewDrain
  <2>2. CASE ~UNCHANGED manager
    <3> DEFINE r == [Conn(n, job[a].cfg, "none") EXCEPT !.handler = TRUE]
    <3>1. /\ Unused # {} /\ conns' = [conns EXCEPT ![Fresh] = r]
          /\ servers' = [servers EXCEPT ![n] = Fresh] /\ UNCHANGED <<reaping, file>>
      BY <1>4, <2>2 DEF SetupOAuth, disk
    <3>2. DOMAIN r = ConnFields /\ r.drain = "live"
      BY ConnShape
    <3> HIDE DEF r
    <3> QED
      BY <3>1, <3>2, FreshUnused DEF Shapes, NoNewDrain
  <2> QED
    BY <2>1, <2>2
<1>5. CASE Connect(a)
  <2> DEFINE r == [Conn(n, job[a].cfg, "open") EXCEPT !.handler = job[a].cfg.auth]
  <2>1. UNCHANGED <<servers, reaping, file>>
    BY <1>5 DEF Connect, disk
  <2>2. UNCHANGED conns \/ (Unused # {} /\ conns' = [conns EXCEPT ![Fresh] = r])
    BY <1>5 DEF Connect
  <2>3. DOMAIN r = ConnFields /\ r.drain = "live"
    BY ConnShape
  <2> HIDE DEF r
  <2> QED
    BY <2>1, <2>2, <2>3, FreshUnused DEF Shapes, NoNewDrain
<1>6. CASE ListTools(a)
  BY <1>6 DEF ListTools, disk, Shapes, NoNewDrain, ConnFields
<1>7. CASE Index(a)
  <2>1. PICK list : conns' = [conns EXCEPT ![job[a].conn].tools = list]
    BY <1>7 DEF Index
  <2>2. UNCHANGED <<servers, reaping, file>>
    BY <1>7 DEF Index, disk
  <2> QED
    BY <2>1, <2>2 DEF Shapes, NoNewDrain, ConnFields
<1> QED
  BY <1>1, <1>2, <1>3, <1>4, <1>5, <1>6, <1>7

LEMMA EnterShapes ==
    ASSUME Shapes, NEW a \in Actors, NEW step, NEW mark, Enter(a, step, mark)
    PROVE  Shapes' /\ NoNewDrain
<1> DEFINE r == Placeholder(job[a].name, job[a].cfg, mark)
<1>1. /\ Unused # {} /\ conns' = [conns EXCEPT ![Fresh] = r]
      /\ servers' = [servers EXCEPT ![job[a].name] = Fresh] /\ UNCHANGED <<reaping, file>>
  BY DEF Enter, disk
<1>2. DOMAIN r = ConnFields /\ r.drain = "live"
  BY PlaceholderShape
<1> HIDE DEF r
<1> QED
  BY <1>1, <1>2, FreshUnused DEF Shapes, NoNewDrain

(* A rewrite of the file, whatever it is: which step it is, and what it    *)
(* writes.                                                                 *)
Puts(a, s, ok, tools, plugged, tracked) ==
    LET n == job[a].name  cfg == job[a].cfg  there == file[n] # NoCfg IN
    \/ /\ plugged = sections /\ tracked = plugins
       /\ \/ s = "save" /\ tools = [file EXCEPT ![n] = cfg]
          \/ s = "erase" /\ tools = [file EXCEPT ![n] = NoCfg]
          \/ s = "saveOff" /\ ok = there /\ tools = [file EXCEPT ![n].on = "off"]
          \/ s = "saveOn" /\ ok = there /\ tools = [file EXCEPT ![n].on = "on"]
          \/ s = "saveHeld" /\ ok = there /\ tools = [file EXCEPT ![n].held = cfg.held]
    \/ /\ s = "savePlugin" /\ tools = file
       /\ plugged = sections \union {n} /\ tracked = plugins \union {n}
    \/ /\ s = "erasePlugin" /\ tools = file
       /\ plugged = sections \ {n} /\ tracked = plugins \ {n}

LEMMA WriteIs ==
    ASSUME NEW a, WriteFile(a)
    PROVE  \E s \in Writes, ok \in BOOLEAN : \E tools, plugged, tracked :
              /\ Rewrite(a, s, ok, tools, plugged, tracked)
              /\ Puts(a, s, ok, tools, plugged, tracked) /\ DOMAIN tools = DOMAIN file
<1> DEFINE n == job[a].name  cfg == job[a].cfg  there == file[n] # NoCfg
<1>1. \/ Rewrite(a, "save", TRUE, [file EXCEPT ![n] = cfg], sections, plugins)
      \/ Rewrite(a, "erase", TRUE, [file EXCEPT ![n] = NoCfg], sections, plugins)
      \/ Rewrite(a, "saveOff", there, [file EXCEPT ![n].on = "off"], sections, plugins)
      \/ Rewrite(a, "saveOn", there, [file EXCEPT ![n].on = "on"], sections, plugins)
      \/ Rewrite(a, "saveHeld", there, [file EXCEPT ![n].held = cfg.held], sections, plugins)
      \/ Rewrite(a, "savePlugin", TRUE, file, sections \union {n}, plugins \union {n})
      \/ Rewrite(a, "erasePlugin", TRUE, file, sections \ {n}, plugins \ {n})
  BY DEF WriteFile, SetOn
<1>2. \A s \in Writes, ok \in BOOLEAN : \A tools, plugged, tracked :
         /\ Rewrite(a, s, ok, tools, plugged, tracked)
         /\ Puts(a, s, ok, tools, plugged, tracked) /\ DOMAIN tools = DOMAIN file
         => \E s1 \in Writes, ok1 \in BOOLEAN : \E tools1, plugged1, tracked1 :
              /\ Rewrite(a, s1, ok1, tools1, plugged1, tracked1)
              /\ Puts(a, s1, ok1, tools1, plugged1, tracked1) /\ DOMAIN tools1 = DOMAIN file
  OBVIOUS
<1>3. CASE Rewrite(a, "save", TRUE, [file EXCEPT ![n] = cfg], sections, plugins)
  <2>1. "save" \in Writes /\ Puts(a, "save", TRUE, [file EXCEPT ![n] = cfg], sections, plugins)
    BY DEF Writes, Puts
  <2>2. DOMAIN [file EXCEPT ![n] = cfg] = DOMAIN file
    OBVIOUS
  <2> HIDE DEF n, cfg, there
  <2> QED
    BY <1>2, <1>3, <2>1, <2>2
<1>4. CASE Rewrite(a, "erase", TRUE, [file EXCEPT ![n] = NoCfg], sections, plugins)
  <2>1. "erase" \in Writes /\ Puts(a, "erase", TRUE, [file EXCEPT ![n] = NoCfg], sections, plugins)
    BY DEF Writes, Puts
  <2>2. DOMAIN [file EXCEPT ![n] = NoCfg] = DOMAIN file
    OBVIOUS
  <2> HIDE DEF n, cfg, there
  <2> QED
    BY <1>2, <1>4, <2>1, <2>2
<1>5. CASE Rewrite(a, "saveOff", there, [file EXCEPT ![n].on = "off"], sections, plugins)
  <2>1. "saveOff" \in Writes /\ Puts(a, "saveOff", there, [file EXCEPT ![n].on = "off"], sections, plugins)
    BY DEF Writes, Puts
  <2>2. there \in BOOLEAN /\ DOMAIN [file EXCEPT ![n].on = "off"] = DOMAIN file
    OBVIOUS
  <2> HIDE DEF n, cfg, there
  <2> QED
    BY <1>2, <1>5, <2>1, <2>2
<1>6. CASE Rewrite(a, "saveOn", there, [file EXCEPT ![n].on = "on"], sections, plugins)
  <2>1. "saveOn" \in Writes /\ Puts(a, "saveOn", there, [file EXCEPT ![n].on = "on"], sections, plugins)
    BY DEF Writes, Puts
  <2>2. there \in BOOLEAN /\ DOMAIN [file EXCEPT ![n].on = "on"] = DOMAIN file
    OBVIOUS
  <2> HIDE DEF n, cfg, there
  <2> QED
    BY <1>2, <1>6, <2>1, <2>2
<1>7. CASE Rewrite(a, "saveHeld", there, [file EXCEPT ![n].held = cfg.held], sections, plugins)
  <2>1. "saveHeld" \in Writes /\ Puts(a, "saveHeld", there, [file EXCEPT ![n].held = cfg.held], sections, plugins)
    BY DEF Writes, Puts
  <2>2. there \in BOOLEAN /\ DOMAIN [file EXCEPT ![n].held = cfg.held] = DOMAIN file
    OBVIOUS
  <2> HIDE DEF n, cfg, there
  <2> QED
    BY <1>2, <1>7, <2>1, <2>2
<1>8. CASE Rewrite(a, "savePlugin", TRUE, file, sections \union {n}, plugins \union {n})
  <2>1. "savePlugin" \in Writes /\ Puts(a, "savePlugin", TRUE, file, sections \union {n}, plugins \union {n})
    BY DEF Writes, Puts
  <2> HIDE DEF n, cfg, there
  <2> QED
    BY <1>2, <1>8, <2>1
<1>9. CASE Rewrite(a, "erasePlugin", TRUE, file, sections \ {n}, plugins \ {n})
  <2>1. "erasePlugin" \in Writes /\ Puts(a, "erasePlugin", TRUE, file, sections \ {n}, plugins \ {n})
    BY DEF Writes, Puts
  <2> HIDE DEF n, cfg, there
  <2> QED
    BY <1>2, <1>9, <2>1
<1> QED
  BY <1>1, <1>3, <1>4, <1>5, <1>6, <1>7, <1>8, <1>9

LEMMA WriteShapes ==
    ASSUME Shapes, Jobs, NEW a \in Actors, WriteFile(a)
    PROVE  Shapes' /\ NoNewDrain
<1>1. UNCHANGED manager /\ DOMAIN file' = DOMAIN file
  <2>1. PICK s \in Writes, ok \in BOOLEAN :
           \E tools, plugged, tracked :
              Rewrite(a, s, ok, tools, plugged, tracked) /\ DOMAIN tools = DOMAIN file
    BY WriteIs
  <2> QED
    BY <2>1 DEF Rewrite, disk
<1> QED
  BY <1>1 DEF Shapes, NoNewDrain, manager

LEMMA ActorShapes ==
    ASSUME Shapes, Jobs, HealthStep \/ BootStep \/ OAuthStep
    PROVE  Shapes' /\ NoNewDrain
<1>1. ASSUME ProbeAnswered \/ ProbeFailed \/ Healed \/ GiveUp
      PROVE  Shapes' /\ NoNewDrain
  <2>1. UNCHANGED <<servers, reaping, file>>
    BY <1>1 DEF ProbeAnswered, ProbeFailed, Healed, GiveUp, disk
  <2> DEFINE Keeps == DOMAIN conns' = Ids
                      /\ \A c \in Ids : DOMAIN conns'[c] = ConnFields /\ conns'[c].drain = conns[c].drain
  <2>2. ASSUME ProbeAnswered PROVE Keeps
    <3>1. PICK r : conns' = [conns EXCEPT ![job["health"].probed].restarts = r]
      BY <2>2 DEF ProbeAnswered
    <3> QED
      BY <3>1 DEF Shapes, ConnFields
  <2>3. ASSUME ProbeFailed PROVE Keeps
    <3> DEFINE c == job["health"].probed  r == Min({conns[c].restarts + 1, Quick + 1})
               s == conns[c].restarts >= Quick
    <3>1. conns' = [conns EXCEPT ![c].restarts = r, ![c].resting = s]
      BY <2>3 DEF ProbeFailed
    <3> HIDE DEF r, s
    <3> QED
      BY <3>1 DEF Shapes, ConnFields
  <2>4. ASSUME Healed PROVE Keeps
    <3>1. UNCHANGED conns \/ \E c, r : conns' = [conns EXCEPT ![c].restarts = r]
      BY <2>4 DEF Healed
    <3> QED
      BY <3>1 DEF Shapes, ConnFields
  <2>5. ASSUME GiveUp PROVE Keeps
    <3>1. UNCHANGED conns \/ \E c : conns' = [conns EXCEPT ![c].mark = "gaveUp"]
      BY <2>5 DEF GiveUp
    <3> QED
      BY <3>1 DEF Shapes, ConnFields
  <2>6. Keeps
    BY <1>1, <2>2, <2>3, <2>4, <2>5
  <2> QED
    BY <2>1, <2>6 DEF Shapes, NoNewDrain
<1>2. CASE Backoff \/ Retry \/ OAuthStep
  BY <1>2 DEF Backoff, Retry, OAuthStep, ClearToken, Initiate, manager, disk, Shapes, NoNewDrain
<1>3. CASE Reinsert
  <2>1. UNCHANGED <<conns, reaping, file>> /\ servers' = [servers EXCEPT ![job["health"].name] = job["health"].probed]
    BY <1>3 DEF Reinsert, disk
  <2>2. job["health"].probed \in Ids \union {None}
    BY DEF Jobs, Ready, Actors
  <2> QED
    BY <2>1, <2>2 DEF Shapes, NoNewDrain
<1>4. CASE Pending
  BY <1>4, EnterShapes DEF Pending, Actors
<1> QED
  BY <1>1, <1>2, <1>3, <1>4 DEF HealthStep, BootStep

(* What is not the step of an actor.                                       *)
Operate(n) ==
    \/ \E cfg \in Adds : AddTool(n, cfg)
    \/ \E cfg \in Edits : UpdateTool(n, cfg)
    \/ RemoveTool(n) \/ RestartTool(n) \/ DisableTool(n) \/ EnableTool(n)
    \/ \E held \in Helds : Withhold(n, held)
    \/ \E tools \in BOOLEAN : AddPlugin(n, tools)
    \/ RemovePlugin(n)
Outside == \/ \E c \in Ids : Expire(c) \/ RetryDue(c)
           \/ \E x \in Callers : Call(x) \/ Return(x)
           \/ \E n \in Targets : GoDown(n) \/ ComeUp(n)

LEMMA OperateShapes ==
    ASSUME Shapes, Jobs, SettledAssumption, NEW n \in Targets,
           Operate(n) \/ Probe(n) \/ BootTool(n) \/ Reconnect(n)
    PROVE  Shapes' /\ NoNewDrain
<1>1. UNCHANGED <<servers, reaping, file>>
  BY DEF Operate, AddTool, UpdateTool, RemoveTool, RestartTool, DisableTool, EnableTool, Withhold,
         AddPlugin, RemovePlugin, Probe, BootTool, Reconnect, Begin, manager, disk
<1>2. \/ UNCHANGED conns
      \/ \E held : conns' = [conns EXCEPT ![servers[n]].off = held, ![servers[n]].cfg.held = held]
  BY DEF Operate, AddTool, UpdateTool, RemoveTool, RestartTool, DisableTool, EnableTool, Withhold,
         AddPlugin, RemovePlugin, Probe, BootTool, Reconnect, Begin, manager, disk
<1>3. DOMAIN conns' = Ids /\ \A c \in Ids : DOMAIN conns'[c] = ConnFields /\ conns'[c].drain = conns[c].drain
  <2>1. CASE \E held : conns' = [conns EXCEPT ![servers[n]].off = held, ![servers[n]].cfg.held = held]
    <3>1. PICK held : conns' = [conns EXCEPT ![servers[n]].off = held, ![servers[n]].cfg.held = held]
      BY <2>1
    <3> QED
      BY <3>1 DEF Shapes, ConnFields
  <2> QED
    BY <1>2, <2>1 DEF Shapes
<1> QED
  BY <1>1, <1>3 DEF Shapes, NoNewDrain

LEMMA ExpireIs ==
    ASSUME Shapes, NEW c \in Ids, Expire(c)
    PROVE  /\ DOMAIN conns' = Ids /\ conns'[c].forced
           /\ UNCHANGED <<job, reaping, servers, index, order, starting, setting, disk>>
           /\ \A d \in Ids :
                 /\ DOMAIN conns'[d] = ConnFields /\ (d # c => conns'[d] = conns[d])
                 /\ conns'[d].name = conns[d].name /\ conns'[d].cfg = conns[d].cfg
                 /\ conns'[d].drain = conns[d].drain /\ conns'[d].calls = conns[d].calls
                 /\ conns'[d].tools = conns[d].tools /\ conns'[d].handler = conns[d].handler
                 /\ conns'[d].session \in {conns[d].session, "closing"}
<1> DEFINE s == IF conns[c].session \in {"open", "broken"} THEN "closing" ELSE conns[c].session
<1>1. conns' = [conns EXCEPT ![c].forced = TRUE, ![c].session = s]
  BY DEF Expire
<1>2. s \in {conns[c].session, "closing"}
  OBVIOUS
<1>3. UNCHANGED <<job, reaping, servers, index, order, starting, setting, disk>>
  BY DEF Expire, rest
<1> HIDE DEF s
<1> QED
  BY <1>1, <1>2, <1>3 DEF Shapes, ConnFields

LEMMA OutsideShapes ==
    ASSUME Shapes, Outside
    PROVE  Shapes' /\ NoNewDrain /\ UNCHANGED <<job, reaping, servers, starting, setting, file>>
<1>1. UNCHANGED <<job, reaping, servers, starting, setting, file>>
  BY DEF Outside, Expire, RetryDue, Call, Return, GoDown, ComeUp, disk, rest, manager
<1>2. DOMAIN conns' = Ids /\ \A c \in Ids : DOMAIN conns'[c] = ConnFields /\ conns'[c].drain = conns[c].drain
  <2>1. CASE \E c \in Ids : RetryDue(c)
    BY <2>1 DEF RetryDue, Shapes, ConnFields
  <2>2. CASE \E x \in Callers : Call(x) \/ Return(x)
    <3>1. \E c, s : conns' = [conns EXCEPT ![c].calls = s]
      BY <2>2 DEF Call, Return
    <3> QED
      BY <3>1 DEF Shapes, ConnFields
  <2>3. CASE \E n \in Targets : GoDown(n)
    <3>1. PICK n \in Targets : GoDown(n)
      BY <2>3
    <3>2. /\ DOMAIN conns' = Ids
          /\ \A c \in Ids : conns'[c] = conns[c] \/ conns'[c] = [conns[c] EXCEPT !.session = "broken"]
      BY <3>1 DEF GoDown
    <3> QED
      BY <3>2 DEF Shapes, ConnFields
  <2>4. CASE \E n \in Targets : ComeUp(n)
    BY <2>4 DEF ComeUp, manager, Shapes
  <2>5. CASE \E c \in Ids : Expire(c)
    BY <2>5, ExpireIs
  <2> QED
    BY <2>1, <2>2, <2>3, <2>4, <2>5 DEF Outside
<1> QED
  BY <1>1, <1>2 DEF Shapes, NoNewDrain

LEMMA UnpublishShapes ==
    ASSUME Shapes, Jobs, IdsAssumption, NEW a \in Actors, Unpublish(a)
    PROVE  /\ Shapes' /\ UNCHANGED reaping
           /\ \A c \in Ids : /\ conns'[c].session = conns[c].session /\ conns'[c].handler = conns[c].handler
                             /\ conns'[c].name = conns[c].name /\ conns'[c].cfg = conns[c].cfg
                             /\ conns'[c].drain = "draining" =>
                                   conns[c].drain = "draining" \/ c = servers[job[a].name]
           /\ \A n \in Names : servers'[n] = IF n = job[a].name THEN None ELSE servers[n]
<1> DEFINE n == job[a].name  c == servers[n]
<1>1. n \in Names /\ UNCHANGED file
  BY Heads DEF Unpublish, disk
<1>2. CASE c = None
  <2>1. UNCHANGED manager
    BY <1>2 DEF Unpublish
  <2> QED
    BY <1>1, <1>2, <2>1 DEF Shapes, manager
<1>3. CASE c # None
  <2> DEFINE r == [Drain(c) EXCEPT !.tools = <<>>]
  <2>1. /\ conns' = [conns EXCEPT ![c] = r] /\ servers' = [servers EXCEPT ![n] = None]
        /\ UNCHANGED reaping
    BY <1>3 DEF Unpublish
  <2>2. c \in Ids
    BY <1>1, <1>3 DEF Shapes
  <2>3. /\ DOMAIN r = ConnFields /\ r.session = conns[c].session /\ r.handler = conns[c].handler
        /\ r.name = conns[c].name /\ r.cfg = conns[c].cfg
    BY <2>2 DEF Shapes, Drain, ConnFields
  <2> HIDE DEF r
  <2> QED
    BY <1>1, <2>1, <2>2, <2>3 DEF Shapes
<1> QED
  BY <1>2, <1>3

LEMMA PublishShapes ==
    ASSUME Shapes, Jobs, IdsAssumption, NEW a \in Actors, Publish(a)
    PROVE  /\ Shapes' /\ reaping \subseteq reaping' /\ reaping' \subseteq reaping \union {servers[job[a].name]}
           /\ \A c \in Ids : /\ conns'[c].session = conns[c].session /\ conns'[c].handler = conns[c].handler
                             /\ conns'[c].name = conns[c].name /\ conns'[c].cfg = conns[c].cfg
                             /\ conns'[c].drain = "draining" =>
                                   conns[c].drain = "draining" \/ c \in reaping'
           /\ \A n \in Names : servers'[n] = IF n = job[a].name THEN job[a].conn ELSE servers[n]
           /\ job[a].conn \in Ids
<1> DEFINE n == job[a].name  c == servers[n]
<1>1. n \in Names /\ job[a].conn \in Ids /\ UNCHANGED file
  BY Heads DEF Publish, disk, Holding
<1>2. servers' = [servers EXCEPT ![n] = job[a].conn]
  BY DEF Publish
<1>3. CASE UNCHANGED <<conns, reaping>>
  BY <1>1, <1>2, <1>3 DEF Shapes
<1>4. CASE ~UNCHANGED <<conns, reaping>>
  <2>1. conns' = [conns EXCEPT ![c] = Drain(c)] /\ reaping' = reaping \union {c} /\ c # None
    BY <1>4 DEF Publish
  <2>2. c \in Ids
    BY <1>1, <2>1 DEF Shapes
  <2>3. /\ DOMAIN Drain(c) = ConnFields /\ Drain(c).session = conns[c].session
        /\ Drain(c).handler = conns[c].handler
        /\ Drain(c).name = conns[c].name /\ Drain(c).cfg = conns[c].cfg
    BY <2>2 DEF Shapes, Drain, ConnFields
  <2> QED
    BY <1>1, <1>2, <2>1, <2>2, <2>3 DEF Shapes
<1> QED
  BY <1>3, <1>4

LEMMA ReapShapes ==
    ASSUME Shapes, NEW r \in Ids, Reap(r)
    PROVE  /\ Shapes' /\ reaping' = reaping \ {r} /\ UNCHANGED <<job, servers, starting, setting, file>>
           /\ \A c \in Ids : /\ conns'[c].name = conns[c].name /\ conns'[c].cfg = conns[c].cfg
                             /\ conns'[c].drain = IF c = r THEN "closed" ELSE conns[c].drain
                             /\ conns'[c].session = "open" => c # r /\ conns[c].session = "open"
                             /\ c # r => conns'[c] = conns[c]
<1>1. /\ reaping' = reaping \ {r} /\ UNCHANGED <<job, servers, starting, setting, file>>
      /\ Closed(r)
  BY DEF Reap, disk, rest
<1> QED
  BY <1>1 DEF Closed, Shapes, ConnFields

(* A step of one goroutine, and who drains what is drained.                *)
LEMMA TeardownKept ==
    ASSUME Shapes, Jobs, Teardown, NEW a \in Actors, Others(a), ~At(a, "drain"),
           \A c \in Ids : conns'[c].drain = "draining" =>
              \/ conns[c].drain = "draining" /\ (c \in reaping => c \in reaping')
              \/ c \in reaping'
              \/ job'[a].conn = c /\ job'[a].todo # <<>> /\ Head(job'[a].todo) = "drain"
    PROVE  Teardown'
<1> SUFFICES ASSUME NEW c \in Ids, conns'[c].drain = "draining" PROVE Attended(c)'
  BY DEF Teardown
<1>1. CASE c \in reaping'
  BY <1>1 DEF Attended
<1>2. CASE job'[a].conn = c /\ job'[a].todo # <<>> /\ Head(job'[a].todo) = "drain"
  BY <1>2 DEF Attended, At
<1>3. CASE conns[c].drain = "draining" /\ (c \in reaping => c \in reaping')
  <2>1. Attended(c)
    BY <1>3 DEF Teardown
  <2>2. CASE \E b \in Actors : job[b].conn = c /\ At(b, "drain")
    BY <2>2 DEF Attended, At, Others
  <2> QED
    BY <1>1, <1>3, <2>1, <2>2 DEF Attended
<1> QED
  BY <1>1, <1>2, <1>3

LEMMA DrainTeardown ==
    ASSUME Shapes, Jobs, Teardown, NEW a \in Actors, Drained(a)
    PROVE  /\ Teardown' /\ UNCHANGED <<servers, reaping>>
           /\ \A c \in Ids : /\ conns'[c].name = conns[c].name /\ conns'[c].cfg = conns[c].cfg
                             /\ conns'[c].session = "open" => c # job[a].conn /\ conns[c].session = "open"
                             /\ c # job[a].conn => conns'[c] = conns[c]
<1> DEFINE d == job[a].conn
<1>1. UNCHANGED <<servers, reaping>> /\ Closed(d)
  BY DEF Drained
<1>2. At(a, "drain") /\ Others(a)
  BY DrainMoves DEF GoesOn
<1>3. d \in Ids
  BY <1>2, Heads DEF Holding
<1>4. \A c \in Ids : /\ conns'[c].name = conns[c].name /\ conns'[c].cfg = conns[c].cfg
                     /\ conns'[c].drain = IF c = d THEN "closed" ELSE conns[c].drain
                     /\ conns'[c].session = "open" => c # d /\ conns[c].session = "open"
                     /\ c # d => conns'[c] = conns[c]
  BY <1>1, <1>3 DEF Closed, Shapes, ConnFields
<1>5. ASSUME NEW c \in Ids, conns'[c].drain = "draining" PROVE Attended(c)'
  <2>1. c # d /\ Attended(c)
    BY <1>4, <1>5 DEF Teardown
  <2> QED
    BY <1>1, <1>2, <2>1 DEF Attended, At, Others
<1> QED
  BY <1>1, <1>4, <1>5 DEF Teardown

-----------------------------------------------------------------------------
(* The operations of the lifecycle manager alone.                          *)

LEMMA Solo ==
    ASSUME Jobs, OneAtATime, Alone, NEW a \in Actors, job[a].todo # <<>>
    PROVE  /\ a \in {"boot", "lifecycle"} /\ job[a].tries = 0
           /\ job[a].op \in DOMAIN Closing \ {"heal", "retry", "reconnect"}
           /\ job[a].name \in Names \ starting
           /\ \A b \in Actors \ {a} : job[b].todo = <<>> /\ job[b].conn = None
           /\ \A s \in Waits : ~At(a, s)
<1>1. job["health"] = Idle /\ job["oauth"] = Idle /\ Idle.todo = <<>>
  BY Idles DEF OneAtATime
<1>2. a \in {"boot", "lifecycle"} /\ {"health", "oauth", "boot", "lifecycle"} = Actors
  BY <1>1 DEF Actors
<1>3. job["boot"].todo # <<>> => job["lifecycle"].todo = <<>>
  BY DEF OneAtATime
<1>4. \A b \in Actors \ {a} : job[b].todo = <<>> /\ job[b].conn = None
  BY <1>1, <1>2, <1>3 DEF Jobs, Ready
<1>5. job[a].op \in DOMAIN Closing /\ job[a].op \in Roles[a] /\ job[a].name \in Names
  BY DEF Jobs, Ready, Planned
<1>6. job[a].tries = 0 /\ job[a].op # "retry" /\ job[a].name \notin starting
      /\ \A s \in Waits : ~At(a, s)
  BY <1>5 DEF OneAtATime
<1>7. job[a].op \notin {"heal", "reconnect"}
  BY <1>2, <1>5 DEF Roles
<1> QED
  BY <1>2, <1>4, <1>5, <1>6, <1>7

LEMMA Leads ==
    ASSUME NEW op \in DOMAIN Closing
    PROVE  /\ \A s \in Steps : After(op, s) \cap Waits = {}
           /\ \A s \in Writes \union {"index", "shelve"} : After(op, s) \cap Before = {}
           /\ \A s \in Steps \ {"unpublish", "publish", "list"} :
                 After(op, s) \cap {"drain", "list", "index"} = {}
<1>1. Closing[op] \notin Waits /\ Closing[op] \notin Before
  BY Closes DEF Waits, Before
<1>2. /\ \A s \in Writes \union Final \union {"giveUp"} : After(op, s) \subseteq {"done", "save"}
      /\ \A s \in {"index", "shelve"} : After(op, s) \subseteq {"done", "fail", Closing[op]}
      /\ After(op, "drain") \subseteq {"fail", Closing[op], "shelve", "hold", "reinsert", "lookup", "connect"}
      /\ \A s \in {"hold", "reinsert", "clear"} : After(op, s) = {"lookup", "connect"}
      /\ After(op, "unpublish") = {"drain"} /\ After(op, "backoff") = {"unpublish"}
      /\ After(op, "lookup") = {"oauth"} /\ After(op, "oauth") = {"connect"}
      /\ After(op, "connect") = {"publish"} /\ After(op, "publish") = {"list"}
      /\ After(op, "list") = {"index"}
  BY Afters
<1>3. \A s \in Steps : s \in Writes \union Final \union {"giveUp", "index", "shelve", "drain", "hold",
         "reinsert", "clear", "unpublish", "backoff", "lookup", "oauth", "connect", "publish", "list"}
  BY DEF Steps, Writes, Final
<1>4. \A s \in Steps : After(op, s) \cap Waits = {}
  BY <1>1, <1>2, <1>3 DEF Waits
<1>5. \A s \in Writes \union {"index", "shelve"} : After(op, s) \cap Before = {}
  BY <1>1, <1>2 DEF Before
<1>6. \A s \in Steps \ {"unpublish", "connect", "publish", "list"} : After(op, s) \cap {"drain", "list", "index"} = {}
  BY Holds DEF Holding
<1> QED
  BY <1>2, <1>4, <1>5, <1>6

(* A step of one goroutine, next to which nothing happens.                 *)
LEMMA LeakKept ==
    ASSUME LeakInv, NEW a \in Actors, job[a].todo # <<>>,
           Shapes', Jobs', Teardown', Others(a), UNCHANGED <<starting, setting>>,
           \A n \in Names \ {job[a].name} : servers'[n] = servers[n],
           job'[a] = Idle \/ (Same(a) /\ job'[a].todo # <<>>),
           Alone => /\ job'[a].todo # <<>> => Head(job'[a].todo) \notin Waits
                    /\ Entering(a)'
                    /\ \A c \in Ids : conns'[c].session = "open" => Known(c)'
    PROVE  LeakInv'
<1> SUFFICES ASSUME Alone PROVE OneAtATime' /\ Replacing'
  BY DEF LeakInv, OneAtATime, Replacing, Alone
<1>1. /\ a \in {"boot", "lifecycle"} /\ job[a].tries = 0
      /\ job[a].op \in DOMAIN Closing \ {"heal", "retry", "reconnect"}
      /\ job[a].name \in Names \ starting
      /\ \A b \in Actors \ {a} : job[b].todo = <<>> /\ job[b].conn = None
  BY Solo DEF LeakInv
<1>2. \A b \in Actors \ {a} : job'[b] = job[b] /\ Entering(b)' /\ \A s \in Waits : ~At(b, s)'
  BY <1>1 DEF Others, Entering, At
<1>3. \A s \in Waits : ~At(a, s)'
  BY DEF At
<1>4. job["boot"].todo # <<>> => job["lifecycle"].todo = <<>>
  BY DEF LeakInv, OneAtATime
<1>5. \A b \in Actors : /\ job'[b].tries = 0 /\ job'[b].op # "retry"
                        /\ job'[b].op = "boot" <=> b = "boot" /\ job'[b].todo # <<>>
                        /\ job'[b].todo # <<>> => job[b].todo # <<>> /\ job'[b].name = job[b].name
  BY <1>1, <1>2, Idles DEF LeakInv, OneAtATime, Same
<1>6. /\ job'["health"] = Idle /\ job'["oauth"] = Idle
      /\ starting' # {} \/ job'["boot"].todo # <<>> => job'["lifecycle"].todo = <<>>
  BY <1>1, <1>2, <1>5 DEF LeakInv, OneAtATime, Actors
<1>7. \A n \in starting' \cap Names :
         servers'[n] = None /\ (\A b \in Actors : job'[b].todo # <<>> => job'[b].name # n)
  <2>1. \A n \in starting \cap Names :
           servers[n] = None /\ (\A b \in Actors : job[b].todo # <<>> => job[b].name # n)
    BY DEF LeakInv, OneAtATime
  <2>2. \A n \in starting \cap Names : servers'[n] = servers[n]
    BY <1>1
  <2> QED
    BY <1>5, <2>1, <2>2
<1>8. OneAtATime'
  BY <1>2, <1>3, <1>5, <1>6, <1>7 DEF OneAtATime
<1> QED
  BY <1>2, <1>8 DEF Replacing

-----------------------------------------------------------------------------
(* Step by step: nothing leaks.                                            *)

LEMMA FinishLeak ==
    ASSUME LeakInv, IdsAssumption, NEW a \in Actors, Finish(a)
    PROVE  LeakInv'
<1>1. At(a, "done") \/ At(a, "fail")
  BY DEF Finish
<1>2. job[a].todo # <<>> /\ job[a].conn = None
  BY <1>1, Heads DEF LeakInv, Holding, At
<1>3. /\ conns' = Swept(job') /\ UNCHANGED <<servers, reaping, starting, setting>>
  BY DEF Finish, rest
<1>4. Others(a) /\ job'[a] = Idle /\ Jobs'
  BY FinishMoves DEF LeakInv
<1>5. Shapes' /\ NoNewDrain
  BY ManagerShapes DEF LeakInv
<1>6. Teardown'
  BY <1>1, <1>3, <1>4, <1>5, TeardownKept DEF LeakInv, NoNewDrain, At
<1>7. ASSUME Alone, NEW c \in Ids, conns'[c].session = "open" PROVE Known(c)'
  <2>1. conns'[c] = conns[c]
    <3>1. conns'[c] = conns[c] \/ conns'[c] = Conn(<<>>, NoCfg, "none")
      BY <1>3 DEF Swept
    <3>2. Conn(<<>>, NoCfg, "none").session = "none"
      BY ConnShape
    <3> QED
      BY <1>7, <3>1, <3>2
  <2>2. Known(c)
    BY <1>7, <2>1 DEF LeakInv, Replacing
  <2> QED
    BY <1>2, <1>3, <1>4, <2>2 DEF Known, Others, IdsAssumption
<1>8. Entering(a)' /\ job'[a].todo = <<>>
  BY <1>4, Idles DEF Entering, At
<1> QED
  BY <1>2, <1>3, <1>4, <1>5, <1>6, <1>7, <1>8, LeakKept

LEMMA UnpublishLeak ==
    ASSUME LeakInv, IdsAssumption, NEW a \in Actors, Unpublish(a)
    PROVE  LeakInv'
<1> DEFINE n == job[a].name  c == servers[n]
<1>1. /\ At(a, "unpublish") /\ Jobs' /\ Others(a) /\ Same(a) /\ job'[a].todo # <<>>
      /\ IF c = None
         THEN \/ job'[a].todo = <<"fail">>
              \/ Head(job'[a].todo) \in After(job[a].op, "drain")
         ELSE Head(job'[a].todo) = "drain" /\ job'[a].conn = c
  BY UnpublishMoves DEF LeakInv, GoesOn
<1>2. /\ job[a].todo # <<>> /\ job[a].conn = None /\ n \in Names /\ job[a].op \in DOMAIN Closing
  BY <1>1, Heads DEF LeakInv, Holding
<1>3. UNCHANGED <<starting, setting>>
  BY DEF Unpublish, rest
<1>4. /\ Shapes' /\ UNCHANGED reaping
      /\ \A d \in Ids : /\ conns'[d].session = conns[d].session
                        /\ conns'[d].drain = "draining" => conns[d].drain = "draining" \/ d = c
      /\ \A m \in Names : servers'[m] = IF m = n THEN None ELSE servers[m]
  BY UnpublishShapes DEF LeakInv
<1>5. Teardown'
  BY <1>1, <1>4, TeardownKept DEF LeakInv, At, IdsAssumption
<1>6. Head(job'[a].todo) \notin Waits /\ Head(job'[a].todo) \notin {"list", "index"}
  <2>1. \A x \in {"fail", "drain"} : x \notin Waits
    BY DEF Waits
  <2>2. After(job[a].op, "drain") \cap Waits = {} /\ After(job[a].op, "drain") \cap {"list", "index"} = {}
    BY <1>2, Leads DEF Steps
  <2> QED
    BY <1>1, <2>1, <2>2
<1>7. Entering(a)'
  BY <1>1, <1>2, <1>4, <1>6 DEF Entering, Vacant, At, Same, Before
<1>8. ASSUME Alone, NEW d \in Ids, conns'[d].session = "open" PROVE Known(d)'
  <2>1. Known(d)
    BY <1>4, <1>8 DEF LeakInv, Replacing
  <2>2. \A b \in Actors : job[b].conn = d => job'[b].conn = d
    BY <1>1, <1>2 DEF Others, IdsAssumption
  <2>3. d = c => job'[a].conn = d
    BY <1>1 DEF IdsAssumption
  <2> QED
    BY <1>4, <2>1, <2>2, <2>3 DEF Known
<1> QED
  BY <1>1, <1>2, <1>3, <1>4, <1>5, <1>6, <1>7, <1>8, LeakKept

LEMMA DrainLeak ==
    ASSUME LeakInv, IdsAssumption, NEW a \in Actors, Drained(a)
    PROVE  LeakInv'
<1>1. /\ At(a, "drain") /\ Jobs' /\ Others(a) /\ Same(a) /\ job'[a].todo # <<>> /\ job'[a].conn = None
      /\ Head(job'[a].todo) \in After(job[a].op, "drain") /\ job[a].op \in DOMAIN Closing
  BY DrainMoves DEF LeakInv, GoesOn
<1>2. /\ Teardown' /\ UNCHANGED <<servers, reaping>>
      /\ \A c \in Ids : conns'[c].session = "open" => c # job[a].conn /\ conns[c].session = "open"
  BY DrainTeardown DEF LeakInv
<1>3. Shapes' /\ UNCHANGED <<starting, setting>>
  BY ManagerShapes DEF LeakInv, Drained, rest
<1>4. /\ Head(job'[a].todo) \notin Waits \union {"drain", "list", "index"}
  BY <1>1, Leads DEF Steps
<1>5. ASSUME Alone PROVE Entering(a)'
  <2>1. servers'[job[a].name] = None
    BY <1>1, <1>2, <1>5 DEF LeakInv, Replacing, Entering
  <2> QED
    BY <1>1, <1>4, <2>1 DEF Entering, Vacant, At, Same
<1>6. ASSUME Alone, NEW c \in Ids, conns'[c].session = "open" PROVE Known(c)'
  <2>1. Known(c) /\ c # job[a].conn
    BY <1>2, <1>6 DEF LeakInv, Replacing
  <2> QED
    BY <1>1, <1>2, <2>1 DEF Known, Others
<1> QED
  BY <1>1, <1>2, <1>3, <1>4, <1>5, <1>6, LeakKept DEF At

(* Nothing is opened, published or torn down.                              *)
LEMMA StillLeak ==
    ASSUME LeakInv, IdsAssumption, NEW a \in Actors, NEW s, At(a, s), s \in Steps, s # "drain",
           Shapes', NoNewDrain, Jobs', Others(a), Same(a), job'[a].todo # <<>>,
           UNCHANGED <<servers, reaping, starting, setting>>,
           \A c \in Ids : conns'[c].session = "open" => conns[c].session = "open",
           job[a].conn # None => job'[a].conn = job[a].conn \/ s = "index",
           Alone => /\ Head(job'[a].todo) \notin Waits \union {"drain", "list"}
                    /\ Head(job'[a].todo) = "index" => s = "list"
                    /\ Head(job'[a].todo) \in Before => s \in Before
    PROVE  LeakInv'
<1>1. Teardown'
  BY TeardownKept DEF LeakInv, NoNewDrain, At
<1>2. job[a].todo # <<>> /\ job[a].name \in Names /\ job[a].conn \in Ids \union {None}
      /\ (job[a].conn # None <=> s \in Holding)
  BY Heads DEF LeakInv, At
<1>3. ASSUME Alone PROVE Entering(a)'
  <2>1. servers'[job[a].name] = servers[job[a].name] /\ (Vacant(job[a].name) => Vacant(job[a].name)')
    <3>1. servers[job[a].name] \in Ids \union {None}
      BY <1>2 DEF LeakInv, Shapes
    <3> QED
      BY <3>1 DEF Vacant, Same
  <2>2. Entering(a)
    BY <1>3 DEF LeakInv, Replacing
  <2>3. s = "list" => job'[a].conn = job[a].conn
    BY <1>2 DEF Holding
  <2> QED
    BY <1>2, <1>3, <2>1, <2>2, <2>3 DEF Entering, At, Same
<1>4. ASSUME Alone, NEW c \in Ids, conns'[c].session = "open" PROVE Known(c)'
  <2>1. Known(c) /\ Entering(a)
    BY <1>4 DEF LeakInv, Replacing
  <2>2. s = "index" => servers[job[a].name] = job[a].conn
    BY <2>1 DEF Entering
  <2> QED
    BY <1>2, <2>1, <2>2 DEF Known, Others, IdsAssumption
<1> QED
  BY <1>1, <1>2, <1>3, <1>4, LeakKept

LEMMA LookUpLeak ==
    ASSUME LeakInv, IdsAssumption, NEW a \in Actors, LookUp(a)
    PROVE  LeakInv'
<1>1. /\ At(a, "lookup") /\ GoesOn(a) /\ Jobs' /\ Head(job'[a].todo) = "oauth"
  BY LookUpMoves DEF LeakInv
<1>2. Shapes' /\ NoNewDrain
  BY ManagerShapes DEF LeakInv
<1>3. UNCHANGED <<servers, reaping, starting, setting, conns>>
  BY DEF LookUp, manager, rest
<1>4. job[a].conn = None
  BY <1>1, Heads DEF LeakInv, Holding
<1>5. "lookup" \in Steps /\ "oauth" \notin Waits \union {"drain", "list", "index"} /\ "lookup" \in Before
  BY DEF Steps, Waits, Before
<1> QED
  BY <1>1, <1>2, <1>3, <1>4, <1>5, StillLeak DEF GoesOn

LEMMA IndexLeak ==
    ASSUME LeakInv, IdsAssumption, NEW a \in Actors, Index(a)
    PROVE  LeakInv'
<1>1. /\ At(a, "index") /\ GoesOn(a) /\ Jobs' /\ job[a].op \in DOMAIN Closing
      /\ Head(job'[a].todo) \in After(job[a].op, "index")
  BY IndexMoves DEF LeakInv
<1>2. Shapes' /\ NoNewDrain
  BY ManagerShapes DEF LeakInv
<1>3. UNCHANGED <<servers, reaping, starting, setting>> /\ \E list : conns' = [conns EXCEPT ![job[a].conn].tools = list]
  BY DEF Index, rest
<1>4. \A c \in Ids : conns'[c].session = conns[c].session
  BY <1>3 DEF LeakInv, Shapes
<1>5. "index" \in Steps /\ Head(job'[a].todo) \notin Waits \union {"drain", "list", "index"} \union Before
  BY <1>1, Leads DEF Steps
<1> QED
  BY <1>1, <1>2, <1>3, <1>4, <1>5, StillLeak DEF GoesOn

LEMMA WriteLeak ==
    ASSUME LeakInv, IdsAssumption, NEW a \in Actors, WriteFile(a)
    PROVE  LeakInv'
<1>1. PICK s \in Writes, ok \in BOOLEAN : \E tools, plugged, tracked : Rewrite(a, s, ok, tools, plugged, tracked)
  BY WriteIs
<1>2. PICK tools, plugged, tracked : Rewrite(a, s, ok, tools, plugged, tracked)
  BY <1>1
<1>3. /\ At(a, s) /\ Jobs' /\ Others(a) /\ Same(a) /\ job'[a].conn = None /\ job'[a].todo # <<>>
      /\ job[a].op \in DOMAIN Closing
      /\ Head(job'[a].todo) \in After(job[a].op, s) \union {"unpublish", "fail"}
  BY <1>2, WriteMoves DEF LeakInv
<1>4. UNCHANGED <<servers, reaping, starting, setting, conns>>
  BY <1>2 DEF Rewrite, manager, rest
<1>5. Shapes' /\ NoNewDrain
  BY WriteShapes DEF LeakInv
<1>6. s \in Steps /\ s \notin Holding /\ s # "drain"
  BY DEF Steps, Writes, Holding
<1>7. job[a].conn = None
  BY <1>3, <1>6, Heads DEF LeakInv
<1>8. Head(job'[a].todo) \notin Waits \union {"drain", "list", "index"} \union Before
  <2>1. \A x \in {"unpublish", "fail"} : x \notin Waits \union {"drain", "list", "index"} \union Before
    BY DEF Waits, Before
  <2>2. s \notin {"unpublish", "publish", "list"}
    BY DEF Writes
  <2>3. \A x \in After(job[a].op, s) : x \notin Waits \union {"drain", "list", "index"} \union Before
    BY <1>3, <1>6, <2>2, Leads
  <2> QED
    BY <1>3, <2>1, <2>3
<1> QED
  BY <1>3, <1>4, <1>5, <1>6, <1>7, <1>8, StillLeak

LEMMA ListLeak ==
    ASSUME LeakInv, IdsAssumption, NEW a \in Actors, ListTools(a)
    PROVE  LeakInv'
<1> DEFINE d == job[a].conn
<1>1. /\ At(a, "list") /\ Jobs' /\ Others(a) /\ Same(a) /\ job'[a].todo # <<>>
      /\ \/ Head(job'[a].todo) = "index" /\ job'[a].conn = d /\ UNCHANGED conns
         \/ Gives(a) /\ conns' = [conns EXCEPT ![d].session = "closed"]
  BY ListMoves DEF LeakInv
<1>2. Shapes' /\ NoNewDrain
  BY ManagerShapes DEF LeakInv
<1>3. UNCHANGED <<servers, reaping, starting, setting>>
  BY DEF ListTools, rest
<1>4. job[a].name \in Names /\ d \in Ids /\ job[a].todo # <<>>
  BY <1>1, Heads DEF LeakInv, Holding
<1>5. CASE Head(job'[a].todo) = "index" /\ job'[a].conn = d /\ UNCHANGED conns
  <2>1. "list" \in Steps /\ "index" \notin Waits \union {"drain", "list"} \union Before
    BY DEF Steps, Waits, Before
  <2> QED
    BY <1>1, <1>2, <1>3, <1>5, <2>1, StillLeak
<1>6. CASE Gives(a) /\ conns' = [conns EXCEPT ![d].session = "closed"]
  <2>1. conns'[d].session = "closed" /\ \A c \in Ids : conns'[c].session = "open" => c # d /\ conns[c].session = "open"
    BY <1>4, <1>6 DEF LeakInv, Shapes, ConnFields
  <2>2. Teardown'
    BY <1>1, <1>2, <1>3, TeardownKept DEF LeakInv, NoNewDrain, At
  <2>3. ASSUME Alone PROVE Head(job'[a].todo) \notin Waits /\ Entering(a)'
    <3>1. Head(job'[a].todo) \in {"shelve", "fail"}
      BY <1>4, <1>6, <2>3, Solo DEF Gives, LeakInv
    <3>2. servers'[job[a].name] = d
      BY <1>1, <1>3, <2>3 DEF LeakInv, Replacing, Entering
    <3> QED
      BY <1>1, <2>1, <3>1, <3>2 DEF Entering, Vacant, At, Same, Waits, Before
  <2>4. ASSUME Alone, NEW c \in Ids, conns'[c].session = "open" PROVE Known(c)'
    <3>1. Known(c) /\ c # d
      BY <2>1, <2>4 DEF LeakInv, Replacing
    <3> QED
      BY <1>1, <1>3, <3>1 DEF Known, Others
  <2> QED
    BY <1>1, <1>2, <1>3, <1>4, <2>2, <2>3, <2>4, LeakKept
<1> QED
  BY <1>1, <1>5, <1>6

LEMMA ConnectLeak ==
    ASSUME LeakInv, IdsAssumption, NEW a \in Actors, Connect(a)
    PROVE  LeakInv'
<1> DEFINE r == [Conn(job[a].name, job[a].cfg, "open") EXCEPT !.handler = job[a].cfg.auth]
<1>1. /\ At(a, "connect") /\ Jobs' /\ Others(a) /\ Same(a) /\ job[a].conn = None /\ job'[a].todo # <<>>
      /\ \/ /\ Unused # {} /\ Head(job'[a].todo) = "publish" /\ job'[a].conn = Fresh
            /\ conns' = [conns EXCEPT ![Fresh] = r]
         \/ Gives(a) /\ UNCHANGED conns
  BY ConnectMoves DEF LeakInv
<1>2. Shapes' /\ NoNewDrain
  BY ManagerShapes DEF LeakInv
<1>3. UNCHANGED <<servers, reaping, starting, setting>>
  BY DEF Connect, rest
<1>4. job[a].name \in Names /\ job[a].todo # <<>>
  BY <1>1, Heads DEF LeakInv
<1>5. CASE /\ Unused # {} /\ Head(job'[a].todo) = "publish" /\ job'[a].conn = Fresh
           /\ conns' = [conns EXCEPT ![Fresh] = r]
  <2>1. Fresh \in Ids /\ \A n \in Names : servers[n] # Fresh
    BY <1>5, FreshUnused DEF Referred
  <2>2. \A c \in Ids \ {Fresh} : conns'[c] = conns[c]
    BY <1>5 DEF LeakInv, Shapes
  <2>3. Teardown'
    BY <1>1, <1>2, <1>3, TeardownKept DEF LeakInv, NoNewDrain, At
  <2>4. ASSUME Alone PROVE Head(job'[a].todo) \notin Waits /\ Entering(a)'
    <3>1. Vacant(job[a].name)
      BY <1>1, <2>4 DEF LeakInv, Replacing, Entering, Before, At
    <3>2. servers[job[a].name] \in Ids \union {None}
      BY <1>4 DEF LeakInv, Shapes
    <3>3. Vacant(job[a].name)'
      BY <1>1, <1>3, <1>4, <2>1, <2>2, <3>1, <3>2 DEF Vacant, Same
    <3> QED
      BY <1>1, <1>5, <3>3 DEF Entering, At, Same, Waits
  <2>5. ASSUME Alone, NEW c \in Ids, conns'[c].session = "open" PROVE Known(c)'
    <3>1. CASE c = Fresh
      BY <1>5, <3>1 DEF Known
    <3>2. CASE c # Fresh
      <4>1. Known(c)
        BY <2>2, <2>5, <3>2 DEF LeakInv, Replacing
      <4> QED
        BY <1>1, <1>3, <4>1 DEF Known, Others, IdsAssumption
    <3> QED
      BY <3>1, <3>2
  <2> QED
    BY <1>1, <1>2, <1>3, <1>4, <2>3, <2>4, <2>5, LeakKept
<1>6. CASE Gives(a) /\ UNCHANGED conns
  <2>1. "connect" \in Steps /\ "connect" \in Before /\ \A x \in {"shelve", "fail"} : x \notin Waits \union {"drain", "list", "index"}
    BY DEF Steps, Before, Waits
  <2>2. Alone => Head(job'[a].todo) \in {"shelve", "fail"}
    BY <1>4, <1>6, Solo DEF Gives, LeakInv
  <2> QED
    BY <1>1, <1>2, <1>3, <1>6, <2>1, <2>2, StillLeak
<1> QED
  BY <1>1, <1>5, <1>6

LEMMA PublishLeak ==
    ASSUME LeakInv, IdsAssumption, NEW a \in Actors, Publish(a)
    PROVE  LeakInv'
<1> DEFINE n == job[a].name  d == job[a].conn
<1>1. At(a, "publish") /\ Advance(a) /\ UNCHANGED <<starting, setting>>
  BY DEF Publish, rest
<1>2. /\ GoesOn(a) /\ Jobs' /\ Head(job'[a].todo) = "list" /\ job'[a].conn = d
      /\ n \in Names /\ job[a].todo # <<>>
  BY <1>1, AdvanceMoves, Afters DEF LeakInv, Final
<1>3. /\ Shapes' /\ reaping \subseteq reaping' /\ d \in Ids
      /\ \A c \in Ids : /\ conns'[c].session = conns[c].session
                        /\ conns'[c].drain = "draining" => conns[c].drain = "draining" \/ c \in reaping'
      /\ \A m \in Names : servers'[m] = IF m = n THEN d ELSE servers[m]
  BY PublishShapes DEF LeakInv
<1>4. Teardown'
  BY <1>1, <1>2, <1>3, TeardownKept DEF LeakInv, At, GoesOn
<1>5. Head(job'[a].todo) \notin Waits /\ Entering(a)'
  BY <1>2, <1>3 DEF Entering, At, GoesOn, Same, Waits, Before
<1>6. ASSUME Alone, NEW c \in Ids, conns'[c].session = "open" PROVE Known(c)'
  <2>1. Known(c) /\ conns[c].session = "open" /\ Entering(a)
    BY <1>3, <1>6 DEF LeakInv, Replacing
  <2>2. servers[n] # c
    BY <1>1, <2>1 DEF Entering, Vacant, Before, At, IdsAssumption
  <2> QED
    BY <1>2, <1>3, <2>1, <2>2 DEF Known, GoesOn, Others
<1> QED
  BY <1>1, <1>2, <1>3, <1>4, <1>5, <1>6, LeakKept DEF GoesOn

(* An entry without a session takes the name.                              *)
LEMMA EnteredLeak ==
    ASSUME LeakInv, IdsAssumption, NEW a \in Actors, NEW s \in Before, At(a, s), s \notin Holding,
           Shapes', NoNewDrain, Jobs', Others(a), Same(a), job'[a].todo # <<>>,
           UNCHANGED <<reaping, starting, setting>>, Unused # {},
           servers' = [servers EXCEPT ![job[a].name] = Fresh],
           \A c \in Ids \ {Fresh} : conns'[c] = conns[c], conns'[Fresh].session = "none",
           Head(job'[a].todo) \notin Waits \union {"drain", "list", "index"}
    PROVE  LeakInv'
<1> DEFINE n == job[a].name
<1>1. job[a].todo # <<>> /\ n \in Names /\ job[a].conn = None
  BY Heads DEF LeakInv
<1>2. s # "drain" /\ Fresh \in Ids
  BY FreshUnused DEF Before
<1>3. Teardown'
  BY <1>2, TeardownKept DEF LeakInv, NoNewDrain, At
<1>4. \A m \in Names : servers'[m] = IF m = n THEN Fresh ELSE servers[m]
  BY DEF LeakInv, Shapes
<1>5. Entering(a)'
  BY <1>1, <1>4 DEF Entering, Vacant, At, Same
<1>6. ASSUME Alone, NEW c \in Ids, conns'[c].session = "open" PROVE Known(c)'
  <2>1. c # Fresh /\ conns[c].session = "open" /\ Known(c) /\ Entering(a)
    BY <1>6 DEF LeakInv, Replacing
  <2>2. servers[n] # c
    BY <2>1 DEF Entering, Vacant, At, IdsAssumption
  <2> QED
    BY <1>1, <1>4, <2>1, <2>2 DEF Known, Others, IdsAssumption
<1> QED
  BY <1>1, <1>3, <1>4, <1>5, <1>6, LeakKept

LEMMA SetupLeak ==
    ASSUME LeakInv, IdsAssumption, NEW a \in Actors, SetupOAuth(a)
    PROVE  LeakInv'
<1> DEFINE r == [Conn(job[a].name, job[a].cfg, "none") EXCEPT !.handler = TRUE]
<1>1. /\ At(a, "oauth") /\ Jobs' /\ Others(a) /\ Same(a) /\ job'[a].conn = None
      /\ job[a].op \in DOMAIN Closing /\ job'[a].todo # <<>>
      /\ \/ Head(job'[a].todo) = "connect"
         \/ Head(job'[a].todo) \in After(job[a].op, "index")
  BY SetupMoves DEF LeakInv
<1>2. Shapes' /\ NoNewDrain /\ UNCHANGED <<starting, setting>>
  BY ManagerShapes DEF LeakInv, SetupOAuth, rest
<1>3. "oauth" \in Before /\ "oauth" \notin Holding /\ "oauth" \in Steps
  BY DEF Before, Holding, Steps
<1>4. Head(job'[a].todo) \notin Waits \union {"drain", "list", "index"}
  <2>1. "connect" \notin Waits \union {"drain", "list", "index"}
    BY DEF Waits
  <2>2. After(job[a].op, "index") \cap Waits = {} /\ After(job[a].op, "index") \cap {"drain", "list", "index"} = {}
    BY <1>1, Leads DEF Steps
  <2> QED
    BY <1>1, <2>1, <2>2
<1>5. job[a].conn = None
  BY <1>1, <1>3, Heads DEF LeakInv
<1>6. CASE UNCHANGED manager
  <2>1. UNCHANGED <<servers, reaping, conns>>
    BY <1>6 DEF manager
  <2> QED
    BY <1>1, <1>2, <1>3, <1>4, <1>5, <2>1, StillLeak
<1>7. CASE ~UNCHANGED manager
  <2>1. /\ Unused # {} /\ conns' = [conns EXCEPT ![Fresh] = r] /\ UNCHANGED reaping
        /\ servers' = [servers EXCEPT ![job[a].name] = Fresh]
    BY <1>7 DEF SetupOAuth
  <2>2. r.session = "none"
    BY ConnShape
  <2> HIDE DEF r
  <2>3. (\A c \in Ids \ {Fresh} : conns'[c] = conns[c]) /\ conns'[Fresh].session = "none"
    BY <2>1, <2>2, FreshUnused DEF LeakInv, Shapes
  <2> QED
    BY <1>1, <1>2, <1>3, <1>4, <2>1, <2>3, EnteredLeak
<1> QED
  BY <1>6, <1>7

LEMMA EnterLeak ==
    ASSUME LeakInv, IdsAssumption, NEW a \in Actors, Shelve(a) \/ Hold(a)
    PROVE  LeakInv'
<1>1. PICK s \in {"shelve", "hold"}, mark \in {"user", ""} : Enter(a, s, mark) /\ Advance(a)
  BY DEF Shelve, Hold
<1> DEFINE r == Placeholder(job[a].name, job[a].cfg, mark)
<1>2. /\ At(a, s) /\ Unused # {} /\ conns' = [conns EXCEPT ![Fresh] = r]
      /\ servers' = [servers EXCEPT ![job[a].name] = Fresh]
      /\ UNCHANGED <<reaping, starting, setting>>
  BY <1>1 DEF Enter, rest
<1>3. s \in Before /\ s \notin Holding /\ s \in Steps /\ s \notin Final
  BY DEF Before, Holding, Steps, Final
<1>4. /\ GoesOn(a) /\ Jobs' /\ Head(job'[a].todo) \in After(job[a].op, s)
      /\ job[a].op \in DOMAIN Closing
  BY <1>1, <1>2, <1>3, AdvanceMoves DEF LeakInv
<1>5. Head(job'[a].todo) \notin Waits \union {"drain", "list", "index"}
  BY <1>3, <1>4, Leads
<1>6. Shapes' /\ NoNewDrain
  BY <1>1, EnterShapes DEF LeakInv
<1>7. r.session = "none"
  BY DEF Placeholder, Conn
<1> HIDE DEF r
<1>8. (\A c \in Ids \ {Fresh} : conns'[c] = conns[c]) /\ conns'[Fresh].session = "none"
  BY <1>2, <1>7, FreshUnused DEF LeakInv, Shapes
<1> QED
  BY <1>2, <1>3, <1>4, <1>5, <1>6, <1>8, EnteredLeak DEF GoesOn

(* The goroutines that take no part in the lock do not run here.           *)
LEMMA ActorLeak ==
    ASSUME LeakInv, IdsAssumption, HealthStep \/ BootStep \/ OAuthStep
    PROVE  LeakInv' /\ ~Alone
<1>1. PICK a \in {"health", "boot", "oauth"} :
         /\ Jobs' /\ Others(a)
         /\ \E s \in {"probe", "backoff", "reinsert", "healed", "clear", "initiate"} \union Waits :
               At(a, s) /\ (s \in Waits => a = "boot") /\ (a = "boot" => s \in Waits)
         /\ ~At(a, "drain")
  BY HealthMoves, BootMoves, OAuthMoves DEF LeakInv, Waits, Holding
<1>2. a \in Actors /\ job[a].todo # <<>>
  BY <1>1 DEF Actors, At
<1>3. ~Alone
  BY <1>1, <1>2, Solo DEF LeakInv
<1>4. Shapes' /\ NoNewDrain
  BY ActorShapes DEF LeakInv
<1>5. UNCHANGED <<reaping, setting>>
  BY DEF HealthStep, BootStep, OAuthStep, ProbeAnswered, ProbeFailed, Backoff, Reinsert, Healed,
         Pending, Enter, Retry, GiveUp, ClearToken, Initiate, manager, rest
<1>6. Teardown'
  BY <1>1, <1>2, <1>4, <1>5, TeardownKept DEF LeakInv, NoNewDrain
<1> QED
  BY <1>1, <1>3, <1>4, <1>5, <1>6 DEF LeakInv, OneAtATime, Replacing, Alone

(* An operation begins.                                                    *)
LEMMA OperateIs ==
    ASSUME Jobs, SettledAssumption, NEW n \in Targets, Operate(n)
    PROVE  /\ n \in Names /\ Free
           /\ \E op \in Roles["lifecycle"] : \E cfg, heads :
                 /\ Starts("lifecycle", op, n, cfg, heads) /\ job'["lifecycle"].tries = 0
                 /\ \/ heads \cap {"lookup", "connect"} = {}
                    \/ servers[n] = None
                 /\ heads \subseteq {"lookup", "connect", "unpublish", "saveHeld", "savePlugin"}
           /\ UNCHANGED <<servers, reaping, starting, setting>>
<1> DEFINE L == "lifecycle"
           Good(op, cfg, heads) ==
              /\ op \in Roles[L] /\ Starts(L, op, n, cfg, heads) /\ job'[L].tries = 0
              /\ heads \cap {"lookup", "connect"} = {} \/ servers[n] = None
              /\ heads \subseteq {"lookup", "connect", "unpublish", "saveHeld", "savePlugin"}
<1>1. n \in Names
  BY DEF SettledAssumption
<1>2. Free /\ UNCHANGED <<servers, reaping, starting, setting>>
  BY DEF Operate, AddTool, UpdateTool, RemoveTool, RestartTool, DisableTool, EnableTool, Withhold,
         AddPlugin, RemovePlugin, Begin, manager
<1>3. \A op \in {"add", "remove", "update", "restart", "disable", "enable", "withhold",
                 "addPlugin", "removePlugin"} : op \in Roles[L]
  BY Closes DEF Roles
<1> HIDE DEF L
<1>4. ASSUME NEW cfg \in Adds, AddTool(n, cfg) PROVE Good("add", cfg, {"lookup", "connect"})
  <2>1. servers[n] = None
    BY <1>4 DEF AddTool, Admits
  <2> QED
    BY <1>1, <1>3, <1>4, <2>1, BeginMoves DEF L
<1>5. ASSUME NEW cfg \in Edits, UpdateTool(n, cfg)
      PROVE  Good("update", Merged(cfg, Current(n)), {"unpublish"})
  BY <1>1, <1>3, <1>5, BeginMoves DEF L
<1>6. ASSUME NEW held \in Helds, Withhold(n, held)
      PROVE  Good("withhold", [Current(n) EXCEPT !.held = held], {"saveHeld"})
  BY <1>1, <1>3, <1>6, BeginMoves DEF L
<1>7. ASSUME NEW tools \in BOOLEAN, AddPlugin(n, tools)
      PROVE  Good("addPlugin", IF tools THEN PluginCfg ELSE NoCfg,
                  IF tools THEN {"lookup", "connect"} ELSE {"savePlugin"})
  <2>1. servers[n] = None
    BY <1>7 DEF AddPlugin, Admits
  <2>2. /\ Starts(L, "addPlugin", n, IF tools THEN PluginCfg ELSE NoCfg,
                  IF tools THEN {"lookup", "connect"} ELSE {"savePlugin"})
        /\ job'[L].tries = 0
    BY <1>1, <1>7, BeginMoves DEF L
  <2> QED
    BY <1>3, <2>1, <2>2
<1>8. /\ RemoveTool(n) => Good("remove", NoCfg, {"unpublish"})
      /\ RestartTool(n) => Good("restart", Current(n), {"unpublish"})
      /\ DisableTool(n) => Good("disable", [Current(n) EXCEPT !.on = "off"], {"unpublish"})
      /\ EnableTool(n) => Good("enable", [Current(n) EXCEPT !.on = "on"], {"unpublish"})
      /\ RemovePlugin(n) => Good("removePlugin", NoCfg, {"unpublish"})
  BY <1>1, <1>3, BeginMoves DEF L
<1>9. \E op, cfg, heads : Good(op, cfg, heads)
  <2> HIDE DEF Good
  <2> QED
    BY <1>4, <1>5, <1>6, <1>7, <1>8 DEF Operate
<1> QED
  BY <1>1, <1>2, <1>9 DEF L

(* A goroutine that has nothing to do takes up a job, next to nobody.      *)
LEMMA StartLeak ==
    ASSUME LeakInv, IdsAssumption, NEW a \in {"boot", "lifecycle"}, NEW op, NEW n \in Names,
           op \in Roles[a] \ {"retry"},
           NEW cfg, NEW heads, Starts(a, op, n, cfg, heads), job[a] = Idle,
           Alone => /\ job'[a].tries = 0
                    /\ \A b \in Actors : job[b].todo = <<>>
                    /\ n \notin starting' /\ (starting' # {} => a = "boot")
                    /\ heads \cap (Waits \union {"drain", "list", "index"}) = {}
                    /\ heads \cap Before = {} \/ servers[n] = None,
           UNCHANGED <<servers, reaping, setting>>, starting' \subseteq starting,
           Shapes', NoNewDrain,
           \A c \in Ids : conns'[c].session = conns[c].session
    PROVE  LeakInv'
<1>1. a \in Actors /\ Jobs' /\ Others(a) /\ job'[a].todo # <<>> /\ Head(job'[a].todo) \in heads
      /\ job'[a].name = n /\ job'[a].op = op /\ job'[a].conn = None
  BY DEF Actors, Starts
<1>2. job[a].todo = <<>> /\ job[a].conn = None /\ ~At(a, "drain")
  BY Idles DEF At
<1>3. Teardown'
  BY <1>1, <1>2, TeardownKept DEF LeakInv, NoNewDrain
<1> SUFFICES ASSUME Alone PROVE OneAtATime' /\ Replacing'
  BY <1>1, <1>3 DEF LeakInv, OneAtATime, Replacing, Alone
<1>4. /\ job["health"] = Idle /\ job["oauth"] = Idle
      /\ \A b \in Actors : /\ job[b].tries = 0 /\ job[b].op # "retry"
                           /\ job[b].op = "boot" <=> b = "boot" /\ job[b].todo # <<>>
      /\ \A m \in starting \cap Names : servers[m] = None
  BY DEF LeakInv, OneAtATime
<1>5. job'[a].op # "retry" /\ (job'[a].op = "boot" <=> a = "boot")
  BY <1>1 DEF Roles
<1>6. \A b \in Actors \ {a} : job'[b] = job[b] /\ job'[b].todo = <<>>
  BY <1>1 DEF Others
<1>7. \A s \in Waits : ~At(a, s)'
  BY <1>1 DEF At
<1>8. OneAtATime'
  <2>1. /\ job'["health"] = Idle /\ job'["oauth"] = Idle
        /\ starting' # {} \/ job'["boot"].todo # <<>> => job'["lifecycle"].todo = <<>>
    BY <1>4, <1>6 DEF Actors
  <2>2. \A b \in Actors : /\ job'[b].tries = 0 /\ job'[b].op # "retry"
                          /\ job'[b].op = "boot" <=> b = "boot" /\ job'[b].todo # <<>>
    BY <1>1, <1>4, <1>5, <1>6
  <2>3. \A b \in Actors : \A s \in Waits : ~At(b, s)'
    BY <1>6, <1>7 DEF At
  <2>4. \A m \in starting' \cap Names :
           servers'[m] = None /\ (\A b \in Actors : job'[b].todo # <<>> => job'[b].name # m)
    BY <1>1, <1>4, <1>6
  <2> QED
    BY <2>1, <2>2, <2>3, <2>4 DEF OneAtATime
<1>9. \A b \in Actors : Entering(b)'
  <2>1. \A b \in Actors \ {a} : Entering(b)'
    BY <1>6 DEF Entering, At
  <2>2. Entering(a)'
    BY <1>1 DEF Entering, At, Vacant
  <2> QED
    BY <2>1, <2>2
<1>10. ASSUME NEW c \in Ids, conns'[c].session = "open" PROVE Known(c)'
  <2>1. Known(c)
    BY <1>10 DEF LeakInv, Replacing
  <2> QED
    BY <1>2, <1>6, <2>1 DEF Known, IdsAssumption
<1> QED
  BY <1>8, <1>9, <1>10 DEF Replacing

LEMMA OperateLeak ==
    ASSUME LeakInv, IdsAssumption, SettledAssumption, NEW n \in Targets, Operate(n)
    PROVE  LeakInv'
<1>1. n \in Names /\ Free /\ UNCHANGED <<servers, reaping, starting, setting>>
  BY OperateIs DEF LeakInv
<1>2. PICK op \in Roles["lifecycle"] : \E cfg, heads :
         /\ Starts("lifecycle", op, n, cfg, heads) /\ job'["lifecycle"].tries = 0
         /\ heads \cap {"lookup", "connect"} = {} \/ servers[n] = None
         /\ heads \subseteq {"lookup", "connect", "unpublish", "saveHeld", "savePlugin"}
  BY OperateIs DEF LeakInv
<1>3. PICK cfg, heads :
         /\ Starts("lifecycle", op, n, cfg, heads) /\ job'["lifecycle"].tries = 0
         /\ heads \cap {"lookup", "connect"} = {} \/ servers[n] = None
         /\ heads \subseteq {"lookup", "connect", "unpublish", "saveHeld", "savePlugin"}
  BY <1>2
<1>4. Shapes' /\ NoNewDrain
  BY OperateShapes DEF LeakInv
<1>5. \A c \in Ids : conns'[c].session = conns[c].session
  <2>1. \/ UNCHANGED conns
        \/ \E held : conns' = [conns EXCEPT ![servers[n]].off = held, ![servers[n]].cfg.held = held]
    BY DEF Operate, AddTool, UpdateTool, RemoveTool, RestartTool, DisableTool, EnableTool, Withhold,
           AddPlugin, RemovePlugin, manager
  <2>2. CASE \E held : conns' = [conns EXCEPT ![servers[n]].off = held, ![servers[n]].cfg.held = held]
    <3>1. PICK held : conns' = [conns EXCEPT ![servers[n]].off = held, ![servers[n]].cfg.held = held]
      BY <2>2
    <3> QED
      BY <3>1 DEF LeakInv, Shapes, ConnFields
  <2> QED
    BY <2>1, <2>2
<1>6. Alone => \A b \in Actors : job[b].todo = <<>>
  BY <1>1, Idles DEF LeakInv, OneAtATime, Actors, Free, Started
<1>7. /\ heads \cap (Waits \union {"drain", "list", "index"}) = {}
      /\ heads \cap Before = {} \/ servers[n] = None
  BY <1>3 DEF Waits, Before
<1>8. op # "retry" /\ starting = {} /\ job["lifecycle"] = Idle
  BY <1>1 DEF Roles, Free, Started
<1> QED
  BY <1>1, <1>2, <1>3, <1>4, <1>5, <1>6, <1>7, <1>8, StartLeak

LEMMA BootToolLeak ==
    ASSUME LeakInv, IdsAssumption, SettledAssumption, BoundsAssumption, NEW n \in Targets, BootTool(n)
    PROVE  LeakInv'
<1>1. n \in Names
  BY DEF SettledAssumption
<1>2. /\ UNCHANGED <<servers, reaping, conns, setting>> /\ starting' = starting \ {n} /\ n \in starting
      /\ Shapes' /\ NoNewDrain
  BY OperateShapes DEF LeakInv, BootTool, manager
<1>3. /\ Jobs' /\ Others("boot") /\ job["boot"] = Idle
      /\ \/ UNCHANGED job
         \/ /\ Starts("boot", "boot", n, file[n], {"shelve", "lookup", "connect"})
            /\ Alone => job'["boot"].tries = 0
  BY <1>1, BootToolMoves DEF LeakInv
<1>4. CASE UNCHANGED job
  BY <1>2, <1>3, <1>4 DEF LeakInv, Teardown, Attended, At, OneAtATime, Replacing, Alone, Entering, Vacant, Known
<1>5. CASE /\ Starts("boot", "boot", n, file[n], {"shelve", "lookup", "connect"})
           /\ Alone => job'["boot"].tries = 0
  <2>1. Alone => servers[n] = None /\ \A b \in Actors : job[b].todo = <<>>
    BY <1>1, <1>2, <1>3, Idles DEF LeakInv, OneAtATime, Actors
  <2>2. {"shelve", "lookup", "connect"} \cap (Waits \union {"drain", "list", "index"}) = {}
    BY DEF Waits
  <2>3. "boot" \in Roles["boot"] \ {"retry"}
    BY DEF Roles
  <2> QED
    BY <1>1, <1>2, <1>3, <1>5, <2>1, <2>2, <2>3, StartLeak
<1> QED
  BY <1>3, <1>4, <1>5

LEMMA RivalLeak ==
    ASSUME LeakInv, SettledAssumption, NEW n \in Targets, Probe(n) \/ Reconnect(n)
    PROVE  LeakInv' /\ ~Alone
<1>1. n \in Names
  BY DEF SettledAssumption
<1>2. ~Alone /\ UNCHANGED <<reaping, setting>>
  BY DEF Alone, Probe, Reconnect, rest, manager, Begin
<1>3. Shapes' /\ NoNewDrain
  BY OperateShapes DEF LeakInv
<1>4. PICK a \in {"health", "oauth"} : Jobs' /\ Others(a) /\ job[a] = Idle
  BY <1>1, ProbeMoves, BeginMoves DEF LeakInv, Starts, Reconnect
<1>5. Teardown'
  BY <1>2, <1>3, <1>4, Idles, TeardownKept DEF LeakInv, NoNewDrain, Actors, At
<1> QED
  BY <1>2, <1>3, <1>4, <1>5 DEF LeakInv, OneAtATime, Replacing, Alone

LEMMA ReapLeak ==
    ASSUME LeakInv, NEW r \in Ids, Reap(r)
    PROVE  LeakInv'
<1>1. /\ Shapes' /\ reaping' = reaping \ {r} /\ UNCHANGED <<job, servers, starting, setting>>
      /\ \A c \in Ids : /\ conns'[c].drain = IF c = r THEN "closed" ELSE conns[c].drain
                        /\ conns'[c].session = "open" => c # r /\ conns[c].session = "open"
  BY ReapShapes DEF LeakInv
<1>2. Jobs' /\ OneAtATime'
  BY <1>1 DEF LeakInv, Jobs, OneAtATime, Alone, At
<1>3. Teardown'
  BY <1>1 DEF LeakInv, Teardown, Attended, At
<1>4. Replacing'
  <2>1. ASSUME NEW a \in Actors, Entering(a) PROVE Entering(a)'
    BY <1>1, <2>1 DEF Entering, Vacant, At, LeakInv, Jobs, Ready, Shapes
  <2>2. ASSUME NEW c \in Ids, Known(c), conns'[c].session = "open" PROVE Known(c)'
    BY <1>1, <2>2 DEF Known
  <2> QED
    BY <1>1, <2>1, <2>2 DEF LeakInv, Replacing, Alone
<1> QED
  BY <1>1, <1>2, <1>3, <1>4 DEF LeakInv

LEMMA OutsideLeak ==
    ASSUME LeakInv, Outside
    PROVE  LeakInv'
<1>1. Shapes' /\ NoNewDrain /\ UNCHANGED <<job, reaping, servers, starting, setting>>
  BY OutsideShapes DEF LeakInv
<1>2. \A c \in Ids : conns'[c].session = "open" => conns[c].session = "open"
  <2>1. CASE \E x \in Callers : Call(x) \/ Return(x)
    <3>1. \E c, s : conns' = [conns EXCEPT ![c].calls = s]
      BY <2>1 DEF Call, Return
    <3> QED
      BY <3>1 DEF LeakInv, Shapes, ConnFields
  <2>2. CASE \E n \in Targets : GoDown(n)
    <3>1. \A c \in Ids : conns'[c] = conns[c] \/ conns'[c] = [conns[c] EXCEPT !.session = "broken"]
      BY <2>2 DEF GoDown
    <3> QED
      BY <3>1 DEF LeakInv, Shapes, ConnFields
  <2>3. CASE \E c \in Ids : RetryDue(c)
    BY <2>3 DEF RetryDue, LeakInv, Shapes, ConnFields
  <2>4. CASE \E n \in Targets : ComeUp(n)
    BY <2>4 DEF ComeUp, manager
  <2>5. CASE \E c \in Ids : Expire(c)
    BY <2>5, ExpireIs DEF LeakInv
  <2> QED
    BY <2>1, <2>2, <2>3, <2>4, <2>5 DEF Outside
<1>3. Jobs' /\ OneAtATime'
  BY <1>1 DEF LeakInv, Jobs, OneAtATime, Alone, At
<1>4. Teardown'
  BY <1>1 DEF LeakInv, Teardown, Attended, At, NoNewDrain
<1>5. Replacing'
  <2>1. ASSUME NEW a \in Actors, Entering(a) PROVE Entering(a)'
    BY <1>1, <1>2, <2>1 DEF Entering, Vacant, At, LeakInv, Jobs, Ready, Shapes
  <2>2. ASSUME NEW c \in Ids, Known(c) PROVE Known(c)'
    BY <1>1, <2>2 DEF Known
  <2> QED
    BY <1>1, <1>2, <2>1, <2>2 DEF LeakInv, Replacing, Alone
<1> QED
  BY <1>1, <1>3, <1>4, <1>5 DEF LeakInv

LEMMA LeakNext ==
    ASSUME LeakInv, IdsAssumption, SettledAssumption, BoundsAssumption, Next
    PROVE  LeakInv'
<1>1. ASSUME NEW a \in Actors, Step(a) PROVE LeakInv'
  <2>1. CASE Finish(a) \/ Unpublish(a) \/ Drained(a) \/ LookUp(a) \/ SetupOAuth(a)
    BY <2>1, FinishLeak, UnpublishLeak, DrainLeak, LookUpLeak, SetupLeak
  <2>2. CASE Connect(a) \/ Publish(a) \/ ListTools(a) \/ Index(a) \/ Shelve(a) \/ Hold(a) \/ WriteFile(a)
    BY <2>2, ConnectLeak, PublishLeak, ListLeak, IndexLeak, EnterLeak, WriteLeak
  <2>3. CASE HealthStep \/ BootStep \/ OAuthStep
    BY <2>3, ActorLeak
  <2> QED
    BY <1>1, <2>1, <2>2, <2>3 DEF Step, HealthStep, BootStep, OAuthStep
<1>2. ASSUME NEW n \in Targets, Operate(n) \/ Probe(n) \/ BootTool(n) \/ Reconnect(n) PROVE LeakInv'
  BY <1>2, OperateLeak, RivalLeak, BootToolLeak
<1>3. ASSUME NEW c \in Ids, Reap(c) PROVE LeakInv'
  BY <1>3, ReapLeak
<1>4. CASE Outside
  BY <1>4, OutsideLeak
<1> QED
  BY <1>1, <1>2, <1>3, <1>4 DEF Next, Operate, Outside

LEMMA LeakStutter ==
    ASSUME LeakInv, UNCHANGED vars
    PROVE  LeakInv'
BY DEF LeakInv, vars, manager, disk, rest, Shapes, Jobs, Teardown, Attended, OneAtATime, Replacing,
       Alone, Entering, Vacant, Known, At

LEMMA LeakInit ==
    ASSUME Init, IdsAssumption, SettledAssumption
    PROVE  LeakInv
<1> DEFINE Of(c) == CHOOSE m \in DOMAIN Settled : Settled[m] = c
<1>1. /\ servers = [n \in Names |-> IF n \in DOMAIN Settled THEN Settled[n] ELSE None]
      /\ reaping = {} /\ job = [a \in Actors |-> Idle] /\ starting = Targets
  BY DEF Init
<1>2. DOMAIN file = Names
  BY DEF Init
<1>3. PICK lists : conns = [c \in Ids |->
         IF \E n \in DOMAIN Settled : Settled[n] = c
         THEN [Conn(Of(c), [NoCfg EXCEPT !.gen = 1, !.transport = "stdio"], "open") EXCEPT !.tools = lists[Of(c)]]
         ELSE Conn(<<>>, NoCfg, "none")]
  BY Zenon DEF Init
<1>4. \A n, cfg, l : /\ DOMAIN [Conn(n, cfg, "open") EXCEPT !.tools = l] = ConnFields
                    /\ [Conn(n, cfg, "open") EXCEPT !.tools = l].drain = "live"
  BY DEF Conn, ConnFields
<1>5. /\ DOMAIN Conn(<<>>, NoCfg, "none") = ConnFields
      /\ Conn(<<>>, NoCfg, "none").drain = "live" /\ Conn(<<>>, NoCfg, "none").session = "none"
  BY ConnShape
<1>6. /\ DOMAIN conns = Ids
      /\ \A c \in Ids : /\ DOMAIN conns[c] = ConnFields /\ conns[c].drain = "live"
                        /\ conns[c].session = "open" => \E n \in DOMAIN Settled : Settled[n] = c
  <2> HIDE DEF Of
  <2> QED
    BY <1>3, <1>4, <1>5
<1>7. Shapes
  BY <1>1, <1>2, <1>6 DEF Shapes, SettledAssumption
<1>8. Jobs
  BY <1>1, Idles DEF Jobs
<1>9. Teardown
  BY <1>6 DEF Teardown
<1>10. OneAtATime
  BY <1>1, Idles DEF OneAtATime, SettledAssumption, At, Actors
<1>11. Replacing
  BY <1>1, <1>6, Idles DEF Replacing, Entering, Known, At, SettledAssumption
<1> QED
  BY <1>7, <1>8, <1>9, <1>10, <1>11 DEF LeakInv

(* No server process is forgotten, and no teardown is left unfinished: an  *)
(* open session belongs to a listed server or to the goroutine that        *)
(* connects or drains it.                                                  *)
THEOREM NothingIsForgotten == Spec => []NothingLeaks
<1>1. Init => LeakInv
  BY LeakInit, IdsAssumption, SettledAssumption
<1>2. LeakInv /\ [Next]_vars => LeakInv'
  BY LeakNext, LeakStutter, IdsAssumption, SettledAssumption, BoundsAssumption
<1>3. LeakInv => NothingLeaks
  BY DEF LeakInv, Teardown, Attended, Replacing, Known, NothingLeaks, Busy
<1> QED
  BY <1>1, <1>2, <1>3, PTL DEF Spec

-----------------------------------------------------------------------------
(* The file and what runs.                                                 *)

Kept(c)  == conns'[c].name = conns[c].name /\ conns'[c].cfg = conns[c].cfg
Stays(n) == servers'[n] = servers[n] /\ (servers[n] # None => Kept(servers[n]))

LEMMA ElsewhereSaved ==
    ASSUME SaveInv, UNCHANGED <<file, plugins>>, NEW n \in Names, Stays(n), Saved(n)
    PROVE  Saved(n)'
BY DEF Saved, Current, Stays, Kept

(* What a step does to the operation it belongs to, when that step writes  *)
(* nothing.                                                                *)
LEMMA WritesNothing ==
    ASSUME NEW a, job[a].op \in DOMAIN Closing \ {"heal", "retry", "reconnect"}, Same(a),
           UNCHANGED <<file, plugins>>,
           NEW r \in Steps \ (Writes \union {"giveUp"}), ~At(a, "done"),
           Head(job'[a].todo) \in After(job[a].op, r),
           Written(a), Listing(a)
    PROVE  Written(a)' /\ Listing(a)'
<1>1. At(a, "done")' => job[a].op \in {"restart", "boot"}
  <2>1. "done" \in After(job[a].op, r) => job[a].op \in {"restart", "boot"}
    <3>1. Closing[job[a].op] = "done" => job[a].op \in {"restart", "boot"}
      BY Closes
    <3>2. /\ After(job[a].op, "drain") \subseteq {"fail", Closing[job[a].op], "shelve", "hold", "reinsert", "lookup", "connect"}
          /\ \A s \in {"index", "shelve"} : "done" \in After(job[a].op, s) => Closing[job[a].op] = "done"
      BY Afters DEF After, Follower
    <3>3. \A s \in {"unpublish", "hold", "reinsert", "clear", "backoff", "lookup", "oauth", "connect", "publish",
                    "list"} \union Final : "done" \notin After(job[a].op, s)
      BY Afters
    <3>4. r \in {"unpublish", "hold", "reinsert", "clear", "backoff", "lookup", "oauth", "connect", "publish",
                 "list", "index", "shelve", "drain"} \union Final
      BY DEF Steps, Writes, Final
    <3>5. CASE r = "drain"
      BY <3>1, <3>2, <3>5
    <3>6. CASE r \in {"index", "shelve"}
      BY <3>1, <3>2, <3>6
    <3>7. CASE r \notin {"drain", "index", "shelve"}
      BY <3>3, <3>4, <3>7
    <3> QED
      BY <3>5, <3>6, <3>7
  <2> QED
    BY <2>1 DEF At
<1>2. job'[a].op = job[a].op /\ job'[a].name = job[a].name /\ job'[a].cfg = job[a].cfg
  BY DEF Same
<1>3. Written(a)'
  BY <1>1, <1>2 DEF Written
<1>4. Listing(a)'
  BY <1>1, <1>2 DEF Listing
<1> QED
  BY <1>3, <1>4

(* A step that writes nothing.                                             *)
LEMMA SaveKept ==
    ASSUME LeakInv, SaveInv, NEW a \in Actors, job[a].todo # <<>>, Others(a), Same(a),
           job'[a].todo # <<>>, UNCHANGED <<file, plugins, sections, starting, setting, failed>>,
           NEW r \in Steps \ (Writes \union {"giveUp"}), ~At(a, "done"),
           \/ /\ Head(job'[a].todo) \in After(job[a].op, r)
              /\ Last(job'[a].todo) = Last(job[a].todo)
           \/ Alone => Last(job'[a].todo) = "fail",
           \A n \in Names \ {job[a].name} : Stays(n),
           Alone => LET n == job[a].name IN
              /\ servers'[n] # None => conns'[servers'[n]].name = n
              /\ job'[a].conn # None => conns'[job'[a].conn].name = n
              /\ Head(job'[a].todo) \in {"publish", "list", "index"} => conns'[job'[a].conn].cfg = job[a].cfg
              /\ ~failed /\ ~Failing(a) /\ Placed(a) /\ Last(job'[a].todo) # "fail" => Placed(a)'
    PROVE  SaveInv'
<1> SUFFICES ASSUME Alone PROVE Named' /\ InStep'
  BY DEF SaveInv, Named, InStep, Alone
<1> DEFINE n == job[a].name
<1>1. /\ job[a].op \in DOMAIN Closing \ {"heal", "retry", "reconnect"} /\ n \in Names \ starting
      /\ \A b \in Actors \ {a} : job[b].todo = <<>> /\ job[b].conn = None
  BY Solo DEF LeakInv
<1>2. \A b \in Actors \ {a} : job'[b] = job[b]
  BY DEF Others
<1>3. \A m \in Names : servers'[m] # None => conns'[servers'[m]].name = m
  BY DEF SaveInv, Named, Stays, Kept
<1>4. Named'
  BY <1>1, <1>2, <1>3 DEF Named, At, Same
<1>5. ASSUME ~failed PROVE InStep'
  <2>1. \A m \in starting' : m \notin plugins'
    BY <1>5 DEF SaveInv, InStep
  <2>2. ASSUME NEW m \in Names \ starting', ~ \E b \in Actors : job'[b].todo # <<>> /\ job'[b].name = m
        PROVE  Saved(m)'
    <3>1. m # n /\ ~ \E b \in Actors : job[b].todo # <<>> /\ job[b].name = m
      BY <1>1, <2>2 DEF Same
    <3>2. Saved(m)
      BY <1>5, <3>1 DEF SaveInv, InStep
    <3> QED
      BY <3>1, <3>2, ElsewhereSaved
  <2>3. ASSUME Last(job'[a].todo) # "fail" PROVE Going(a)'
    <3>1. /\ ~Failing(a) /\ Head(job'[a].todo) \in After(job[a].op, r)
      BY <2>3 DEF Failing
    <3>2. Going(a)
      BY <1>5, <3>1 DEF SaveInv, InStep
    <3>3. Written(a)' /\ Listing(a)'
      BY <1>1, <3>1, <3>2, WritesNothing DEF Going
    <3>4. Placed(a)'
      BY <1>5, <2>3, <3>1, <3>2 DEF Going
    <3> QED
      BY <3>3, <3>4 DEF Going
  <2>4. \A b \in Actors \ {a} : job'[b].todo = <<>>
    BY <1>1, <1>2
  <2> QED
    BY <2>1, <2>2, <2>3, <2>4 DEF InStep, Failing
<1> QED
  BY <1>4, <1>5 DEF InStep

LEMMA Ends ==
    ASSUME NEW op, NEW todo \in Seq(Steps), todo # <<>>, Planned(op, todo), Head(todo) \in Final
    PROVE  Last(todo) = Head(todo)
<1> DEFINE left == Tail(todo)  n == Len(todo)
<1>1. left = <<>>
  BY TailPlanned
<1>2. n = 1 /\ Head(todo) = todo[1]
  <2>1. Len(left) = n - 1 /\ n \in Nat /\ Head(todo) = todo[1]
    BY EmptySeq, HeadTailProperties
  <2> HIDE DEF left, n
  <2> QED
    BY <1>1, <2>1
<1> QED
  BY <1>2 DEF Last

LEMMA EndsFailing ==
    ASSUME Jobs, NEW a \in Actors, job[a].todo # <<>>
    PROVE  \A s \in Final : Head(job[a].todo) = s => Last(job[a].todo) = s
BY Ends DEF Jobs, Ready

Settling == {"list", "index", "done"} \union Writes

LEMMA PlacedWhen ==
    ASSUME NEW a, NEW s, At(a, s), s \notin Writes \union {"unpublish", "drain", "done"},
           Same(a), Placed(a), job[a].op \in DOMAIN Closing,
           LET n == job[a].name IN
              Head(job'[a].todo) \in Settling =>
                 servers'[n] # None /\ conns'[servers'[n]].cfg = job[a].cfg
    PROVE  Placed(a)'
<1>1. job[a].op \notin Removing
  BY Closes DEF Placed, At, Removing, Writes
<1> QED
  BY <1>1 DEF Placed, Same, Settling, Current

(* What comes after the server is gone puts nothing in its place yet.      *)
LEMMA PlacedGone ==
    ASSUME LeakInv, NEW a \in Actors, Same(a), Jobs', job'[a].todo # <<>>, job[a].op \in DOMAIN Closing,
           servers'[job[a].name] = None,
           Head(job'[a].todo) \in {"drain", "fail"} \union After(job[a].op, "drain"),
           Last(job'[a].todo) # "fail"
    PROVE  Placed(a)'
<1>1. Head(job'[a].todo) # "fail"
  <2>1. \A s \in Final : Head(job'[a].todo) = s => Last(job'[a].todo) = s
    BY Ends DEF Jobs, Ready
  <2> QED
    BY <2>1 DEF Final
<1>2. /\ job[a].op \in Removing => After(job[a].op, "drain") = {"fail", Closing[job[a].op]}
      /\ job[a].op \notin Removing =>
            After(job[a].op, "drain") = {"fail", "shelve", "hold", "reinsert", "lookup", "connect"}
  BY Afters
<1>3. {"drain", "shelve", "hold", "reinsert", "lookup", "connect"} \cap Settling = {}
  BY DEF Settling, Writes
<1>4. job'[a].op = job[a].op /\ job'[a].name = job[a].name
  BY DEF Same
<1>5. CASE job[a].op \in Removing
  BY <1>1, <1>2, <1>4, <1>5 DEF Placed
<1>6. CASE job[a].op \notin Removing
  BY <1>1, <1>2, <1>3, <1>4, <1>6 DEF Placed, Settling
<1> QED
  BY <1>5, <1>6

LEMMA UnpublishSave ==
    ASSUME ToolsInv, IdsAssumption, NEW a \in Actors, Unpublish(a)
    PROVE  SaveInv'
<1> DEFINE n == job[a].name  c == servers[n]
<1>1. /\ At(a, "unpublish") /\ Jobs' /\ Others(a) /\ Same(a) /\ job'[a].todo # <<>>
      /\ IF c = None
         THEN /\ job'[a].conn = None
              /\ \/ job'[a].todo = <<"fail">>
                 \/ /\ Head(job'[a].todo) \in After(job[a].op, "drain")
                    /\ Last(job'[a].todo) = Last(job[a].todo)
         ELSE /\ Head(job'[a].todo) = "drain" /\ job'[a].conn = c
              /\ Head(job'[a].todo) \in After(job[a].op, "unpublish")
              /\ Last(job'[a].todo) = Last(job[a].todo)
  BY UnpublishMoves DEF ToolsInv, LeakInv, GoesOn, At
<1>2. /\ job[a].todo # <<>> /\ n \in Names /\ job[a].op \in DOMAIN Closing /\ ~At(a, "done")
  BY <1>1, Heads DEF ToolsInv, LeakInv, At
<1>3. UNCHANGED <<file, plugins, sections, starting, setting, failed>>
  BY DEF Unpublish, disk, rest
<1>4. /\ \A d \in Ids : Kept(d)
      /\ \A m \in Names : servers'[m] = IF m = n THEN None ELSE servers[m]
  BY UnpublishShapes DEF ToolsInv, LeakInv, Kept
<1>5. \A m \in Names : servers[m] \in Ids \union {None}
  BY DEF ToolsInv, LeakInv, Shapes
<1>6. \A m \in Names \ {n} : Stays(m)
  BY <1>4, <1>5 DEF Stays
<1>7. Last(<<"fail">>) = "fail" /\ Head(<<"fail">>) = "fail"
  BY DEF Last
<1>8. Head(job'[a].todo) \in {"drain", "fail"} \union After(job[a].op, "drain")
  BY <1>1, <1>7
<1>9. Last(job'[a].todo) # "fail" => Placed(a)'
  BY <1>1, <1>2, <1>4, <1>8, PlacedGone DEF ToolsInv
<1>10. Head(job'[a].todo) \notin {"publish", "list", "index"}
  <2>1. After(job[a].op, "drain") \cap {"publish", "list", "index"} = {}
    BY <1>2, Holds DEF Steps, Holding
  <2> QED
    BY <1>8, <2>1
<1>11. Alone /\ job'[a].conn # None => conns'[job'[a].conn].name = n
  <2>1. ASSUME Alone, c # None PROVE conns'[c].name = n
    <3>1. c \in Ids /\ Kept(c)
      BY <1>2, <1>4, <1>5, <2>1
    <3>2. conns[c].name = n
      BY <1>2, <2>1 DEF ToolsInv, SaveInv, Named
    <3> QED
      BY <3>1, <3>2 DEF Kept
  <2> QED
    BY <1>1, <2>1
<1>12. \E r \in Steps \ (Writes \union {"giveUp"}) :
         \/ /\ Head(job'[a].todo) \in After(job[a].op, r)
            /\ Last(job'[a].todo) = Last(job[a].todo)
         \/ Alone => Last(job'[a].todo) = "fail"
  <2>1. {"unpublish", "drain"} \subseteq Steps \ (Writes \union {"giveUp"})
    BY DEF Steps, Writes
  <2> QED
    BY <1>1, <1>7, <2>1
<1> QED
  BY <1>1, <1>2, <1>3, <1>4, <1>6, <1>9, <1>10, <1>11, <1>12, SaveKept DEF ToolsInv

LEMMA DrainSave ==
    ASSUME ToolsInv, IdsAssumption, NEW a \in Actors, Drained(a)
    PROVE  SaveInv'
<1> DEFINE n == job[a].name
<1>1. /\ At(a, "drain") /\ Jobs' /\ GoesOn(a) /\ job'[a].conn = None
      /\ Head(job'[a].todo) \in After(job[a].op, "drain") /\ job[a].op \in DOMAIN Closing
  BY DrainMoves DEF ToolsInv, LeakInv
<1>2. job[a].todo # <<>> /\ n \in Names /\ ~At(a, "done")
  BY <1>1, Heads DEF ToolsInv, LeakInv, At
<1>3. UNCHANGED <<file, plugins, sections, starting, setting, failed>>
  BY DEF Drained, disk, rest
<1>4. UNCHANGED servers /\ \A d \in Ids : Kept(d)
  BY DrainTeardown DEF ToolsInv, LeakInv, Kept
<1>5. \A m \in Names : Stays(m)
  BY <1>4 DEF Stays, ToolsInv, LeakInv, Shapes
<1>6. Alone => servers'[n] = None
  BY <1>1, <1>4 DEF ToolsInv, LeakInv, Replacing, Entering
<1>7. Alone /\ Last(job'[a].todo) # "fail" => Placed(a)'
  BY <1>1, <1>6, PlacedGone DEF ToolsInv, GoesOn
<1>8. Head(job'[a].todo) \notin {"publish", "list", "index"}
  BY <1>1, Holds DEF Steps, Holding
<1>9. "drain" \in Steps \ (Writes \union {"giveUp"})
  BY DEF Steps, Writes
<1> QED
  BY <1>1, <1>2, <1>3, <1>5, <1>6, <1>7, <1>8, <1>9, SaveKept DEF ToolsInv, GoesOn

LEMMA LookUpSave ==
    ASSUME ToolsInv, IdsAssumption, NEW a \in Actors, LookUp(a)
    PROVE  SaveInv'
<1>1. /\ At(a, "lookup") /\ Jobs' /\ GoesOn(a) /\ job'[a].conn = None
      /\ Head(job'[a].todo) = "oauth" /\ job[a].op \in DOMAIN Closing
  BY LookUpMoves DEF ToolsInv, LeakInv
<1>2. job[a].todo # <<>> /\ job[a].name \in Names /\ ~At(a, "done")
  BY <1>1, Heads DEF ToolsInv, LeakInv, At
<1>3. UNCHANGED <<file, plugins, sections, starting, setting, failed, servers, conns>>
  BY DEF LookUp, disk, rest, manager
<1>4. \A m \in Names : Stays(m)
  BY <1>3 DEF Stays, Kept
<1>5. "lookup" \in Steps \ (Writes \union {"giveUp"}) /\ "oauth" \in After(job[a].op, "lookup")
      /\ "lookup" \notin Writes \union {"unpublish", "drain", "done"} /\ "oauth" \notin Settling
  BY Afters DEF Steps, Writes, Settling
<1>6. Placed(a) => Placed(a)'
  BY <1>1, <1>5, PlacedWhen DEF GoesOn
<1>7. Alone /\ servers'[job[a].name] # None => conns'[servers'[job[a].name]].name = job[a].name
  BY <1>2, <1>3 DEF ToolsInv, SaveInv, Named
<1> QED
  BY <1>1, <1>2, <1>3, <1>4, <1>5, <1>6, <1>7, SaveKept DEF ToolsInv, GoesOn

(* A conn under the name of its server.                                    *)
LEMMA FreshStays ==
    ASSUME ToolsInv, IdsAssumption, Unused # {}, \A c \in Ids \ {Fresh} : conns'[c] = conns[c],
           NEW m \in Names, servers'[m] = servers[m]
    PROVE  Stays(m)
<1>1. servers[m] \in Ids \union {None} /\ servers[m] # Fresh
  BY FreshUnused DEF ToolsInv, LeakInv, Shapes, Referred
<1> QED
  BY <1>1 DEF Stays, Kept

LEMMA EnteredSave ==
    ASSUME ToolsInv, IdsAssumption, NEW a \in Actors, NEW s \in Before, At(a, s), s \notin Holding,
           Jobs', Others(a), Same(a), job'[a].todo # <<>>, job'[a].conn = None,
           UNCHANGED <<file, plugins, sections, starting, setting, failed>>, Unused # {},
           servers' = [servers EXCEPT ![job[a].name] = Fresh],
           \A c \in Ids \ {Fresh} : conns'[c] = conns[c],
           conns'[Fresh].name = job[a].name, conns'[Fresh].cfg = job[a].cfg,
           NEW r \in Steps \ (Writes \union {"giveUp"}),
           Head(job'[a].todo) \in After(job[a].op, r), r \notin {"unpublish", "connect", "publish", "list"},
           Last(job'[a].todo) = Last(job[a].todo)
    PROVE  SaveInv'
<1> DEFINE n == job[a].name
<1>1. job[a].todo # <<>> /\ n \in Names /\ ~At(a, "done") /\ job[a].op \in DOMAIN Closing
  BY Heads DEF ToolsInv, LeakInv, At, Before
<1>2. \A m \in Names : servers'[m] = IF m = n THEN Fresh ELSE servers[m]
  BY DEF ToolsInv, LeakInv, Shapes
<1>3. Fresh \in Ids /\ Fresh # None
  BY FreshUnused DEF IdsAssumption
<1>4. \A m \in Names \ {n} : Stays(m)
  BY <1>2, FreshStays
<1>5. s \notin Writes \union {"unpublish", "drain", "done"}
  BY DEF Before, Writes
<1>6. Placed(a) => Placed(a)'
  BY <1>1, <1>2, <1>3, <1>5, PlacedWhen
<1>7. Head(job'[a].todo) \notin {"publish", "list", "index"}
  BY <1>1, Holds DEF Holding
<1> QED
  BY <1>1, <1>2, <1>3, <1>4, <1>6, <1>7, SaveKept DEF ToolsInv

LEMMA SetupSave ==
    ASSUME ToolsInv, IdsAssumption, NEW a \in Actors, SetupOAuth(a)
    PROVE  SaveInv'
<1> DEFINE n == job[a].name  r == [Conn(job[a].name, job[a].cfg, "none") EXCEPT !.handler = TRUE]
<1>1. /\ At(a, "oauth") /\ Jobs' /\ Others(a) /\ Same(a) /\ job'[a].conn = None
      /\ job[a].op \in DOMAIN Closing /\ job'[a].todo # <<>> /\ n \in Names
      /\ Last(job'[a].todo) = Last(job[a].todo)
      /\ \/ Head(job'[a].todo) = "connect"
         \/ /\ Head(job'[a].todo) \in After(job[a].op, "index")
            /\ Unused # {} /\ servers' = [servers EXCEPT ![n] = Fresh]
  BY SetupMoves DEF ToolsInv, LeakInv
<1>2. UNCHANGED <<file, plugins, sections, starting, setting, failed>> /\ job[a].todo # <<>> /\ ~At(a, "done")
  BY <1>1 DEF SetupOAuth, disk, rest, At
<1>3. "oauth" \in Before /\ "oauth" \notin Holding /\ "oauth" \in Steps \ (Writes \union {"giveUp"})
      /\ "oauth" \notin Writes \union {"unpublish", "drain", "done"} /\ "connect" \notin Settling
      /\ "index" \in Steps \ (Writes \union {"giveUp"}) /\ "connect" \in After(job[a].op, "oauth")
  BY Afters DEF Before, Holding, Steps, Writes, Settling
<1>4. CASE UNCHANGED manager
  <2>1. UNCHANGED <<servers, conns>> /\ \A m \in Names : Stays(m)
    BY <1>4 DEF manager, Stays, Kept
  <2>2. Head(job'[a].todo) = "connect"
    <3>1. job' = [job EXCEPT ![a].todo = Tail(job[a].todo)]
      <4>1. CASE Advance(a)
        BY <4>1 DEF Advance
      <4>2. CASE ~Advance(a)
        <5>1. Unused # {} /\ servers' = [servers EXCEPT ![n] = Fresh]
          BY <4>2 DEF SetupOAuth
        <5>2. servers[n] = Fresh
          BY <1>1, <2>1, <5>1 DEF ToolsInv, LeakInv, Shapes
        <5> QED
          BY <1>1, <5>1, <5>2, FreshUnused DEF Referred
      <4> QED
        BY <4>1, <4>2
    <3>2. Advance(a)
      BY <3>1 DEF Advance
    <3> QED
      BY <1>1, <3>2, AdvanceMoves, Afters DEF Final, ToolsInv, LeakInv
  <2>3. Placed(a) => Placed(a)'
    BY <1>1, <1>3, <2>2, PlacedWhen
  <2>4. Alone /\ servers'[n] # None => conns'[servers'[n]].name = n
    BY <1>1, <2>1 DEF ToolsInv, SaveInv, Named
  <2> QED
    BY <1>1, <1>2, <1>3, <2>1, <2>2, <2>3, <2>4, SaveKept DEF ToolsInv
<1>5. CASE ~UNCHANGED manager
  <2>1. /\ Unused # {} /\ conns' = [conns EXCEPT ![Fresh] = r]
        /\ servers' = [servers EXCEPT ![n] = Fresh]
        /\ job' = [job EXCEPT ![a].todo = IF job[a].again THEN Tail(job[a].todo) ELSE AfterRegister(job[a].todo)]
    BY <1>5 DEF SetupOAuth, Turn
  <2>2. r.name = n /\ r.cfg = job[a].cfg
    BY ConnShape
  <2> HIDE DEF r
  <2>3. /\ \A c \in Ids \ {Fresh} : conns'[c] = conns[c]
        /\ conns'[Fresh].name = n /\ conns'[Fresh].cfg = job[a].cfg
    BY <2>1, <2>2, FreshUnused DEF ToolsInv, LeakInv, Shapes
  <2> QED
    BY <1>1, <1>2, <1>3, <2>1, <2>3, EnteredSave
<1> QED
  BY <1>4, <1>5

LEMMA EnterSave ==
    ASSUME ToolsInv, IdsAssumption, NEW a \in Actors, Shelve(a) \/ Hold(a)
    PROVE  SaveInv'
<1>1. PICK s \in {"shelve", "hold"}, mark \in {"user", ""} : Enter(a, s, mark) /\ Advance(a)
  BY DEF Shelve, Hold
<1> DEFINE r == Placeholder(job[a].name, job[a].cfg, mark)
<1>2. /\ At(a, s) /\ Unused # {} /\ conns' = [conns EXCEPT ![Fresh] = r]
      /\ servers' = [servers EXCEPT ![job[a].name] = Fresh]
      /\ UNCHANGED <<file, plugins, sections, starting, setting, failed>>
  BY <1>1 DEF Enter, rest, disk
<1>3. s \in Before /\ s \notin Holding /\ s \in Steps \ (Writes \union {"giveUp"}) /\ s \notin Final
  BY DEF Before, Holding, Steps, Final, Writes
<1>4. /\ GoesOn(a) /\ Jobs' /\ Head(job'[a].todo) \in After(job[a].op, s)
      /\ job'[a].conn = job[a].conn
  BY <1>1, <1>2, <1>3, AdvanceMoves DEF ToolsInv, LeakInv
<1>5. job[a].conn = None
  BY <1>2, <1>3, Heads DEF ToolsInv, LeakInv
<1>6. r.name = job[a].name /\ r.cfg = job[a].cfg
  BY DEF Placeholder, Conn
<1> HIDE DEF r
<1>7. /\ \A c \in Ids \ {Fresh} : conns'[c] = conns[c]
      /\ conns'[Fresh].name = job[a].name /\ conns'[Fresh].cfg = job[a].cfg
  BY <1>2, <1>6, FreshUnused DEF ToolsInv, LeakInv, Shapes
<1> QED
  BY <1>2, <1>3, <1>4, <1>5, <1>7, EnteredSave DEF GoesOn

LEMMA ConnectSave ==
    ASSUME ToolsInv, IdsAssumption, NEW a \in Actors, Connect(a)
    PROVE  SaveInv'
<1> DEFINE n == job[a].name
           r == [Conn(job[a].name, job[a].cfg, "open") EXCEPT !.handler = job[a].cfg.auth]
<1>1. /\ At(a, "connect") /\ Jobs' /\ Others(a) /\ Same(a) /\ job[a].conn = None /\ job'[a].todo # <<>>
      /\ job[a].op \in DOMAIN Closing /\ n \in Names
      /\ \/ /\ Unused # {} /\ Head(job'[a].todo) = "publish" /\ job'[a].conn = Fresh
            /\ Last(job'[a].todo) = Last(job[a].todo)
            /\ conns' = [conns EXCEPT ![Fresh] = r]
         \/ Gives(a) /\ UNCHANGED conns
  BY ConnectMoves DEF ToolsInv, LeakInv, GoesOn
<1>2. /\ UNCHANGED <<file, plugins, sections, starting, setting, failed, servers>>
      /\ job[a].todo # <<>> /\ ~At(a, "done")
  BY <1>1 DEF Connect, disk, rest, At
<1>3. "connect" \in Steps \ (Writes \union {"giveUp"}) /\ "publish" \in After(job[a].op, "connect")
      /\ "connect" \notin Writes \union {"unpublish", "drain", "done"} /\ "publish" \notin Settling
  BY Afters DEF Steps, Writes, Settling
<1>4. Alone /\ servers[n] # None => conns[servers[n]].name = n
  BY <1>1 DEF ToolsInv, SaveInv, Named
<1>5. CASE /\ Unused # {} /\ Head(job'[a].todo) = "publish" /\ job'[a].conn = Fresh
           /\ Last(job'[a].todo) = Last(job[a].todo)
           /\ conns' = [conns EXCEPT ![Fresh] = r]
  <2>1. r.name = n /\ r.cfg = job[a].cfg
    BY ConnShape
  <2> HIDE DEF r
  <2>2. /\ \A c \in Ids \ {Fresh} : conns'[c] = conns[c]
        /\ conns'[Fresh].name = n /\ conns'[Fresh].cfg = job[a].cfg
    BY <1>5, <2>1, FreshUnused DEF ToolsInv, LeakInv, Shapes
  <2>3. \A m \in Names : Stays(m)
    BY <1>2, <1>5, <2>2, FreshStays
  <2>4. Placed(a) => Placed(a)'
    BY <1>1, <1>3, <1>5, PlacedWhen
  <2>5. Alone /\ servers'[n] # None => conns'[servers'[n]].name = n
    BY <1>1, <1>2, <1>4, <2>3 DEF Stays, Kept
  <2> QED
    BY <1>1, <1>2, <1>3, <1>5, <2>2, <2>3, <2>4, <2>5, SaveKept DEF ToolsInv
<1>6. CASE Gives(a) /\ UNCHANGED conns
  <2>1. Alone => Last(job'[a].todo) = "fail"
    BY <1>2, <1>6, Solo DEF Gives, ToolsInv, LeakInv
  <2>2. \A m \in Names : Stays(m)
    BY <1>2, <1>6 DEF Stays, Kept
  <2>3. Head(job'[a].todo) \notin {"publish", "list", "index"} /\ job'[a].conn = None
    BY <1>6 DEF Gives, Holding
  <2> QED
    BY <1>1, <1>2, <1>3, <1>4, <1>6, <2>1, <2>2, <2>3, SaveKept DEF ToolsInv
<1> QED
  BY <1>1, <1>5, <1>6

LEMMA PublishSave ==
    ASSUME ToolsInv, IdsAssumption, NEW a \in Actors, Publish(a)
    PROVE  SaveInv'
<1> DEFINE n == job[a].name  d == job[a].conn
<1>1. At(a, "publish") /\ Advance(a) /\ UNCHANGED <<file, plugins, sections, starting, setting, failed>>
  BY DEF Publish, rest, disk
<1>2. /\ GoesOn(a) /\ Jobs' /\ Head(job'[a].todo) = "list" /\ job'[a].conn = d
      /\ n \in Names /\ job[a].todo # <<>> /\ job[a].op \in DOMAIN Closing
  BY <1>1, AdvanceMoves, Afters DEF ToolsInv, LeakInv, Final
<1>3. /\ d \in Ids /\ \A c \in Ids : Kept(c)
      /\ \A m \in Names : servers'[m] = IF m = n THEN d ELSE servers[m]
  BY PublishShapes DEF ToolsInv, LeakInv, Kept
<1>4. \A m \in Names \ {n} : Stays(m)
  BY <1>3 DEF Stays, ToolsInv, LeakInv, Shapes
<1>5. Alone => conns'[d].name = n /\ conns'[d].cfg = job[a].cfg
  BY <1>1, <1>3 DEF ToolsInv, SaveInv, Named, Kept, IdsAssumption
<1>6. "publish" \in Steps \ (Writes \union {"giveUp"}) /\ "list" \in After(job[a].op, "publish")
      /\ "publish" \notin Writes \union {"unpublish", "drain", "done"}
  BY Afters DEF Steps, Writes
<1>7. Alone /\ Placed(a) => Placed(a)'
  BY <1>1, <1>2, <1>3, <1>5, <1>6, PlacedWhen DEF GoesOn, IdsAssumption
<1>8. ~At(a, "done")
  BY <1>1 DEF At
<1> QED
  BY <1>1, <1>2, <1>3, <1>4, <1>5, <1>6, <1>7, <1>8, SaveKept DEF ToolsInv, GoesOn

LEMMA ListSave ==
    ASSUME ToolsInv, IdsAssumption, NEW a \in Actors, ListTools(a)
    PROVE  SaveInv'
<1> DEFINE n == job[a].name  d == job[a].conn
<1>1. /\ At(a, "list") /\ Jobs' /\ Others(a) /\ Same(a) /\ job'[a].todo # <<>>
      /\ job[a].op \in DOMAIN Closing /\ n \in Names
      /\ \/ /\ Head(job'[a].todo) = "index" /\ job'[a].conn = d /\ UNCHANGED conns
            /\ Last(job'[a].todo) = Last(job[a].todo)
         \/ Gives(a) /\ conns' = [conns EXCEPT ![d].session = "closed"]
  BY ListMoves DEF ToolsInv, LeakInv, GoesOn
<1>2. /\ UNCHANGED <<file, plugins, sections, starting, setting, failed, servers>>
      /\ job[a].todo # <<>> /\ ~At(a, "done")
  BY <1>1 DEF ListTools, disk, rest, At
<1>3. d \in Ids /\ \A m \in Names : servers[m] \in Ids \union {None}
  BY <1>1, Heads DEF ToolsInv, LeakInv, Holding, Shapes
<1>4. \A c \in Ids : Kept(c)
  <2>1. CASE UNCHANGED conns
    BY <2>1 DEF Kept
  <2>2. CASE conns' = [conns EXCEPT ![d].session = "closed"]
    BY <1>3, <2>2 DEF Kept, ToolsInv, LeakInv, Shapes, ConnFields
  <2> QED
    BY <1>1, <2>1, <2>2
<1>5. \A m \in Names : Stays(m)
  BY <1>2, <1>3, <1>4 DEF Stays
<1>6. Alone => /\ servers'[n] # None => conns'[servers'[n]].name = n
               /\ conns'[d].name = n /\ conns'[d].cfg = job[a].cfg
  BY <1>1, <1>2, <1>3, <1>4 DEF ToolsInv, SaveInv, Named, Kept, IdsAssumption
<1>7. "list" \in Steps \ (Writes \union {"giveUp"}) /\ "index" \in After(job[a].op, "list")
      /\ "list" \notin Writes \union {"unpublish", "drain", "done"}
  BY Afters DEF Steps, Writes
<1>8. CASE /\ Head(job'[a].todo) = "index" /\ job'[a].conn = d /\ UNCHANGED conns
           /\ Last(job'[a].todo) = Last(job[a].todo)
  <2>1. ASSUME Placed(a) PROVE Placed(a)'
    <3>1. job[a].op \notin Removing
      BY <1>1, <2>1, Closes DEF Placed, At, Removing
    <3>2. job[a].op # "addPlugin" => servers[n] # None /\ conns[servers[n]].cfg = job[a].cfg
      BY <1>1, <2>1, <3>1 DEF Placed, At, Current
    <3>3. job[a].op # "addPlugin" => servers'[n] # None /\ conns'[servers'[n]].cfg = job[a].cfg
      BY <1>2, <1>8, <3>2
    <3> QED
      BY <1>1, <3>1, <3>3 DEF Placed, Same, Current
  <2> QED
    BY <1>1, <1>2, <1>5, <1>6, <1>7, <1>8, <2>1, SaveKept DEF ToolsInv
<1>9. CASE Gives(a) /\ conns' = [conns EXCEPT ![d].session = "closed"]
  <2>1. Alone => Last(job'[a].todo) = "fail"
    BY <1>2, <1>9, Solo DEF Gives, ToolsInv, LeakInv
  <2>2. Head(job'[a].todo) \notin {"publish", "list", "index"} /\ job'[a].conn = None
    BY <1>9 DEF Gives, Holding
  <2> QED
    BY <1>1, <1>2, <1>5, <1>6, <1>7, <2>1, <2>2, SaveKept DEF ToolsInv
<1> QED
  BY <1>1, <1>8, <1>9

LEMMA IndexSave ==
    ASSUME ToolsInv, IdsAssumption, NEW a \in Actors, Index(a)
    PROVE  SaveInv'
<1> DEFINE n == job[a].name  d == job[a].conn
<1>1. /\ At(a, "index") /\ GoesOn(a) /\ Jobs' /\ job'[a].conn = None /\ job[a].op \in DOMAIN Closing
      /\ Head(job'[a].todo) \in After(job[a].op, "index") /\ n \in Names
  BY IndexMoves DEF ToolsInv, LeakInv
<1>2. /\ UNCHANGED <<file, plugins, sections, starting, setting, failed, servers>>
      /\ job[a].todo # <<>> /\ ~At(a, "done")
      /\ \E list : conns' = [conns EXCEPT ![d].tools = list]
  BY <1>1 DEF Index, disk, rest, At
<1>3. \A m \in Names : servers[m] \in Ids \union {None}
  BY DEF ToolsInv, LeakInv, Shapes
<1>4. \A c \in Ids : Kept(c)
  BY <1>2 DEF Kept, ToolsInv, LeakInv, Shapes, ConnFields
<1>5. \A m \in Names : Stays(m)
  BY <1>2, <1>3, <1>4 DEF Stays
<1>6. Alone => (servers'[n] # None => conns'[servers'[n]].name = n)
  BY <1>1, <1>2, <1>3, <1>4 DEF ToolsInv, SaveInv, Named, Kept
<1>7. "index" \in Steps \ (Writes \union {"giveUp"}) /\ "index" \notin Writes \union {"unpublish", "drain", "done"}
  BY DEF Steps, Writes
<1>8. ASSUME Placed(a) PROVE Placed(a)'
  <2>1. job[a].op \notin Removing
    BY <1>1, <1>8, Closes DEF Placed, At, Removing
  <2>2. job[a].op # "addPlugin" => servers[n] # None /\ conns[servers[n]].cfg = job[a].cfg
    BY <1>1, <1>8, <2>1 DEF Placed, At, Current
  <2>3. job[a].op # "addPlugin" => servers'[n] # None /\ conns'[servers'[n]].cfg = job[a].cfg
    BY <1>1, <1>2, <1>3, <1>4, <2>2 DEF Kept
  <2> QED
    BY <1>1, <2>1, <2>3 DEF Placed, GoesOn, Same, Current
<1>9. Head(job'[a].todo) \notin {"publish", "list", "index"}
  BY <1>1, Holds DEF Steps, Holding
<1> QED
  BY <1>1, <1>2, <1>5, <1>6, <1>7, <1>8, <1>9, SaveKept DEF ToolsInv, GoesOn

(* A rewrite that succeeds leaves what the operation says it has done.     *)
LEMMA Rewritten ==
    ASSUME ToolsInv, Alone, NEW a \in Actors, NEW s \in Writes, NEW ok \in BOOLEAN,
           NEW tools, NEW plugged, NEW tracked, At(a, s), s \in Writing(job[a].op), ok,
           Puts(a, s, ok, tools, plugged, tracked),
           file' = tools, plugins' = tracked, UNCHANGED <<servers, conns>>, Same(a),
           Head(job'[a].todo) \in After(job[a].op, s), job'[a].todo # <<>>, Going(a)
    PROVE  Going(a)'
<1> DEFINE j == job[a]  n == job[a].name  op == job[a].op  f == file[job[a].name]
           there == file[job[a].name] # NoCfg
<1>1. /\ n \in Names /\ Head(j.todo) = s /\ j.todo # <<>>
      /\ op \in DOMAIN Closing \ {"heal", "retry", "reconnect"} /\ DOMAIN file = Names
  BY Heads, Solo DEF ToolsInv, LeakInv, Shapes, At
<1>2. \/ op \in {"add", "update"} /\ s = "save"
      \/ op = "update" /\ s = "erase"
      \/ op = "remove" /\ s = "erase"
      \/ op = "disable" /\ s = "saveOff"
      \/ op = "enable" /\ s = "saveOn"
      \/ op = "withhold" /\ s = "saveHeld"
      \/ op = "addPlugin" /\ s = "savePlugin"
      \/ op = "removePlugin" /\ s = "erasePlugin"
  BY <1>1, Closes DEF Writes
<1>3. Head(job'[a].todo) = IF op = "update" /\ s = "erase" THEN "save" ELSE "done"
  <2>1. CASE op = "update" /\ s = "erase"
    <3>1. After("update", "erase") = {"save"}
      BY Afters
    <3> QED
      BY <2>1, <3>1
  <2>2. CASE ~(op = "update" /\ s = "erase")
    <3>1. After(op, s) = {"done"}
      BY <2>2, Afters
    <3> QED
      BY <2>2, <3>1
  <2> QED
    BY <2>1, <2>2
<1>4. job'[a].op = op /\ job'[a].name = n /\ job'[a].cfg = j.cfg
  BY DEF Same
<1>5. /\ s = "save" => tools = [file EXCEPT ![n] = j.cfg] /\ tracked = plugins
      /\ s = "erase" => tools = [file EXCEPT ![n] = NoCfg] /\ tracked = plugins
      /\ s = "saveOff" => tools = [file EXCEPT ![n].on = "off"] /\ tracked = plugins
      /\ s = "saveOn" => tools = [file EXCEPT ![n].on = "on"] /\ tracked = plugins
      /\ s = "saveHeld" => tools = [file EXCEPT ![n].held = j.cfg.held] /\ tracked = plugins
      /\ s = "savePlugin" => tools = file /\ tracked = plugins \union {n}
      /\ s = "erasePlugin" => tools = file /\ tracked = plugins \ {n}
  BY DEF Puts
<1>6. /\ s = "save" => file'[n] = j.cfg
      /\ s = "erase" => file'[n] = NoCfg
      /\ s = "saveOff" => file'[n] = [f EXCEPT !.on = "off"]
      /\ s = "saveOn" => file'[n] = [f EXCEPT !.on = "on"]
      /\ s = "saveHeld" => file'[n] = [f EXCEPT !.held = j.cfg.held]
      /\ s \in {"savePlugin", "erasePlugin"} => file'[n] = f
  BY <1>1, <1>5
<1>7. ~At(a, "done") /\ (At(a, "done")' <=> Head(job'[a].todo) = "done")
  BY <1>1 DEF At, Writes
<1>8. Written(a)'
  <2>1. Written(a)
    BY DEF Going
  <2> HIDE DEF f
  <2>2. /\ op = "disable"  => j.cfg = [f EXCEPT !.on = "off"]
        /\ op = "enable"   => j.cfg = [f EXCEPT !.on = "on"]
        /\ op = "withhold" => j.cfg = [f EXCEPT !.held = j.cfg.held]
        /\ op \in {"addPlugin", "removePlugin"} => f = NoCfg
    BY <1>7, <2>1 DEF Written, f
  <2>3. file'[n] = IF op \in {"addPlugin", "removePlugin", "remove"} THEN NoCfg
                   ELSE IF op = "update" /\ s = "erase" THEN NoCfg ELSE j.cfg
    BY <1>2, <1>6, <2>2
  <2>4. op \notin {"restart", "boot"}
    BY <1>2
  <2>5. file'[job'[a].name] = file'[n]
    BY <1>4
  <2> HIDE DEF n, j
  <2> QED
    BY <1>2, <1>3, <1>4, <1>7, <2>3, <2>4, <2>5 DEF Written, j, op
<1>9. Placed(a)'
  <2>1. Placed(a)
    BY DEF Going
  <2>2. CASE op \in Removing
    <3>1. servers[n] = None
      BY <1>1, <2>1, <2>2 DEF Placed, At, Writes
    <3> QED
      BY <1>2, <1>3, <1>4, <2>2, <3>1 DEF Placed, Removing
  <2>3. CASE op \notin Removing
    <3>1. op # "addPlugin" => servers[n] # None /\ conns[servers[n]].cfg = j.cfg
      BY <1>1, <2>1, <2>3 DEF Placed, Current
    <3> QED
      BY <1>4, <2>3, <3>1 DEF Placed, Current
  <2> QED
    BY <2>2, <2>3
<1>10. Listing(a)'
  <2>1. Listing(a)
    BY DEF Going
  <2>2. n \in plugins <=> op = "removePlugin"
    BY <1>7, <2>1 DEF Listing
  <2>3. n \in plugins' <=> op = "addPlugin"
    BY <1>2, <1>5, <2>2
  <2> QED
    BY <1>2, <1>3, <1>4, <1>7, <2>3 DEF Listing
<1> QED
  BY <1>8, <1>9, <1>10 DEF Going

LEMMA WriteSave ==
    ASSUME ToolsInv, IdsAssumption, NEW a \in Actors, WriteFile(a)
    PROVE  SaveInv'
<1> DEFINE n == job[a].name
<1>1. PICK s \in Writes, ok \in BOOLEAN : \E tools, plugged, tracked :
         /\ Rewrite(a, s, ok, tools, plugged, tracked)
         /\ Puts(a, s, ok, tools, plugged, tracked) /\ DOMAIN tools = DOMAIN file
  BY WriteIs
<1>2. PICK tools, plugged, tracked :
         /\ Rewrite(a, s, ok, tools, plugged, tracked)
         /\ Puts(a, s, ok, tools, plugged, tracked) /\ DOMAIN tools = DOMAIN file
  BY <1>1
<1>3. /\ At(a, s) /\ Jobs' /\ Others(a) /\ Same(a) /\ job'[a].conn = None
      /\ job[a].op \in DOMAIN Closing /\ n \in Names /\ job'[a].todo # <<>>
      /\ s \in Writing(job[a].op)
      /\ \/ GoesOn(a) /\ Head(job'[a].todo) \in After(job[a].op, s)
            /\ file' = tools /\ sections' = plugged /\ plugins' = tracked /\ UNCHANGED failed
         \/ Head(job'[a].todo) \in {"unpublish", "fail"} /\ failed' /\ UNCHANGED disk
  BY <1>2, WriteMoves DEF ToolsInv, LeakInv
<1>4. /\ UNCHANGED <<servers, conns, starting, setting>> /\ job[a].todo # <<>>
      /\ (ok /\ file' = tools /\ sections' = plugged /\ plugins' = tracked) \/ (failed' /\ UNCHANGED disk)
  BY <1>2, <1>3 DEF Rewrite, manager, rest, At
<1>5. plugins = sections => plugins' = sections'
  <2>1. \/ plugged = sections /\ tracked = plugins
        \/ plugged = sections \union {n} /\ tracked = plugins \union {n}
        \/ plugged = sections \ {n} /\ tracked = plugins \ {n}
    BY <1>2 DEF Puts
  <2>2. CASE UNCHANGED disk
    BY <2>2 DEF disk
  <2>3. CASE sections' = plugged /\ plugins' = tracked
    BY <2>1, <2>3
  <2> QED
    BY <1>4, <2>2, <2>3
<1> SUFFICES ASSUME Alone PROVE Named' /\ InStep'
  BY <1>4, <1>5 DEF SaveInv, Named, InStep, Alone, ToolsInv
<1>6. /\ \A b \in Actors \ {a} : job[b].todo = <<>> /\ job[b].conn = None /\ job'[b] = job[b]
      /\ n \notin starting
  BY <1>3, <1>4, Solo DEF ToolsInv, LeakInv, Others
<1>7. Named'
  <2>1. Head(job'[a].todo) \notin {"publish", "list", "index"}
    <3>1. After(job[a].op, s) \cap {"publish", "list", "index"} = {}
      BY <1>3, Holds DEF Holding, Steps, Writes
    <3> QED
      BY <1>3, <3>1
  <2> QED
    BY <1>3, <1>4, <1>6, <2>1 DEF ToolsInv, SaveInv, Named, At
<1>8. ASSUME ~failed' PROVE InStep'
  <2>1. /\ ok /\ file' = tools /\ plugins' = tracked /\ ~failed
        /\ GoesOn(a) /\ Head(job'[a].todo) \in After(job[a].op, s)
    BY <1>3, <1>4, <1>8
  <2>2. \A m \in Names \ {n} : file'[m] = file[m] /\ (m \in plugins' <=> m \in plugins)
    BY <1>2, <2>1 DEF Puts, ToolsInv, LeakInv, Shapes
  <2>3. \A m \in starting' : m \notin plugins'
    <3>1. \A m \in starting : m \notin plugins
      BY <2>1 DEF ToolsInv, SaveInv, InStep
    <3> QED
      BY <1>2, <1>4, <1>6, <2>1, <3>1 DEF Puts
  <2>4. ASSUME NEW m \in Names \ starting', ~ \E b \in Actors : job'[b].todo # <<>> /\ job'[b].name = m
        PROVE  Saved(m)'
    <3>1. m # n /\ ~ \E b \in Actors : job[b].todo # <<>> /\ job[b].name = m
      BY <1>3, <1>6, <2>4 DEF Same
    <3>2. Saved(m)
      BY <1>4, <2>1, <2>4, <3>1 DEF ToolsInv, SaveInv, InStep
    <3> QED
      BY <1>4, <2>2, <3>1, <3>2 DEF Saved, Current
  <2>5. ASSUME Last(job'[a].todo) # "fail" PROVE Going(a)'
    <3>1. Going(a)
      BY <1>4, <2>1, <2>5 DEF ToolsInv, SaveInv, InStep, Failing, GoesOn
    <3> QED
      BY <1>2, <1>3, <1>4, <2>1, <3>1, Rewritten
  <2> QED
    BY <1>6, <2>3, <2>4, <2>5 DEF InStep, Failing
<1> QED
  BY <1>7, <1>8 DEF InStep

(* An operation that has done what it does leaves file and server agreed.  *)
LEMMA DoneSaved ==
    ASSUME ToolsInv, Alone, NEW a \in Actors, At(a, "done"), Going(a)
    PROVE  Saved(job[a].name)
<1> DEFINE n == job[a].name  op == job[a].op  f == file[job[a].name]  cfg == job[a].cfg
<1>1. /\ n \in Names /\ Head(job[a].todo) = "done" /\ job[a].todo # <<>>
      /\ op \in DOMAIN Closing \ {"heal", "retry", "reconnect"}
  BY Heads, Solo DEF ToolsInv, LeakInv, At
<1>2. n \in plugins <=> op = "addPlugin"
  BY <1>1 DEF Going, Listing
<1>3. CASE op \in {"addPlugin", "removePlugin"}
  <2>1. f = NoCfg
    BY <1>3 DEF Going, Written
  <2>2. op = "removePlugin" => servers[n] = None
    BY <1>1 DEF Going, Placed, At, Removing
  <2> QED
    BY <1>2, <1>3, <2>1, <2>2 DEF Saved
<1>4. CASE op = "remove"
  <2>1. f = NoCfg
    BY <1>4 DEF Going, Written
  <2>2. servers[n] = None
    BY <1>1, <1>4 DEF Going, Placed, At, Removing
  <2> QED
    BY <1>2, <1>4, <2>1, <2>2 DEF Saved
<1>5. CASE op \notin {"addPlugin", "removePlugin", "remove"}
  <2>1. servers[n] # None /\ Current(n) = cfg
    BY <1>1, <1>5 DEF Going, Placed, Removing
  <2>2. op \in {"add", "update", "restart", "boot", "disable", "enable", "withhold"}
    BY <1>1, <1>5, Closes
  <2>3. f = cfg
    <3>1. Written(a)
      BY DEF Going
    <3> HIDE DEF f, cfg
    <3> QED
      BY <2>2, <3>1 DEF Written, f, cfg
  <2> QED
    BY <1>2, <1>5, <2>1, <2>3 DEF Saved
<1> QED
  BY <1>3, <1>4, <1>5

LEMMA FinishSave ==
    ASSUME ToolsInv, IdsAssumption, NEW a \in Actors, Finish(a)
    PROVE  SaveInv'
<1> DEFINE n == job[a].name
<1>1. /\ Others(a) /\ job'[a] = Idle /\ Jobs' /\ job[a].todo # <<>>
      /\ UNCHANGED <<servers, file, plugins, sections, starting, setting>>
      /\ conns' = Swept(job') /\ failed' = (failed \/ At(a, "fail"))
      /\ At(a, "done") \/ At(a, "fail")
  BY FinishMoves DEF Finish, disk, rest, ToolsInv, LeakInv, At
<1>2. \A m \in Names : Stays(m)
  <2>1. ASSUME NEW m \in Names, servers[m] # None PROVE Kept(servers[m])
    <3>1. servers[m] \in Ids
      BY <2>1 DEF ToolsInv, LeakInv, Shapes
    <3>2. Referred(servers[m], job')
      BY DEF Referred
    <3>3. conns'[servers[m]] = conns[servers[m]]
      BY <1>1, <3>1, <3>2 DEF Swept
    <3> QED
      BY <3>3 DEF Kept
  <2> QED
    BY <1>1, <2>1 DEF Stays
<1> SUFFICES ASSUME Alone PROVE Named' /\ InStep'
  BY <1>1 DEF SaveInv, Named, InStep, Alone, ToolsInv
<1>3. /\ \A b \in Actors \ {a} : job[b].todo = <<>> /\ job[b].conn = None /\ job'[b] = job[b]
      /\ \A b \in Actors : job'[b].todo = <<>> /\ job'[b].conn = None
  BY <1>1, Solo, Idles DEF ToolsInv, LeakInv, Others
<1>4. Named'
  BY <1>1, <1>2, <1>3 DEF ToolsInv, SaveInv, Named, At, Stays, Kept
<1>5. ASSUME ~failed' PROVE InStep'
  <2>1. ~failed /\ At(a, "done")
    BY <1>1, <1>5
  <2>2. Saved(n)
    <3>1. Last(job[a].todo) = "done"
      BY <2>1, EndsFailing DEF At, Final, ToolsInv, LeakInv
    <3>2. Going(a)
      BY <1>1, <2>1, <3>1 DEF ToolsInv, SaveInv, InStep, Failing
    <3> QED
      BY <2>1, <3>2, DoneSaved
  <2>3. \A m \in Names \ starting : Saved(m)
    BY <1>3, <2>1, <2>2 DEF ToolsInv, SaveInv, InStep
  <2>4. ASSUME NEW m \in Names \ starting PROVE Saved(m)'
    BY <1>1, <1>2, <2>3, ElsewhereSaved DEF ToolsInv
  <2>5. \A m \in starting' : m \notin plugins'
    BY <1>1, <2>1 DEF ToolsInv, SaveInv, InStep
  <2> QED
    BY <1>1, <1>3, <2>4, <2>5 DEF InStep
<1> QED
  BY <1>4, <1>5 DEF InStep

(* A goroutine that has nothing to do takes up a job, next to nobody.      *)
LEMMA StartSave ==
    ASSUME ToolsInv, NEW a \in Actors, NEW op, NEW n \in Names, NEW cfg, NEW heads,
           Starts(a, op, n, cfg, heads), heads \cap {"publish", "list", "index"} = {},
           UNCHANGED <<servers, file, plugins, sections, setting, failed>>,
           starting' \subseteq starting, starting \subseteq starting' \union {n},
           Alone => /\ \A b \in Actors : job[b].todo = <<>>
                    /\ \A m \in Names \ {n} : Stays(m)
                    /\ servers[n] # None => conns'[servers[n]].name = conns[servers[n]].name
                    /\ ~failed => Going(a)'
    PROVE  SaveInv'
<1> SUFFICES ASSUME Alone PROVE Named' /\ InStep'
  BY DEF SaveInv, Named, InStep, Alone, ToolsInv
<1>1. /\ Jobs' /\ Others(a) /\ job'[a].todo # <<>> /\ Head(job'[a].todo) \in heads
      /\ job'[a].name = n /\ job'[a].conn = None
  BY DEF Starts
<1>2. /\ \A b \in Actors : job[b].todo = <<>> /\ job[b].conn = None
      /\ \A b \in Actors \ {a} : job'[b].todo = <<>> /\ job'[b].conn = None
  BY <1>1 DEF ToolsInv, LeakInv, Jobs, Ready, Others
<1>3. \A m \in Names : servers'[m] # None => conns'[servers'[m]].name = m
  BY DEF ToolsInv, SaveInv, Named, Stays, Kept
<1>4. Named'
  BY <1>1, <1>2, <1>3 DEF Named, At
<1>5. ASSUME ~failed PROVE InStep'
  <2>1. \A m \in starting' : m \notin plugins'
    BY <1>5 DEF ToolsInv, SaveInv, InStep
  <2>2. ASSUME NEW m \in Names \ starting', ~ \E b \in Actors : job'[b].todo # <<>> /\ job'[b].name = m
        PROVE  Saved(m)'
    <3>1. m # n /\ m \notin starting
      BY <1>1, <2>2
    <3>2. Saved(m)
      BY <1>2, <1>5, <3>1 DEF ToolsInv, SaveInv, InStep
    <3> QED
      BY <3>1, <3>2, ElsewhereSaved DEF ToolsInv
  <2>3. Going(a)'
    BY <1>5
  <2> QED
    BY <1>2, <2>1, <2>2, <2>3 DEF InStep
<1> QED
  BY <1>4, <1>5 DEF InStep

LEMMA AllIdle ==
    ASSUME ToolsInv, Alone, Free
    PROVE  /\ \A b \in Actors : job[b].todo = <<>>
           /\ ~failed => \A n \in Names : Saved(n)
<1>1. \A b \in Actors : job[b].todo = <<>>
  BY Idles DEF ToolsInv, LeakInv, OneAtATime, Actors, Free, Started
<1>2. starting = {}
  BY DEF Free, Started
<1> QED
  BY <1>1, <1>2 DEF ToolsInv, SaveInv, InStep

(* What an operation has done when it begins: nothing yet.                 *)
LEMMA Untouched ==
    ASSUME ToolsInv, NEW a, NEW op, NEW n, NEW cfg, NEW heads, Starts(a, op, n, cfg, heads),
           op \in DOMAIN Closing, UNCHANGED <<file, plugins>>,
           "done" \notin heads, heads \cap Settling = {} \/ op = "addPlugin", op \in Removing => heads \subseteq {"unpublish"},
           op \in {"restart", "boot"} => file[n] = cfg,
           op = "disable" => cfg = [file[n] EXCEPT !.on = "off"],
           op = "enable" => cfg = [file[n] EXCEPT !.on = "on"],
           op # "withhold",
           op \in {"addPlugin", "removePlugin"} => file[n] = NoCfg,
           n \in plugins <=> op = "removePlugin"
    PROVE  Going(a)'
<1>1. /\ job'[a].op = op /\ job'[a].name = n /\ job'[a].cfg = cfg /\ Head(job'[a].todo) \in heads
      /\ job'[a].todo # <<>> /\ ~At(a, "done")'
  BY DEF Starts, At
<1>2. Written(a)'
  BY <1>1 DEF Written
<1>3. Placed(a)'
  BY <1>1 DEF Placed, Settling, At
<1>4. Listing(a)'
  BY <1>1 DEF Listing
<1> QED
  BY <1>2, <1>3, <1>4 DEF Going

LEMMA ToolSave ==
    ASSUME ToolsInv, IdsAssumption, NEW n \in Names, NEW cfg, NEW tools \in BOOLEAN,
           \/ AddTool(n, cfg) \/ RemoveTool(n) \/ UpdateTool(n, cfg) \/ RestartTool(n)
           \/ DisableTool(n) \/ EnableTool(n) \/ AddPlugin(n, tools) \/ RemovePlugin(n)
    PROVE  SaveInv'
<1> DEFINE a == "lifecycle"  cur == Current(n)
<1>1. /\ Free /\ UNCHANGED <<servers, conns, file, plugins, sections, setting, starting, failed>>
      /\ a \in Actors
  BY DEF AddTool, RemoveTool, UpdateTool, RestartTool, DisableTool, EnableTool, AddPlugin, RemovePlugin,
         Begin, disk, manager, Actors
<1>2. Alone => /\ \A b \in Actors : job[b].todo = <<>>
               /\ ~failed => Saved(n)
  BY <1>1, AllIdle
<1>3. /\ "done" \notin {"unpublish"} /\ {"unpublish"} \cap Settling = {}
      /\ {"unpublish"} \cap {"publish", "list", "index"} = {}
      /\ {"lookup", "connect"} \cap Settling = {}
      /\ \A op \in {"add", "update", "restart", "disable", "enable", "addPlugin"} : op \notin Removing
      /\ \A op \in {"add", "remove", "update", "restart", "disable", "enable", "addPlugin", "removePlugin"} :
            op \in DOMAIN Closing
  BY Closes DEF Settling, Writes, Removing
<1>4. Alone /\ ~failed =>
         /\ Tool(n) => file[n] = cur /\ n \notin plugins
         /\ n \in plugins \/ servers[n] = None => file[n] = NoCfg
  BY <1>2 DEF Saved, Tool
<1> HIDE DEF a, cur
<1>5. ASSUME NEW op, NEW c, NEW heads, Starts(a, op, n, c, heads), heads \cap {"publish", "list", "index"} = {},
             Alone /\ ~failed => Going(a)'
      PROVE  SaveInv'
  BY <1>1, <1>2, <1>5, StartSave DEF Stays, Kept
<1>6. CASE AddTool(n, cfg)
  <2>1. Starts(a, "add", n, cfg, {"lookup", "connect"}) /\ n \notin plugins
    BY <1>6, BeginMoves DEF AddTool, Admits, ToolsInv, LeakInv, a
  <2>2. Going(a)'
    BY <1>1, <1>3, <2>1, Untouched
  <2> QED
    BY <1>5, <2>1, <2>2
<1>7. CASE UpdateTool(n, cfg)
  <2>1. Starts(a, "update", n, Merged(cfg, Current(n)), {"unpublish"}) /\ n \notin plugins
    BY <1>7, BeginMoves DEF UpdateTool, Tool, ToolsInv, LeakInv, a
  <2>2. Going(a)'
    BY <1>1, <1>3, <2>1, Untouched
  <2> QED
    BY <1>3, <1>5, <2>1, <2>2
<1>8. CASE RemoveTool(n)
  <2>1. Starts(a, "remove", n, NoCfg, {"unpublish"}) /\ n \notin plugins
    BY <1>8, BeginMoves DEF RemoveTool, ToolsInv, LeakInv, a
  <2>2. Going(a)'
    BY <1>1, <1>3, <2>1, Untouched
  <2> QED
    BY <1>3, <1>5, <2>1, <2>2
<1>9. CASE RestartTool(n)
  <2>1. Starts(a, "restart", n, cur, {"unpublish"}) /\ Tool(n)
    BY <1>9, BeginMoves DEF RestartTool, ToolsInv, LeakInv, a, cur
  <2>2. Alone /\ ~failed => Going(a)'
    BY <1>1, <1>3, <1>4, <2>1, Untouched
  <2> QED
    BY <1>3, <1>5, <2>1, <2>2
<1>10. CASE DisableTool(n)
  <2>1. Starts(a, "disable", n, [cur EXCEPT !.on = "off"], {"unpublish"}) /\ Tool(n)
    BY <1>10, BeginMoves DEF DisableTool, ToolsInv, LeakInv, a, cur
  <2>2. ASSUME Alone, ~failed PROVE Going(a)'
    <3>1. [cur EXCEPT !.on = "off"] = [file[n] EXCEPT !.on = "off"] /\ n \notin plugins
      BY <1>4, <2>1, <2>2
    <3> QED
      BY <1>1, <1>3, <2>1, <3>1, Untouched
  <2> QED
    BY <1>3, <1>5, <2>1, <2>2
<1>11. CASE EnableTool(n)
  <2>1. Starts(a, "enable", n, [cur EXCEPT !.on = "on"], {"unpublish"}) /\ Tool(n)
    BY <1>11, BeginMoves DEF EnableTool, ToolsInv, LeakInv, a, cur
  <2>2. ASSUME Alone, ~failed PROVE Going(a)'
    <3>1. [cur EXCEPT !.on = "on"] = [file[n] EXCEPT !.on = "on"] /\ n \notin plugins
      BY <1>4, <2>1, <2>2
    <3> QED
      BY <1>1, <1>3, <2>1, <3>1, Untouched
  <2> QED
    BY <1>3, <1>5, <2>1, <2>2
<1>12. CASE AddPlugin(n, tools)
  <2> DEFINE c == IF tools THEN PluginCfg ELSE NoCfg
             heads == IF tools THEN {"lookup", "connect"} ELSE {"savePlugin"}
  <2>1. Starts(a, "addPlugin", n, c, heads) /\ n \notin plugins /\ servers[n] = None
    BY <1>12, BeginMoves DEF AddPlugin, Admits, ToolsInv, LeakInv, a
  <2>2. "done" \notin heads /\ heads \cap {"publish", "list", "index"} = {}
    OBVIOUS
  <2> HIDE DEF c, heads
  <2>3. Alone /\ ~failed => Going(a)'
    BY <1>1, <1>3, <1>4, <2>1, <2>2, Untouched
  <2> QED
    BY <1>5, <2>1, <2>2, <2>3
<1>13. CASE RemovePlugin(n)
  <2>1. Starts(a, "removePlugin", n, NoCfg, {"unpublish"}) /\ n \in plugins
    BY <1>13, BeginMoves DEF RemovePlugin, ToolsInv, LeakInv, a
  <2>2. Alone /\ ~failed => Going(a)'
    BY <1>1, <1>3, <1>4, <2>1, Untouched
  <2> QED
    BY <1>3, <1>5, <2>1, <2>2
<1> QED
  BY <1>6, <1>7, <1>8, <1>9, <1>10, <1>11, <1>12, <1>13

LEMMA WithholdSave ==
    ASSUME ToolsInv, IdsAssumption, NEW n \in Names, NEW held, Withhold(n, held)
    PROVE  SaveInv'
<1> DEFINE a == "lifecycle"  c == servers[n]  cur == Current(n)  new == [Current(n) EXCEPT !.held = held]
<1>1. /\ Free /\ UNCHANGED <<servers, file, plugins, sections, setting, starting, failed>> /\ a \in Actors
      /\ conns' = [conns EXCEPT ![c].off = held, ![c].cfg.held = held] /\ Tool(n)
  BY DEF Withhold, Begin, disk, Actors
<1>2. Starts(a, "withhold", n, new, {"saveHeld"})
  BY BeginMoves DEF ToolsInv, LeakInv
<1>3. c \in Ids /\ \A m \in Names : servers[m] \in Ids \union {None}
  BY <1>1 DEF ToolsInv, LeakInv, Shapes, Tool
<1>4. /\ conns'[c].name = conns[c].name /\ conns'[c].cfg = new
      /\ \A d \in Ids \ {c} : conns'[d] = conns[d]
  BY <1>1, <1>3 DEF ToolsInv, LeakInv, Shapes, ConnFields, Current
<1>5. ASSUME Alone
      PROVE  /\ \A b \in Actors : job[b].todo = <<>>
             /\ \A m \in Names \ {n} : Stays(m)
  <2>1. \A m \in Names \ {n} : servers[m] # c
    BY <1>1, <1>3, <1>5 DEF ToolsInv, SaveInv, Named, IdsAssumption
  <2> QED
    BY <1>1, <1>3, <1>4, <1>5, <2>1, AllIdle DEF Stays, Kept
<1>6. ASSUME Alone, ~failed PROVE Going(a)'
  <2>1. file[n] = cur /\ n \notin plugins /\ c # None
    BY <1>1, <1>6, AllIdle DEF Saved, Tool
  <2>2. /\ job'[a].op = "withhold" /\ job'[a].name = n /\ job'[a].cfg = new /\ job'[a].todo # <<>>
        /\ Head(job'[a].todo) = "saveHeld" /\ ~At(a, "done")'
    BY <1>2 DEF Starts, At
  <2>3. new = [cur EXCEPT !.held = new.held]
    <3> HIDE DEF cur
    <3>1. CASE "held" \in DOMAIN cur
      BY <3>1 DEF cur
    <3>2. CASE "held" \notin DOMAIN cur
      BY <3>2 DEF cur
    <3> QED
      BY <3>1, <3>2
  <2>4. Written(a)'
    <3> HIDE DEF cur, new
    <3> QED
      BY <1>1, <2>1, <2>2, <2>3 DEF Written
  <2>5. Placed(a)'
    <3> HIDE DEF new
    <3> QED
      BY <1>1, <1>4, <2>1, <2>2 DEF Placed, Current, Removing
  <2>6. Listing(a)'
    BY <1>1, <2>1, <2>2 DEF Listing
  <2> QED
    BY <2>4, <2>5, <2>6 DEF Going
<1>7. {"saveHeld"} \cap {"publish", "list", "index"} = {}
  OBVIOUS
<1> HIDE DEF a, new
<1> QED
  BY <1>1, <1>2, <1>4, <1>5, <1>6, <1>7, StartSave

LEMMA OperateSave ==
    ASSUME ToolsInv, IdsAssumption, SettledAssumption, NEW n \in Targets, Operate(n)
    PROVE  SaveInv'
<1>1. n \in Names
  BY DEF SettledAssumption
<1> QED
  BY <1>1, ToolSave, WithholdSave DEF Operate

LEMMA BootToolSave ==
    ASSUME ToolsInv, IdsAssumption, SettledAssumption, BoundsAssumption, NEW n \in Targets, BootTool(n)
    PROVE  SaveInv'
<1>1. /\ n \in Names /\ "boot" \in Actors /\ "boot" \in DOMAIN Closing /\ "boot" \notin Removing
  BY Closes DEF SettledAssumption, Actors, Removing
<1>2. /\ UNCHANGED <<servers, conns, file, plugins, sections, setting, failed>>
      /\ starting' = starting \ {n} /\ n \in starting
  BY DEF BootTool, manager, disk
<1>3. /\ Jobs' /\ Others("boot") /\ job["boot"] = Idle
      /\ \/ file[n] = NoCfg /\ UNCHANGED job
         \/ Starts("boot", "boot", n, file[n], {"shelve", "lookup", "connect"})
  BY <1>1, BootToolMoves DEF ToolsInv, LeakInv
<1>4. Alone => /\ servers[n] = None /\ \A b \in Actors : job[b].todo = <<>>
               /\ ~failed => n \notin plugins
  BY <1>1, <1>2, <1>3, Idles DEF ToolsInv, LeakInv, OneAtATime, SaveInv, InStep, Actors
<1>5. CASE file[n] = NoCfg /\ UNCHANGED job
  <2>1. SUFFICES ASSUME Alone PROVE Named' /\ InStep'
    BY <1>2 DEF SaveInv, Named, InStep, Alone, ToolsInv
  <2>2. Named'
    BY <1>2, <1>5, <2>1 DEF ToolsInv, SaveInv, Named, At
  <2>3. ASSUME ~failed PROVE InStep'
    <3>1. Saved(n)'
      BY <1>2, <1>4, <1>5, <2>1, <2>3 DEF Saved
    <3>2. \A m \in Names \ starting : Saved(m)
      BY <1>4, <2>1, <2>3 DEF ToolsInv, SaveInv, InStep
    <3>3. ASSUME NEW m \in Names \ starting' PROVE Saved(m)'
      <4>1. CASE m = n
        BY <3>1, <4>1
      <4>2. CASE m # n
        BY <1>2, <3>2, <4>2 DEF Saved, Current
      <4> QED
        BY <4>1, <4>2
    <3>4. \A m \in starting' : m \notin plugins'
      BY <1>2, <2>1, <2>3 DEF ToolsInv, SaveInv, InStep
    <3> QED
      BY <1>4, <1>5, <2>1, <3>3, <3>4 DEF InStep
  <2> QED
    BY <1>2, <2>2, <2>3 DEF InStep
<1>6. CASE Starts("boot", "boot", n, file[n], {"shelve", "lookup", "connect"})
  <2>1. /\ {"shelve", "lookup", "connect"} \cap Settling = {} /\ "done" \notin {"shelve", "lookup", "connect"}
        /\ {"shelve", "lookup", "connect"} \cap {"publish", "list", "index"} = {}
    BY DEF Settling, Writes
  <2>2. Alone /\ ~failed => Going("boot")'
    BY <1>1, <1>2, <1>4, <1>6, <2>1, Untouched
  <2> QED
    BY <1>1, <1>2, <1>4, <1>6, <2>1, <2>2, StartSave DEF Stays, Kept
<1> QED
  BY <1>3, <1>5, <1>6

(* What is not an operation: the file stays, and no conn changes its name  *)
(* or its configuration.                                                   *)
LEMMA AsideSave ==
    ASSUME ToolsInv, UNCHANGED <<job, servers, file, plugins, sections, starting, setting, failed>>,
           \A c \in Ids : Kept(c)
    PROVE  SaveInv'
<1>1. \A m \in Names : Stays(m)
  BY DEF Stays, ToolsInv, LeakInv, Shapes
<1> SUFFICES ASSUME Alone PROVE Named' /\ InStep'
  BY DEF SaveInv, Named, InStep, Alone, ToolsInv
<1>2. Named'
  <2>1. \A a \in Actors : job[a].conn # None => job[a].conn \in Ids
    BY DEF ToolsInv, LeakInv, Jobs, Ready
  <2>2. \A a \in Actors : At(a, "publish") \/ At(a, "list") \/ At(a, "index") => job[a].conn \in Ids
    BY Heads DEF ToolsInv, LeakInv, Holding
  <2>3. \A a \in Actors : job[a].conn # None => conns'[job'[a].conn].name = job'[a].name
    BY <2>1 DEF ToolsInv, SaveInv, Named, Kept
  <2>4. \A a \in Actors : At(a, "publish") \/ At(a, "list") \/ At(a, "index") =>
           conns'[job'[a].conn].cfg = job'[a].cfg
    BY <2>2 DEF ToolsInv, SaveInv, Named, Kept
  <2>5. \A m \in Names : servers'[m] # None => conns'[servers'[m]].name = m
    BY <1>1 DEF ToolsInv, SaveInv, Named, Stays, Kept
  <2> QED
    BY <2>3, <2>4, <2>5 DEF Named, At
<1>3. ASSUME ~failed PROVE InStep'
  <2>1. ASSUME NEW m \in Names \ starting', ~ \E b \in Actors : job'[b].todo # <<>> /\ job'[b].name = m
        PROVE  Saved(m)'
    <3>1. Saved(m)
      BY <1>3, <2>1 DEF ToolsInv, SaveInv, InStep
    <3> QED
      BY <1>1, <3>1, ElsewhereSaved DEF ToolsInv
  <2>2. ASSUME NEW a \in Actors, job[a].todo # <<>>, Going(a) PROVE Going(a)'
    <3>1. job[a].name \in Names
      BY <2>2 DEF ToolsInv, LeakInv, Jobs, Ready
    <3>2. Written(a)' /\ Listing(a)'
      BY <2>2 DEF Going, Written, Listing, At
    <3>3. Stays(job[a].name)
      BY <1>1, <3>1
    <3>4. Placed(a)'
      BY <2>2, <3>3 DEF Going, Placed, At, Current, Stays, Kept
    <3> QED
      BY <3>2, <3>4 DEF Going
  <2>3. \A m \in starting' : m \notin plugins'
    BY <1>3 DEF ToolsInv, SaveInv, InStep
  <2>4. \A a \in Actors : job'[a].todo # <<>> /\ ~Failing(a)' => Going(a)'
    BY <1>3, <2>2 DEF ToolsInv, SaveInv, InStep, Failing
  <2> QED
    BY <2>1, <2>3, <2>4 DEF InStep
<1> QED
  BY <1>2, <1>3 DEF InStep

LEMMA ReapSave ==
    ASSUME ToolsInv, NEW r \in Ids, Reap(r)
    PROVE  SaveInv'
<1>1. UNCHANGED <<job, servers, file, plugins, sections, starting, setting, failed>>
  BY DEF Reap, disk, rest
<1>2. \A c \in Ids : Kept(c)
  BY ReapShapes DEF Kept, ToolsInv, LeakInv
<1> QED
  BY <1>1, <1>2, AsideSave

LEMMA OutsideSave ==
    ASSUME ToolsInv, Outside
    PROVE  SaveInv'
<1>1. UNCHANGED <<job, servers, file, plugins, sections, starting, setting, failed>>
  BY DEF Outside, Expire, RetryDue, Call, Return, GoDown, ComeUp, disk, rest, manager
<1>2. \A c \in Ids : Kept(c)
  <2>1. CASE \E x \in Callers : Call(x) \/ Return(x)
    <3>1. \E c, s : conns' = [conns EXCEPT ![c].calls = s]
      BY <2>1 DEF Call, Return
    <3> QED
      BY <3>1 DEF Kept, ToolsInv, LeakInv, Shapes, ConnFields
  <2>2. CASE \E n \in Targets : GoDown(n)
    <3>1. \A c \in Ids : conns'[c] = conns[c] \/ conns'[c] = [conns[c] EXCEPT !.session = "broken"]
      BY <2>2 DEF GoDown
    <3> QED
      BY <3>1 DEF Kept, ToolsInv, LeakInv, Shapes, ConnFields
  <2>3. CASE \E c \in Ids : RetryDue(c)
    BY <2>3 DEF RetryDue, Kept, ToolsInv, LeakInv, Shapes, ConnFields
  <2>4. CASE \E n \in Targets : ComeUp(n)
    BY <2>4 DEF ComeUp, manager, Kept
  <2>5. CASE \E c \in Ids : Expire(c)
    BY <2>5, ExpireIs DEF Kept, ToolsInv, LeakInv
  <2> QED
    BY <2>1, <2>2, <2>3, <2>4, <2>5 DEF Outside
<1> QED
  BY <1>1, <1>2, AsideSave

(* Who takes no part in the lock writes nothing.                           *)
LEMMA RivalSave ==
    ASSUME ToolsInv, IdsAssumption, SettledAssumption,
           \/ HealthStep \/ BootStep \/ OAuthStep
           \/ \E n \in Targets : Probe(n) \/ Reconnect(n)
    PROVE  SaveInv'
<1>1. ~Alone
  BY ActorLeak, RivalLeak DEF ToolsInv
<1>2. UNCHANGED <<plugins, sections, setting>>
  BY DEF HealthStep, BootStep, OAuthStep, ProbeAnswered, ProbeFailed, Backoff, Reinsert, Healed,
         Pending, Enter, Retry, GiveUp, ClearToken, Initiate, Probe, Reconnect, Begin, disk, rest
<1> QED
  BY <1>1, <1>2 DEF ToolsInv, SaveInv, Named, InStep, Alone

LEMMA SaveNext ==
    ASSUME ToolsInv, IdsAssumption, SettledAssumption, BoundsAssumption, Next
    PROVE  SaveInv'
<1>1. ASSUME NEW a \in Actors, Step(a) PROVE SaveInv'
  <2>1. CASE Finish(a) \/ Unpublish(a) \/ Drained(a) \/ LookUp(a) \/ SetupOAuth(a)
    BY <2>1, FinishSave, UnpublishSave, DrainSave, LookUpSave, SetupSave
  <2>2. CASE Connect(a) \/ Publish(a) \/ ListTools(a) \/ Index(a) \/ Shelve(a) \/ Hold(a) \/ WriteFile(a)
    BY <2>2, ConnectSave, PublishSave, ListSave, IndexSave, EnterSave, WriteSave
  <2>3. CASE HealthStep \/ BootStep \/ OAuthStep
    BY <2>3, RivalSave
  <2> QED
    BY <1>1, <2>1, <2>2, <2>3 DEF Step, HealthStep, BootStep, OAuthStep
<1>2. ASSUME NEW n \in Targets, Operate(n) \/ Probe(n) \/ BootTool(n) \/ Reconnect(n) PROVE SaveInv'
  BY <1>2, OperateSave, RivalSave, BootToolSave
<1>3. ASSUME NEW c \in Ids, Reap(c) PROVE SaveInv'
  BY <1>3, ReapSave
<1>4. CASE Outside
  BY <1>4, OutsideSave
<1> QED
  BY <1>1, <1>2, <1>3, <1>4 DEF Next, Operate, Outside

LEMMA SaveStutter ==
    ASSUME ToolsInv, UNCHANGED vars
    PROVE  SaveInv'
BY AsideSave DEF vars, manager, disk, rest, Kept

LEMMA SaveInit ==
    ASSUME Init, IdsAssumption, SettledAssumption
    PROVE  SaveInv
<1> DEFINE Of(c) == CHOOSE m \in DOMAIN Settled : Settled[m] = c
           cfg == [NoCfg EXCEPT !.gen = 1, !.transport = "stdio"]
<1>1. /\ servers = [n \in Names |-> IF n \in DOMAIN Settled THEN Settled[n] ELSE None]
      /\ job = [a \in Actors |-> Idle] /\ starting = Targets /\ plugins = {} /\ sections = {}
  BY DEF Init
<1>2. \A n \in Names \ Targets : file[n] = IF n \in DOMAIN Settled THEN conns[Settled[n]].cfg ELSE NoCfg
  BY DEF Init
<1>3. PICK lists : conns = [c \in Ids |->
         IF \E n \in DOMAIN Settled : Settled[n] = c
         THEN [Conn(Of(c), [NoCfg EXCEPT !.gen = 1, !.transport = "stdio"], "open") EXCEPT !.tools = lists[Of(c)]]
         ELSE Conn(<<>>, NoCfg, "none")]
  BY Zenon DEF Init
<1>4. \A n \in DOMAIN Settled : Of(Settled[n]) = n
  BY DEF SettledAssumption
<1>5. \A n, l : [Conn(n, cfg, "open") EXCEPT !.tools = l].name = n
  BY DEF Conn
<1>6. \A n \in DOMAIN Settled : conns[Settled[n]].name = n
  <2> HIDE DEF Of, cfg
  <2> QED
    BY <1>3, <1>4, <1>5 DEF SettledAssumption, cfg
<1>7. Named
  BY <1>1, <1>6, Idles DEF Named, At
<1>8. InStep
  BY <1>1, <1>2, Idles DEF InStep, Saved, Current, SettledAssumption, IdsAssumption
<1> QED
  BY <1>1, <1>7, <1>8 DEF SaveInv

-----------------------------------------------------------------------------
(* Who runs.                                                               *)

Registering == {"hold", "lookup", "oauth", "connect", "publish"}

Up(c) == \/ conns[c].session \in {"open", "broken"}
         \/ conns[c].session = "none" /\ conns[c].handler

Wanted(n, cfg) == cfg.on # "off" \/ n \in startedOff

(* What an operation has left to do is meant for a server that shall run,  *)
(* or for one that shall not; and once the server is entered it runs, or   *)
(* not, accordingly.                                                       *)
Allowed(wanted) == Steps \ (IF wanted THEN {"shelve"} ELSE Registering)

Fits(a) == job[a].todo \in Seq(Allowed(Wanted(job[a].name, job[a].cfg)))

Reached(a) ==
    Head(job[a].todo) \in Settling /\ servers[job[a].name] # None =>
        (Up(servers[job[a].name]) <=> Wanted(job[a].name, job[a].cfg))

Right(n) == Up(servers[n]) <=> Wanted(n, Current(n))

(* The conn that is about to take the name is nobody's yet, and connected. *)
Clean(a) ==
    At(a, "publish") =>
        /\ job[a].conn \notin reaping /\ \A n \in Names : servers[n] # job[a].conn
        /\ Up(job[a].conn)

Sound ==
    /\ starting # {} => startedOff = {}
    /\ \A n \in Names : servers[n] \notin reaping
    /\ \A n \in Names : servers[n] # None => "on" \in DOMAIN Current(n)
    /\ \A n \in starting \cap Names : "on" \in DOMAIN file[n]
    /\ \A a \in Actors : (job[a].todo # <<>> => "on" \in DOMAIN job[a].cfg) /\ Clean(a)

Matching ==
    /\ \A n \in Names : servers[n] # None /\ n \notin plugins =>
          Right(n) \/ \E a \in Actors : job[a].todo # <<>> /\ job[a].name = n
    /\ \A a \in Actors : job[a].todo # <<>> /\ ~Failing(a) => Fits(a) /\ Reached(a)

RunInv == Alone => Sound /\ (~failed => Matching)

Remains(n) ==
    /\ servers'[n] = servers[n]
    /\ servers[n] # None =>
          /\ conns'[servers[n]].cfg = conns[servers[n]].cfg
          /\ conns'[servers[n]].session \in {"open", "broken"} <=> conns[servers[n]].session \in {"open", "broken"}
          /\ conns'[servers[n]].session = "none" <=> conns[servers[n]].session = "none"
          /\ conns'[servers[n]].handler = conns[servers[n]].handler

LEMMA RemainsRight ==
    ASSUME NEW n, Remains(n), servers[n] # None, n \in startedOff' <=> n \in startedOff
    PROVE  /\ Right(n) => Right(n)'
           /\ "on" \in DOMAIN Current(n) => "on" \in DOMAIN Current(n)'
           /\ \A cfg : Wanted(n, cfg)' <=> Wanted(n, cfg)
           /\ Up(servers[n]) <=> Up(servers[n])'
BY DEF Remains, Right, Wanted, Current, Up

(* What a step does to the operation it belongs to.                        *)
LEMMA RunKept ==
    ASSUME ToolsInv, RunInv, NEW a \in Actors, job[a].todo # <<>>, Others(a), Same(a), job'[a].todo # <<>>,
           UNCHANGED <<starting, setting, startedOff>>, failed => failed',
           \A m \in Names \ {job[a].name} : file'[m] = file[m] /\ (m \in plugins' <=> m \in plugins),
           Alone =>
              /\ failed' \/ Last(job'[a].todo) \in {"fail", Last(job[a].todo)}
              /\ \A m \in Names \ {job[a].name} : Remains(m)
              /\ \A m \in Names : servers'[m] \notin reaping'
              /\ servers'[job[a].name] # None => "on" \in DOMAIN conns'[servers'[job[a].name]].cfg
              /\ Clean(a)'
              /\ ~failed' /\ Matching /\ ~Failing(a) /\ Last(job'[a].todo) # "fail" => Fits(a)' /\ Reached(a)'
    PROVE  RunInv'
<1> SUFFICES ASSUME Alone PROVE Sound' /\ (~failed' => Matching')
  BY DEF RunInv, Alone
<1> DEFINE n == job[a].name
<1>1. /\ n \in Names \ starting
      /\ \A b \in Actors \ {a} : job[b].todo = <<>> /\ job[b].conn = None
  BY Solo DEF ToolsInv, LeakInv
<1>2. /\ \A b \in Actors \ {a} : job'[b] = job[b] /\ job'[b].todo = <<>>
      /\ job'[a].name = n /\ job'[a].cfg = job[a].cfg
  BY <1>1 DEF Others, Same
<1>3. Sound'
  <2>1. Sound
    BY DEF RunInv
  <2>2. ASSUME NEW m \in Names, servers'[m] # None PROVE "on" \in DOMAIN Current(m)'
    <3>1. CASE m = n
      BY <2>2, <3>1 DEF Current
    <3>2. CASE m # n
      BY <2>1, <2>2, <3>2, RemainsRight DEF Sound, Remains
    <3> QED
      BY <3>1, <3>2
  <2>3. \A m \in starting' \cap Names : "on" \in DOMAIN file'[m]
    BY <1>1, <2>1 DEF Sound
  <2>4. \A b \in Actors : (job'[b].todo # <<>> => "on" \in DOMAIN job'[b].cfg) /\ Clean(b)'
    BY <1>2, <2>1 DEF Sound, Clean, At
  <2> QED
    BY <2>1, <2>2, <2>3, <2>4 DEF Sound
<1>4. ASSUME ~failed' PROVE Matching'
  <2>1. Matching
    BY <1>4 DEF RunInv
  <2>2. ASSUME NEW m \in Names, servers'[m] # None, m \notin plugins'
        PROVE  Right(m)' \/ \E b \in Actors : job'[b].todo # <<>> /\ job'[b].name = m
    <3>1. CASE m = n
      BY <1>2, <3>1
    <3>2. CASE m # n
      <4>1. Remains(m) /\ servers[m] # None /\ m \notin plugins
        BY <2>2, <3>2 DEF Remains
      <4>2. ~ \E b \in Actors : job[b].todo # <<>> /\ job[b].name = m
        BY <1>1, <3>2
      <4> QED
        BY <2>1, <4>1, <4>2, RemainsRight DEF Matching
    <3> QED
      BY <3>1, <3>2
  <2>3. \A b \in Actors : job'[b].todo # <<>> /\ ~Failing(b)' => Fits(b)' /\ Reached(b)'
    BY <1>2, <1>4, <2>1 DEF Failing
  <2> QED
    BY <2>2, <2>3 DEF Matching
<1> QED
  BY <1>3, <1>4

LEMMA FitsStay ==
    ASSUME NEW a, Same(a), UNCHANGED startedOff, Fits(a),
           \A S : job[a].todo \in Seq(S) => job'[a].todo \in Seq(S)
    PROVE  Fits(a)'
BY DEF Fits, Same, Wanted

LEMMA Shrinks ==
    ASSUME NEW S, NEW t \in Seq(S), t # <<>>
    PROVE  Tail(t) \in Seq(S)
OBVIOUS

(* What is listed is not being drained, when nobody else is at work.       *)
LEMMA NotDrained ==
    ASSUME ToolsInv, IdsAssumption, Alone, NEW a \in Actors, At(a, "drain"), NEW m \in Names, servers[m] # None
    PROVE  servers[m] # job[a].conn
<1>1. job[a].conn # None
  BY Heads DEF ToolsInv, LeakInv, Holding
<1> QED
  BY <1>1 DEF ToolsInv, LeakInv, Replacing, Entering, SaveInv, Named

LEMMA UnpublishRun ==
    ASSUME ToolsInv, RunInv, IdsAssumption, NEW a \in Actors, Unpublish(a)
    PROVE  RunInv'
<1> DEFINE n == job[a].name  c == servers[n]  t == job[a].todo
<1>1. /\ At(a, "unpublish") /\ Others(a) /\ Same(a) /\ job'[a].todo # <<>> /\ t # <<>> /\ n \in Names
      /\ Tail(t) # <<>> /\ job[a].op \in DOMAIN Closing
  BY UnpublishMoves, Heads DEF ToolsInv, LeakInv, GoesOn, Final
<1>2. /\ \/ job'[a].todo = <<"fail">>
         \/ Last(job'[a].todo) = Last(t) /\ Head(job'[a].todo) \in {"drain"} \union After(job[a].op, "drain")
  BY UnpublishMoves DEF ToolsInv, LeakInv, GoesOn
<1>3. \/ job'[a].todo = <<"fail">> \/ job'[a].todo = Tail(Tail(t)) \/ job'[a].todo = Tail(t)
  <2>1. CASE c = None
    <3>1. \/ job' = [job EXCEPT ![a].todo = <<"fail">>]
          \/ job' = [job EXCEPT ![a].todo = Tail(Tail(t))]
      BY <2>1 DEF Unpublish, Turn
    <3>2. Turns(a, <<"fail">>) \/ Turns(a, Tail(Tail(t)))
      BY <3>1, Sets DEF ToolsInv, LeakInv
    <3> QED
      BY <3>2 DEF Turns
  <2>2. CASE c # None
    <3>1. job' = [job EXCEPT ![a].todo = Tail(t), ![a].conn = c]
      BY <2>2 DEF Unpublish
    <3>2. Turns(a, Tail(t))
      BY <3>1, Sets DEF ToolsInv, LeakInv
    <3> QED
      BY <3>2 DEF Turns
  <2> QED
    BY <2>1, <2>2
<1>4. Last(<<"fail">>) = "fail" /\ Head(<<"fail">>) = "fail"
  BY DEF Last
<1>5. /\ UNCHANGED <<file, plugins, starting, setting, failed, startedOff>>
      /\ UNCHANGED reaping /\ \A m \in Names : servers'[m] = IF m = n THEN None ELSE servers[m]
      /\ \A d \in Ids : /\ conns'[d].session = conns[d].session /\ conns'[d].handler = conns[d].handler
                        /\ conns'[d].cfg = conns[d].cfg
  BY UnpublishShapes DEF Unpublish, disk, rest, ToolsInv, LeakInv
<1>6. \A m \in Names \ {n} : Remains(m)
  BY <1>5 DEF Remains, ToolsInv, LeakInv, Shapes
<1>7. Alone => \A m \in Names : servers'[m] \notin reaping'
  BY <1>5 DEF RunInv, Sound, ToolsInv, LeakInv, Shapes, IdsAssumption
<1>8. ~At(a, "publish")'
  <2>1. After(job[a].op, "drain") \cap {"publish", "list", "index"} = {}
    BY <1>1, Holds DEF Steps, Holding
  <2> QED
    BY <1>2, <1>4, <2>1 DEF At
<1>9. servers'[n] = None /\ Reached(a)'
  BY <1>1, <1>5 DEF Reached, Same
<1>10. ASSUME Fits(a), Last(job'[a].todo) # "fail" PROVE Fits(a)'
  <2>1. \A S : t \in Seq(S) => job'[a].todo \in Seq(S)
    BY <1>1, <1>3, <1>4, <1>10, Shrinks
  <2> QED
    BY <1>1, <1>5, <1>10, <2>1, FitsStay
<1> QED
  BY <1>1, <1>2, <1>4, <1>5, <1>6, <1>7, <1>8, <1>9, <1>10, RunKept DEF Clean, Matching

(* A step that moves on along the list.                                    *)
LEMMA AdvanceFits ==
    ASSUME ToolsInv, NEW a \in Actors, NEW s, At(a, s), s \notin Final, Fits(a), Same(a), UNCHANGED startedOff,
           job'[a].todo = Tail(job[a].todo)
    PROVE  Fits(a)'
<1>1. job[a].todo # <<>>
  BY DEF At
<1> QED
  BY <1>1, Shrinks, FitsStay

LEMMA DrainRun ==
    ASSUME ToolsInv, RunInv, IdsAssumption, NEW a \in Actors, Drained(a)
    PROVE  RunInv'
<1> DEFINE n == job[a].name
<1>1. /\ At(a, "drain") /\ GoesOn(a) /\ Head(job'[a].todo) \in After(job[a].op, "drain")
      /\ job[a].op \in DOMAIN Closing /\ n \in Names /\ job[a].todo # <<>>
  BY DrainMoves DEF ToolsInv, LeakInv, At
<1>2. job'[a].todo = Tail(job[a].todo)
  <2>1. job' = [job EXCEPT ![a].todo = Tail(job[a].todo), ![a].conn = None]
    BY DEF Drained
  <2> QED
    BY <2>1, Sets DEF Turns, ToolsInv, LeakInv
<1>3. /\ UNCHANGED <<file, plugins, starting, setting, failed, startedOff, servers, reaping>>
      /\ \A c \in Ids : c # job[a].conn => conns'[c] = conns[c]
  BY DrainTeardown DEF Drained, disk, rest, ToolsInv, LeakInv
<1>4. Alone => \A m \in Names : Remains(m)
  BY <1>1, <1>3, NotDrained DEF Remains, ToolsInv, LeakInv, Shapes
<1>5. Alone => servers'[n] = None
  BY <1>1, <1>3 DEF ToolsInv, LeakInv, Replacing, Entering
<1>6. ~At(a, "publish")'
  BY <1>1, Holds DEF Steps, Holding, At
<1>7. Alone => Reached(a)'
  BY <1>1, <1>5 DEF Reached, GoesOn, Same
<1>8. Fits(a) => Fits(a)'
  BY <1>1, <1>2, <1>3, AdvanceFits DEF GoesOn, Final
<1> QED
  BY <1>1, <1>3, <1>4, <1>5, <1>6, <1>7, <1>8, RunKept DEF Clean, Matching, GoesOn, RunInv, Sound

LEMMA LookUpRun ==
    ASSUME ToolsInv, RunInv, IdsAssumption, NEW a \in Actors, LookUp(a)
    PROVE  RunInv'
<1> DEFINE n == job[a].name
<1>1. /\ At(a, "lookup") /\ GoesOn(a) /\ Head(job'[a].todo) = "oauth"
      /\ job[a].op \in DOMAIN Closing /\ n \in Names /\ job[a].todo # <<>>
  BY LookUpMoves DEF ToolsInv, LeakInv, At
<1>2. job'[a].todo = Tail(job[a].todo)
  <2>1. DOMAIN job = Actors /\ DOMAIN job[a] = JobFields
    BY DEF ToolsInv, LeakInv, Jobs, Ready
  <2> QED
    BY <2>1 DEF LookUp, JobFields
<1>3. UNCHANGED <<file, plugins, starting, setting, failed, startedOff, servers, reaping, conns>>
  BY DEF LookUp, disk, rest, manager
<1>4. \A m \in Names : Remains(m)
  BY <1>3 DEF Remains
<1>5. Alone /\ servers'[n] # None => "on" \in DOMAIN conns'[servers'[n]].cfg
  BY <1>1, <1>3 DEF RunInv, Sound, Current
<1>6. ~At(a, "publish")' /\ Reached(a)'
  BY <1>1 DEF At, Reached, Settling, Writes
<1>7. Fits(a) => Fits(a)'
  BY <1>1, <1>2, <1>3, AdvanceFits DEF GoesOn, Final
<1> QED
  BY <1>1, <1>3, <1>4, <1>5, <1>6, <1>7, RunKept DEF Clean, Matching, GoesOn, RunInv, Sound

LEMMA FreshRemains ==
    ASSUME ToolsInv, Unused # {}, \A c \in Ids \ {Fresh} : conns'[c] = conns[c],
           NEW m \in Names, servers'[m] = servers[m]
    PROVE  Remains(m)
<1>1. servers[m] \in Ids \union {None} /\ servers[m] # Fresh
  BY FreshUnused DEF ToolsInv, LeakInv, Shapes, Referred
<1> QED
  BY <1>1 DEF Remains

LEMMA AfterBefore ==
    ASSUME NEW op \in DOMAIN Closing, NEW s \in {"shelve", "hold", "index"}
    PROVE  /\ "publish" \notin After(op, s)
           /\ s = "hold" => After(op, s) \cap Settling = {}
<1>1. Closing[op] # "publish"
  BY Closes DEF Before
<1>2. /\ After(op, "shelve") \subseteq {"fail", Closing[op]}
      /\ After(op, "index") \subseteq {"done", Closing[op]}
      /\ After(op, "hold") = {"lookup", "connect"}
  BY Afters
<1>3. {"lookup", "connect"} \cap Settling = {}
  BY DEF Settling, Writes
<1> QED
  BY <1>1, <1>2, <1>3

(* A conn without a session is entered: one that waits for authorization,  *)
(* or one that does not run.                                               *)
LEMMA EnteredRun ==
    ASSUME ToolsInv, RunInv, IdsAssumption, NEW a \in Actors, job[a].todo # <<>>,
           Others(a), Same(a), job'[a].todo # <<>>,
           UNCHANGED <<file, plugins, starting, setting, failed, startedOff, reaping>>, Unused # {},
           servers' = [servers EXCEPT ![job[a].name] = Fresh], DOMAIN conns' = Ids,
           \A c \in Ids \ {Fresh} : conns'[c] = conns[c],
           NEW handler \in BOOLEAN, conns'[Fresh].handler = handler, conns'[Fresh].session = "none",
           conns'[Fresh].cfg = job[a].cfg,
           Last(job'[a].todo) = Last(job[a].todo), Head(job'[a].todo) # "publish",
           Fits(a) => Fits(a)',
           Fits(a) => Head(job'[a].todo) \notin Settling \/ (handler <=> Wanted(job[a].name, job[a].cfg))
    PROVE  RunInv'
<1> DEFINE n == job[a].name
<1>1. \A m \in Names : servers'[m] = IF m = n THEN Fresh ELSE servers[m]
  BY DEF ToolsInv, LeakInv, Shapes
<1>2. Fresh \in Ids /\ Fresh # None /\ Fresh \notin reaping /\ n \in Names
  <2>1. n \in Names
    BY DEF ToolsInv, LeakInv, Jobs, Ready
  <2> QED
    BY <2>1, FreshUnused DEF IdsAssumption, Referred
<1>3. \A m \in Names \ {n} : Remains(m)
  BY <1>1, FreshRemains
<1>4. Alone => \A m \in Names : servers'[m] \notin reaping'
  BY <1>1, <1>2 DEF RunInv, Sound
<1>5. Alone => "on" \in DOMAIN conns'[servers'[n]].cfg
  BY <1>1, <1>2 DEF RunInv, Sound
<1>6. Clean(a)'
  BY DEF Clean, At
<1>7. Fits(a) => Reached(a)'
  <2>1. servers'[job'[a].name] = Fresh
    BY <1>1, <1>2 DEF Same
  <2>2. /\ conns'[Fresh].session \notin {"open", "broken"} /\ conns'[Fresh].session = "none"
        /\ conns'[Fresh].handler = handler
    OBVIOUS
  <2>3. Wanted(job[a].name, job[a].cfg)' <=> Wanted(job[a].name, job[a].cfg)
    BY DEF Wanted, Same
  <2> QED
    BY <2>1, <2>2, <2>3 DEF Reached, Up, Wanted, Same
<1> QED
  BY <1>3, <1>4, <1>5, <1>6, <1>7, RunKept DEF Matching

LEMMA Meant ==
    ASSUME NEW a, Fits(a), job[a].todo # <<>>
    PROVE  /\ Head(job[a].todo) = "shelve" => ~Wanted(job[a].name, job[a].cfg)
           /\ Head(job[a].todo) \in Registering => Wanted(job[a].name, job[a].cfg)
<1> DEFINE t == job[a].todo  w == Wanted(job[a].name, job[a].cfg)
<1>1. t \in Seq(Allowed(w))
  BY DEF Fits
<1> HIDE DEF t, w
<1>2. Head(t) \in Allowed(w)
  BY <1>1 DEF t
<1> QED
  BY <1>2 DEF Allowed, t, w

LEMMA SetupRun ==
    ASSUME ToolsInv, RunInv, IdsAssumption, NEW a \in Actors, SetupOAuth(a)
    PROVE  RunInv'
<1> DEFINE n == job[a].name  t == job[a].todo  r == [Conn(job[a].name, job[a].cfg, "none") EXCEPT !.handler = TRUE]
<1>1. /\ At(a, "oauth") /\ Jobs' /\ Others(a) /\ Same(a) /\ job[a].op \in DOMAIN Closing
      /\ job'[a].todo # <<>> /\ n \in Names /\ Last(job'[a].todo) = Last(t)
      /\ \/ Head(job'[a].todo) = "connect"
         \/ Head(job'[a].todo) \in After(job[a].op, "index")
  BY SetupMoves DEF ToolsInv, LeakInv
<1>2. UNCHANGED <<file, plugins, starting, setting, failed, startedOff>> /\ t # <<>> /\ Head(t) = "oauth"
  BY <1>1 DEF SetupOAuth, disk, rest, At
<1>3. Head(job'[a].todo) # "publish"
  BY <1>1, AfterBefore
<1>4. job'[a].todo = Tail(t) \/ job'[a].todo = AfterRegister(t)
  <2>1. job' = [job EXCEPT ![a].todo = Tail(t)] \/ job' = [job EXCEPT ![a].todo = AfterRegister(t)]
    BY DEF SetupOAuth, Advance, Turn
  <2>2. Turns(a, Tail(t)) \/ Turns(a, AfterRegister(t))
    BY <2>1, Sets DEF ToolsInv, LeakInv
  <2> QED
    BY <2>2 DEF Turns
<1>5. Fits(a) => Fits(a)'
  <2>1. ASSUME NEW S, t \in Seq(S) PROVE job'[a].todo \in Seq(S)
    <3>1. AfterRegister(t) \in Seq(S)
      <4>1. \A i \in 6 .. Len(t) : i \in 1 .. Len(t)
        BY <2>1
      <4> QED
        BY <2>1, <4>1 DEF AfterRegister
    <3> QED
      BY <1>2, <1>4, <2>1, <3>1, Shrinks
  <2> QED
    BY <1>1, <1>2, <2>1, FitsStay
<1>6. Fits(a) => Wanted(n, job[a].cfg)
  BY <1>2, Meant DEF Registering
<1>7. CASE UNCHANGED manager
  <2>1. UNCHANGED <<servers, conns, reaping>> /\ \A m \in Names : Remains(m)
    BY <1>7 DEF manager, Remains
  <2>2. Alone /\ servers'[n] # None => "on" \in DOMAIN conns'[servers'[n]].cfg
    BY <1>1, <2>1 DEF RunInv, Sound, Current
  <2>3. Head(job'[a].todo) = "connect"
    <3>1. Unused # {} => Fresh # servers[n]
      BY <1>1, FreshUnused DEF Referred
    <3>2. CASE job[a].cfg.auth /\ n \notin token
      BY <1>1, <2>1, <3>1, <3>2 DEF SetupOAuth, ToolsInv, LeakInv, Shapes
    <3>3. CASE ~(job[a].cfg.auth /\ n \notin token)
      <4>1. Advance(a)
        BY <3>3 DEF SetupOAuth
      <4> QED
        BY <1>1, <4>1, AdvanceMoves, Afters DEF Final, ToolsInv, LeakInv
    <3> QED
      BY <3>2, <3>3
  <2>4. Reached(a)' /\ Clean(a)'
    BY <2>3 DEF Reached, Clean, At, Settling, Writes
  <2> QED
    BY <1>1, <1>2, <1>5, <2>1, <2>2, <2>4, RunKept DEF Matching, RunInv, Sound
<1>8. CASE ~UNCHANGED manager
  <2>1. /\ Unused # {} /\ conns' = [conns EXCEPT ![Fresh] = r]
        /\ servers' = [servers EXCEPT ![n] = Fresh] /\ UNCHANGED reaping
    BY <1>8 DEF SetupOAuth
  <2>2. r.cfg = job[a].cfg /\ r.session = "none" /\ r.handler = TRUE
    BY DEF Conn
  <2> HIDE DEF r
  <2>3. /\ DOMAIN conns' = Ids /\ \A c \in Ids \ {Fresh} : conns'[c] = conns[c]
        /\ conns'[Fresh] = r
    BY <2>1, FreshUnused DEF ToolsInv, LeakInv, Shapes
  <2> QED
    BY <1>1, <1>2, <1>3, <1>5, <1>6, <2>1, <2>2, <2>3, EnteredRun
<1> QED
  BY <1>7, <1>8

LEMMA EnterRun ==
    ASSUME ToolsInv, RunInv, IdsAssumption, NEW a \in Actors, Shelve(a) \/ Hold(a)
    PROVE  RunInv'
<1>1. PICK s \in {"shelve", "hold"}, mark \in {"user", ""} : Enter(a, s, mark) /\ Advance(a)
  BY DEF Shelve, Hold
<1> DEFINE n == job[a].name  t == job[a].todo  r == Placeholder(job[a].name, job[a].cfg, mark)
<1>2. /\ At(a, s) /\ Unused # {} /\ conns' = [conns EXCEPT ![Fresh] = r]
      /\ servers' = [servers EXCEPT ![n] = Fresh]
      /\ UNCHANGED <<file, plugins, starting, setting, failed, startedOff, reaping>>
  BY <1>1 DEF Enter, rest, disk
<1>3. s \notin Final
  BY DEF Final
<1>4. /\ GoesOn(a) /\ Head(job'[a].todo) \in After(job[a].op, s) /\ job[a].op \in DOMAIN Closing
      /\ t # <<>> /\ Head(t) = s
  BY <1>1, <1>2, <1>3, AdvanceMoves DEF ToolsInv, LeakInv
<1>5. job'[a].todo = Tail(t)
  <2>1. job' = [job EXCEPT ![a].todo = Tail(t)]
    BY <1>1 DEF Advance
  <2> QED
    BY <2>1, Sets DEF Turns, ToolsInv, LeakInv
<1>6. Fits(a) => Fits(a)'
  BY <1>2, <1>3, <1>4, <1>5, AdvanceFits DEF GoesOn
<1>7. Fits(a) /\ s = "shelve" => ~Wanted(n, job[a].cfg)
  BY <1>4, Meant
<1>8. r.cfg = job[a].cfg /\ r.session = "none" /\ r.handler = FALSE
  BY DEF Placeholder, Conn
<1> HIDE DEF r
<1>9. /\ DOMAIN conns' = Ids /\ \A c \in Ids \ {Fresh} : conns'[c] = conns[c]
      /\ conns'[Fresh] = r
  BY <1>2, FreshUnused DEF ToolsInv, LeakInv, Shapes
<1>10. Head(job'[a].todo) # "publish" /\ (s = "hold" => Head(job'[a].todo) \notin Settling)
  BY <1>4, AfterBefore
<1> QED
  BY <1>2, <1>4, <1>6, <1>7, <1>8, <1>9, <1>10, EnteredRun DEF GoesOn

LEMMA ConnectRun ==
    ASSUME ToolsInv, RunInv, IdsAssumption, NEW a \in Actors, Connect(a)
    PROVE  RunInv'
<1> DEFINE n == job[a].name  t == job[a].todo
           r == [Conn(job[a].name, job[a].cfg, "open") EXCEPT !.handler = job[a].cfg.auth]
<1>1. /\ At(a, "connect") /\ Others(a) /\ Same(a) /\ job'[a].todo # <<>> /\ n \in Names
      /\ \/ /\ Unused # {} /\ GoesOn(a) /\ Head(job'[a].todo) = "publish" /\ job'[a].conn = Fresh
            /\ conns' = [conns EXCEPT ![Fresh] = r]
         \/ Gives(a) /\ UNCHANGED conns
  BY ConnectMoves DEF ToolsInv, LeakInv
<1>2. /\ UNCHANGED <<file, plugins, starting, setting, failed, startedOff, servers, reaping>>
      /\ t # <<>>
  BY <1>1 DEF Connect, disk, rest, At
<1>3. CASE /\ Unused # {} /\ GoesOn(a) /\ Head(job'[a].todo) = "publish" /\ job'[a].conn = Fresh
           /\ conns' = [conns EXCEPT ![Fresh] = r]
  <2>1. r.session = "open"
    BY DEF Conn
  <2> HIDE DEF r
  <2>2. \A c \in Ids \ {Fresh} : conns'[c] = conns[c]
    BY <1>3, FreshUnused DEF ToolsInv, LeakInv, Shapes
  <2>3. conns'[Fresh].session = "open" /\ Fresh \in Ids /\ Fresh # None
    BY <1>3, <2>1, FreshUnused DEF ToolsInv, LeakInv, Shapes, IdsAssumption
  <2>4. \A m \in Names : Remains(m)
    BY <1>2, <1>3, <2>2, FreshRemains
  <2>5. Fresh \notin reaping /\ \A m \in Names : servers[m] # Fresh
    BY <1>3, FreshUnused DEF Referred
  <2>6. Clean(a)'
    BY <1>2, <1>3, <2>3, <2>5 DEF Clean, Up
  <2>7. Alone /\ servers'[n] # None => "on" \in DOMAIN conns'[servers'[n]].cfg
    BY <1>1, <1>2, <2>4 DEF RunInv, Sound, Remains, Current
  <2>8. Reached(a)'
    BY <1>3 DEF Reached, Settling, Writes
  <2>9. Fits(a) => Fits(a)'
    <3>1. job' = [job EXCEPT ![a].todo = Tail(t), ![a].conn = Fresh] \/ Gives(a)
      <4>1. job' = [job EXCEPT ![a].todo = Tail(t), ![a].conn = Fresh]
            \/ job' = [job EXCEPT ![a].todo = RegisterFailed(job[a])]
        BY DEF Connect, Turn
      <4>2. CASE job' = [job EXCEPT ![a].todo = RegisterFailed(job[a])]
        <5>1. Turns(a, RegisterFailed(job[a]))
          BY <4>2, Sets DEF ToolsInv, LeakInv
        <5>2. Head(job'[a].todo) \notin Holding
          BY <1>2, <5>1, RegistrationFails DEF Turns, ToolsInv, LeakInv
        <5> QED
          BY <1>3, <5>2 DEF Holding
      <4> QED
        BY <4>1, <4>2
    <3>2. ~Gives(a)
      BY <1>3 DEF Gives, Holding
    <3>3. job'[a].todo = Tail(t)
      BY <3>1, <3>2, Sets DEF Turns, ToolsInv, LeakInv
    <3> QED
      BY <1>1, <1>2, <3>3, AdvanceFits DEF Final
  <2> QED
    BY <1>1, <1>2, <1>3, <2>4, <2>6, <2>7, <2>8, <2>9, RunKept DEF Matching, RunInv, Sound, GoesOn
<1>4. CASE Gives(a) /\ UNCHANGED conns
  <2>1. Alone => Last(job'[a].todo) = "fail"
    BY <1>2, <1>4, Solo DEF Gives, ToolsInv, LeakInv
  <2>2. \A m \in Names : Remains(m)
    BY <1>2, <1>4 DEF Remains
  <2>3. Clean(a)'
    BY <1>4 DEF Clean, At, Gives, Holding
  <2>4. Alone /\ servers'[n] # None => "on" \in DOMAIN conns'[servers'[n]].cfg
    BY <1>1, <1>2, <2>2 DEF RunInv, Sound, Remains, Current
  <2> QED
    BY <1>1, <1>2, <2>1, <2>2, <2>3, <2>4, RunKept DEF RunInv, Sound
<1> QED
  BY <1>1, <1>3, <1>4

LEMMA PublishRun ==
    ASSUME ToolsInv, RunInv, IdsAssumption, NEW a \in Actors, Publish(a)
    PROVE  RunInv'
<1> DEFINE n == job[a].name  d == job[a].conn  t == job[a].todo
<1>1. /\ At(a, "publish") /\ Advance(a)
      /\ UNCHANGED <<file, plugins, starting, setting, failed, startedOff>>
  BY DEF Publish, rest, disk
<1>2. /\ GoesOn(a) /\ Head(job'[a].todo) = "list" /\ n \in Names /\ t # <<>> /\ Head(t) = "publish"
  BY <1>1, AdvanceMoves, Afters DEF ToolsInv, LeakInv, Final
<1>3. /\ d \in Ids /\ reaping' \subseteq reaping \union {servers[n]} /\ reaping' \subseteq Ids
      /\ \A c \in Ids : /\ conns'[c].session = conns[c].session /\ conns'[c].handler = conns[c].handler
                        /\ conns'[c].cfg = conns[c].cfg
      /\ \A m \in Names : servers'[m] = IF m = n THEN d ELSE servers[m]
  BY PublishShapes DEF ToolsInv, LeakInv, Shapes
<1>4. \A m \in Names \ {n} : Remains(m)
  BY <1>3 DEF Remains, ToolsInv, LeakInv, Shapes
<1>5. ASSUME Alone PROVE /\ \A m \in Names : servers'[m] \notin reaping'
                         /\ "on" \in DOMAIN conns'[d].cfg
                         /\ Up(d)
  <2>1. Clean(a) /\ (\A m \in Names : servers[m] \notin reaping) /\ "on" \in DOMAIN job[a].cfg
    BY <1>2, <1>5 DEF RunInv, Sound
  <2>2. d \notin reaping /\ (\A m \in Names : servers[m] # d) /\ Up(d)
    BY <1>1, <2>1 DEF Clean
  <2>3. \A m \in Names \ {n} : servers[m] = servers[n] => servers[m] = None
    BY <1>2, <1>5 DEF ToolsInv, SaveInv, Named
  <2>4. \A m \in Names : servers'[m] \notin reaping'
    BY <1>2, <1>3, <2>1, <2>2, <2>3 DEF IdsAssumption
  <2>5. conns[d].cfg = job[a].cfg
    BY <1>1, <1>5 DEF ToolsInv, SaveInv, Named
  <2> QED
    BY <1>3, <2>1, <2>2, <2>4, <2>5
<1>6. Clean(a)'
  BY <1>2 DEF Clean, At
<1>7. Fits(a) => Fits(a)'
  <2>1. job'[a].todo = Tail(t)
    <3>1. job' = [job EXCEPT ![a].todo = Tail(t)]
      BY <1>1 DEF Advance
    <3> QED
      BY <3>1, Sets DEF Turns, ToolsInv, LeakInv
  <2> QED
    BY <1>1, <1>2, <2>1, AdvanceFits DEF GoesOn, Final
<1>8. Alone /\ Fits(a) => Reached(a)'
  <2>1. Fits(a) => Wanted(n, job[a].cfg)
    BY <1>2, Meant DEF Registering
  <2>2. servers'[job'[a].name] = d /\ job'[a].name = n /\ job'[a].cfg = job[a].cfg
    BY <1>2, <1>3 DEF GoesOn, Same
  <2>3. Alone => \/ conns'[d].session \in {"open", "broken"}
                 \/ conns'[d].session = "none" /\ conns'[d].handler
    BY <1>3, <1>5 DEF Up
  <2> QED
    BY <1>1, <2>1, <2>2, <2>3 DEF Reached, Up, Wanted
<1> QED
  BY <1>1, <1>2, <1>3, <1>4, <1>5, <1>6, <1>7, <1>8, RunKept DEF Matching, GoesOn

LEMMA ListRun ==
    ASSUME ToolsInv, RunInv, IdsAssumption, NEW a \in Actors, ListTools(a)
    PROVE  RunInv'
<1> DEFINE n == job[a].name  d == job[a].conn  t == job[a].todo
<1>1. /\ At(a, "list") /\ Others(a) /\ Same(a) /\ job'[a].todo # <<>> /\ n \in Names
      /\ \/ /\ Head(job'[a].todo) = "index" /\ UNCHANGED conns /\ Last(job'[a].todo) = Last(t)
         \/ Gives(a) /\ conns' = [conns EXCEPT ![d].session = "closed"]
  BY ListMoves DEF ToolsInv, LeakInv, GoesOn
<1>2. /\ UNCHANGED <<file, plugins, starting, setting, failed, startedOff, servers, reaping>>
      /\ t # <<>> /\ Head(t) = "list"
  BY <1>1 DEF ListTools, disk, rest, At
<1>3. d \in Ids /\ \A m \in Names : servers[m] \in Ids \union {None}
  BY <1>1, Heads DEF ToolsInv, LeakInv, Holding, Shapes
<1>4. Alone => \A m \in Names \ {n} : servers[m] # None => servers[m] # d
  BY <1>1, <1>3 DEF ToolsInv, SaveInv, Named, IdsAssumption
<1>5. \A c \in Ids : conns'[c].cfg = conns[c].cfg /\ (c # d => conns'[c] = conns[c])
  <2>1. CASE UNCHANGED conns
    BY <2>1
  <2>2. CASE conns' = [conns EXCEPT ![d].session = "closed"]
    BY <1>3, <2>2 DEF ToolsInv, LeakInv, Shapes, ConnFields
  <2> QED
    BY <1>1, <2>1, <2>2
<1>6. Alone => \A m \in Names \ {n} : Remains(m)
  BY <1>2, <1>3, <1>4, <1>5 DEF Remains
<1>7. Alone /\ servers'[n] # None => "on" \in DOMAIN conns'[servers'[n]].cfg
  BY <1>1, <1>2, <1>3, <1>5 DEF RunInv, Sound, Current
<1>8. ~At(a, "publish")'
  BY <1>1 DEF At, Gives, Holding
<1>9. CASE Head(job'[a].todo) = "index" /\ UNCHANGED conns /\ Last(job'[a].todo) = Last(t)
  <2>1. Reached(a) => Reached(a)'
    <3>1. servers' = servers /\ conns' = conns
      BY <1>2, <1>9
    <3>2. job'[a].name = n /\ job'[a].cfg = job[a].cfg
      BY <1>1 DEF Same
    <3>3. {"list", "index"} \subseteq Settling
      BY DEF Settling
    <3> QED
      BY <1>2, <1>9, <3>1, <3>2, <3>3 DEF Reached, Wanted, Up
  <2>2. Fits(a) /\ Last(job'[a].todo) # "fail" => Fits(a)'
    <3>1. job' = [job EXCEPT ![a].todo = Tail(t)]
          \/ job' = [job EXCEPT ![a].todo = RegisterFailed(job[a]), ![a].conn = None]
      BY DEF ListTools, Advance
    <3>2. CASE job' = [job EXCEPT ![a].todo = RegisterFailed(job[a]), ![a].conn = None]
      <4>1. job'[a].todo = RegisterFailed(job[a])
        BY <3>2, Sets DEF Turns, ToolsInv, LeakInv
      <4>2. Head(job'[a].todo) \notin Holding
        BY <1>2, <4>1, RegistrationFails DEF ToolsInv, LeakInv
      <4> QED
        BY <1>9, <4>2 DEF Holding
    <3>3. CASE job' = [job EXCEPT ![a].todo = Tail(t)]
      <4>1. job'[a].todo = Tail(t)
        BY <3>3, Sets DEF Turns, ToolsInv, LeakInv
      <4> QED
        BY <1>1, <1>2, <4>1, AdvanceFits DEF Final
    <3> QED
      BY <3>1, <3>2, <3>3
  <2> QED
    BY <1>1, <1>2, <1>6, <1>7, <1>8, <1>9, <2>1, <2>2, RunKept DEF Matching, RunInv, Sound, Clean
<1>10. CASE Gives(a) /\ conns' = [conns EXCEPT ![d].session = "closed"]
  <2>1. Alone => Last(job'[a].todo) = "fail"
    BY <1>2, <1>10, Solo DEF Gives, ToolsInv, LeakInv
  <2> QED
    BY <1>1, <1>2, <1>6, <1>7, <1>8, <2>1, RunKept DEF RunInv, Sound, Clean
<1> QED
  BY <1>1, <1>9, <1>10

LEMMA IndexRun ==
    ASSUME ToolsInv, RunInv, IdsAssumption, NEW a \in Actors, Index(a)
    PROVE  RunInv'
<1> DEFINE n == job[a].name  d == job[a].conn  t == job[a].todo
<1>1. /\ At(a, "index") /\ GoesOn(a) /\ job[a].op \in DOMAIN Closing
      /\ Head(job'[a].todo) \in After(job[a].op, "index") /\ n \in Names
  BY IndexMoves DEF ToolsInv, LeakInv
<1>2. /\ UNCHANGED <<file, plugins, starting, setting, failed, startedOff, servers, reaping>>
      /\ t # <<>> /\ Head(t) = "index" /\ \E list : conns' = [conns EXCEPT ![d].tools = list]
  BY <1>1 DEF Index, disk, rest, At
<1>3. \A m \in Names : servers[m] \in Ids \union {None}
  BY DEF ToolsInv, LeakInv, Shapes
<1>4. \A c \in Ids : /\ conns'[c].session = conns[c].session /\ conns'[c].handler = conns[c].handler
                     /\ conns'[c].cfg = conns[c].cfg
  BY <1>2 DEF ToolsInv, LeakInv, Shapes, ConnFields
<1>5. \A m \in Names : Remains(m)
  BY <1>2, <1>3, <1>4 DEF Remains
<1>6. Alone /\ servers'[n] # None => "on" \in DOMAIN conns'[servers'[n]].cfg
  BY <1>1, <1>2, <1>3, <1>4 DEF RunInv, Sound, Current
<1>7. ~At(a, "publish")'
  BY <1>1, AfterBefore DEF At
<1>8. Reached(a) => Reached(a)'
  <2>1. servers[n] # None => /\ conns'[servers[n]].session = conns[servers[n]].session
                             /\ conns'[servers[n]].handler = conns[servers[n]].handler
    BY <1>1, <1>3, <1>4
  <2>2. job'[a].name = n /\ job'[a].cfg = job[a].cfg
    BY <1>1 DEF GoesOn, Same
  <2>3. "index" \in Settling
    BY DEF Settling
  <2> QED
    BY <1>2, <2>1, <2>2, <2>3 DEF Reached, Wanted, Up
<1>9. Fits(a) => Fits(a)'
  <2>1. job' = [job EXCEPT ![a].todo = Tail(t), ![a].conn = None]
    BY DEF Index
  <2>2. job'[a].todo = Tail(t)
    BY <2>1, Sets DEF Turns, ToolsInv, LeakInv
  <2> QED
    BY <1>1, <1>2, <2>2, AdvanceFits DEF Final, GoesOn
<1> QED
  BY <1>1, <1>2, <1>5, <1>6, <1>7, <1>8, <1>9, RunKept DEF Matching, RunInv, Sound, Clean, GoesOn

LEMMA WriteRun ==
    ASSUME ToolsInv, RunInv, IdsAssumption, NEW a \in Actors, WriteFile(a)
    PROVE  RunInv'
<1> DEFINE n == job[a].name  t == job[a].todo
<1>1. PICK s \in Writes, ok \in BOOLEAN : \E tools, plugged, tracked :
         /\ Rewrite(a, s, ok, tools, plugged, tracked)
         /\ Puts(a, s, ok, tools, plugged, tracked) /\ DOMAIN tools = DOMAIN file
  BY WriteIs
<1>2. PICK tools, plugged, tracked :
         /\ Rewrite(a, s, ok, tools, plugged, tracked)
         /\ Puts(a, s, ok, tools, plugged, tracked) /\ DOMAIN tools = DOMAIN file
  BY <1>1
<1>3. /\ At(a, s) /\ Others(a) /\ Same(a) /\ job'[a].todo # <<>>
      /\ job[a].op \in DOMAIN Closing /\ n \in Names
      /\ \/ GoesOn(a) /\ Head(job'[a].todo) \in After(job[a].op, s)
            /\ file' = tools /\ sections' = plugged /\ plugins' = tracked /\ UNCHANGED failed
         \/ Head(job'[a].todo) \in {"unpublish", "fail"} /\ failed' /\ UNCHANGED disk
  BY <1>2, WriteMoves DEF ToolsInv, LeakInv
<1>4. /\ UNCHANGED <<servers, conns, starting, setting, startedOff, reaping>> /\ t # <<>> /\ Head(t) = s
      /\ failed => failed'
      /\ (file' = tools /\ plugins' = tracked /\ Advance(a)) \/ (failed' /\ UNCHANGED disk)
  BY <1>2, <1>3 DEF Rewrite, manager, rest, At
<1>5. \A m \in Names \ {n} : file'[m] = file[m] /\ (m \in plugins' <=> m \in plugins)
  <2>1. CASE UNCHANGED disk
    BY <2>1 DEF disk
  <2>2. CASE file' = tools /\ plugins' = tracked
    BY <1>2, <2>2 DEF Puts, ToolsInv, LeakInv, Shapes
  <2> QED
    BY <1>4, <2>1, <2>2
<1>6. \A m \in Names : Remains(m)
  BY <1>4 DEF Remains
<1>7. Alone /\ servers'[n] # None => "on" \in DOMAIN conns'[servers'[n]].cfg
  BY <1>3, <1>4 DEF RunInv, Sound, Current
<1>8. ~At(a, "publish")'
  <2>1. After(job[a].op, s) \cap Holding = {}
    BY <1>3, Holds DEF Holding, Steps, Writes
  <2> QED
    BY <1>3, <2>1 DEF At, Holding
<1>9. Reached(a) => Reached(a)'
  <2>1. job'[a].name = n /\ job'[a].cfg = job[a].cfg
    BY <1>3 DEF Same
  <2>2. s \in Settling
    BY DEF Settling
  <2> QED
    BY <1>4, <2>1, <2>2 DEF Reached, Wanted, Up
<1>10. failed' \/ Last(job'[a].todo) = Last(t)
  BY <1>3 DEF GoesOn
<1>11. ASSUME ~failed', Fits(a) PROVE Fits(a)'
  <2>1. job' = [job EXCEPT ![a].todo = Tail(t)]
    BY <1>4, <1>11 DEF Advance
  <2>2. job'[a].todo = Tail(t)
    BY <2>1, Sets DEF Turns, ToolsInv, LeakInv
  <2>3. s \notin Final
    BY DEF Writes, Final
  <2> QED
    BY <1>3, <1>4, <1>11, <2>2, <2>3, AdvanceFits
<1> QED
  BY <1>3, <1>4, <1>5, <1>6, <1>7, <1>8, <1>9, <1>10, <1>11, RunKept DEF Matching, RunInv, Sound, Clean

LEMMA FinishRun ==
    ASSUME ToolsInv, RunInv, IdsAssumption, NEW a \in Actors, Finish(a)
    PROVE  RunInv'
<1> DEFINE n == job[a].name
<1>1. /\ Others(a) /\ job'[a] = Idle /\ job[a].todo # <<>> /\ n \in Names
      /\ UNCHANGED <<servers, file, plugins, starting, setting, startedOff, reaping>>
      /\ conns' = Swept(job') /\ failed' = (failed \/ At(a, "fail"))
      /\ At(a, "done") \/ At(a, "fail")
  <2>1. At(a, "done") \/ At(a, "fail")
    BY DEF Finish
  <2>2. job[a].todo # <<>>
    BY <2>1 DEF At
  <2>3. n \in Names
    BY <2>2 DEF ToolsInv, LeakInv, Jobs, Ready
  <2>4. Others(a) /\ job'[a] = Idle
    BY FinishMoves DEF ToolsInv, LeakInv
  <2> QED
    BY <2>1, <2>2, <2>3, <2>4 DEF Finish, disk, rest
<1>2. \A m \in Names : Remains(m)
  <2>1. ASSUME NEW m \in Names, servers[m] # None PROVE conns'[servers[m]] = conns[servers[m]]
    <3>1. servers[m] \in Ids
      BY <2>1 DEF ToolsInv, LeakInv, Shapes
    <3>2. Referred(servers[m], job')
      BY DEF Referred
    <3> QED
      BY <1>1, <3>1, <3>2 DEF Swept
  <2> QED
    BY <1>1, <2>1 DEF Remains
<1> SUFFICES ASSUME Alone PROVE Sound' /\ (~failed' => Matching')
  BY <1>1 DEF RunInv, Alone
<1>3. \A b \in Actors \ {a} : job[b].todo = <<>>
  BY <1>1, Solo DEF ToolsInv, LeakInv
<1>4. \A b \in Actors : job'[b].todo = <<>>
  BY <1>1, <1>3, Idles DEF Others
<1>5. Sound'
  <2>1. Sound
    BY DEF RunInv
  <2>2. \A m \in Names : servers'[m] # None => "on" \in DOMAIN Current(m)'
    BY <1>1, <1>2, <2>1, RemainsRight DEF Sound
  <2> QED
    BY <1>1, <1>4, <2>1, <2>2 DEF Sound, Clean, At
<1>6. ASSUME ~failed' PROVE Matching'
  <2>1. ~failed /\ At(a, "done") /\ Matching
    BY <1>1, <1>6 DEF RunInv
  <2>2. Head(job[a].todo) = "done" /\ ~Failing(a)
    BY <2>1, EndsFailing DEF At, Failing, Final, ToolsInv, LeakInv
  <2>3. Going(a) /\ Reached(a)
    BY <1>1, <2>1, <2>2 DEF ToolsInv, SaveInv, InStep, Matching
  <2>4. ASSUME servers[n] # None, n \notin plugins PROVE Right(n)
    <3>1. job[a].op \notin Removing
      BY <2>2, <2>3, <2>4 DEF Going, Placed, At, Removing
    <3>2. job[a].op # "addPlugin"
      BY <2>1, <2>3, <2>4 DEF Going, Listing
    <3>3. Current(n) = job[a].cfg
      BY <2>2, <2>3, <3>1, <3>2 DEF Going, Placed
    <3>4. "done" \in Settling
      BY DEF Settling
    <3> QED
      BY <2>2, <2>3, <2>4, <3>3, <3>4 DEF Reached, Right
  <2>5. ASSUME NEW m \in Names, servers'[m] # None, m \notin plugins' PROVE Right(m)'
    <3>1. Right(m)
      BY <1>1, <1>3, <2>1, <2>4, <2>5 DEF Matching
    <3> QED
      BY <1>1, <1>2, <2>5, <3>1, RemainsRight
  <2> QED
    BY <1>4, <2>5 DEF Matching
<1> QED
  BY <1>5, <1>6

LEMMA StartRun ==
    ASSUME ToolsInv, RunInv, NEW a \in Actors, NEW op, NEW n \in Names, NEW cfg, NEW heads,
           Starts(a, op, n, cfg, heads), "publish" \notin heads,
           UNCHANGED <<servers, file, plugins, setting, failed, reaping>>, starting' \subseteq starting,
           \A m \in Names \ {n} : m \in startedOff' <=> m \in startedOff,
           Alone =>
              /\ starting' # {} => startedOff' = {}
              /\ \A b \in Actors : job[b].todo = <<>>
              /\ \A m \in Names \ {n} : Remains(m)
              /\ "on" \in DOMAIN cfg
              /\ servers[n] # None => "on" \in DOMAIN conns'[servers[n]].cfg
              /\ ~failed => Fits(a)' /\ Reached(a)'
    PROVE  RunInv'
<1> SUFFICES ASSUME Alone PROVE Sound' /\ (~failed' => Matching')
  BY DEF RunInv, Alone
<1>1. /\ Others(a) /\ job'[a].todo # <<>> /\ Head(job'[a].todo) \in heads
      /\ job'[a].name = n /\ job'[a].cfg = cfg
  BY DEF Starts
<1>2. \A b \in Actors \ {a} : job'[b].todo = <<>>
  BY <1>1 DEF Others
<1>3. Sound'
  <2>1. Sound
    BY DEF RunInv
  <2>2. ASSUME NEW m \in Names, servers'[m] # None PROVE "on" \in DOMAIN Current(m)'
    <3>1. CASE m = n
      BY <2>2, <3>1 DEF Current
    <3>2. CASE m # n
      BY <2>1, <2>2, <3>2, RemainsRight DEF Sound
    <3> QED
      BY <3>1, <3>2
  <2>3. \A b \in Actors : (job'[b].todo # <<>> => "on" \in DOMAIN job'[b].cfg) /\ Clean(b)'
    BY <1>1, <1>2 DEF Clean, At
  <2> QED
    BY <2>1, <2>2, <2>3 DEF Sound
<1>4. ASSUME ~failed' PROVE Matching'
  <2>1. Matching
    BY <1>4 DEF RunInv
  <2>2. ASSUME NEW m \in Names \ {n}, servers'[m] # None, m \notin plugins' PROVE Right(m)'
    <3>1. Right(m)
      BY <2>1, <2>2 DEF Matching
    <3> QED
      BY <2>2, <3>1, RemainsRight
  <2>3. \A b \in Actors : job'[b].todo # <<>> /\ ~Failing(b)' => Fits(b)' /\ Reached(b)'
    BY <1>2, <1>4
  <2> QED
    BY <1>1, <2>2, <2>3 DEF Matching
<1> QED
  BY <1>3, <1>4

(* A server that was started although it is disabled is remembered.        *)
LEMMA BegunOff ==
    ASSUME ToolsInv, NEW a \in Actors, NEW op, NEW n, NEW cfg, NEW todo, Begin(a, op, n, cfg, todo)
    PROVE  /\ job'[a].todo = todo
           /\ op \in {"withhold", "reconnect"} => startedOff' = startedOff
           /\ op \in {"add", "restart"} =>
                 startedOff' = IF cfg.on = "off" THEN startedOff \union {n} ELSE startedOff \ {n}
           /\ op \notin {"withhold", "reconnect", "add", "restart"} => startedOff' = startedOff \ {n}
<1>1. job' = [job EXCEPT ![a] = [Idle EXCEPT !.op = op, !.name = n, !.cfg = cfg, !.todo = todo]]
  BY DEF Begin
<1>2. [Idle EXCEPT !.op = op, !.name = n, !.cfg = cfg, !.todo = todo].todo = todo
  BY DEF Idle
<1>3. job'[a].todo = todo
  BY <1>1, <1>2 DEF ToolsInv, LeakInv, Jobs
<1>4. startedOff' = IF op \in {"withhold", "reconnect"} THEN startedOff
                    ELSE IF op \in {"add", "restart"} /\ cfg.on = "off" THEN startedOff \union {n}
                    ELSE startedOff \ {n}
  BY DEF Begin
<1> QED
  BY <1>3, <1>4

(* What the lists of steps are made of.                                    *)
LEMMA Parts ==
    ASSUME NEW cfg
    PROVE  LET raise == Allowed(TRUE)  lower == Allowed(FALSE) IN
           /\ Register(cfg) \in Seq(raise) /\ Unregister \in Seq(raise) /\ Unregister \in Seq(lower)
           /\ \A s \in Writes \union {"done", "hold"} : <<s>> \in Seq(raise)
           /\ \A s \in Writes \union {"done", "shelve"} : <<s>> \in Seq(lower)
           /\ \A s \in Writes : \A t \in Writes \union {"done"} :
                 /\ <<s, t>> \in Seq(raise) /\ <<s, t>> \in Seq(lower)
                 /\ <<s, t, "done">> \in Seq(raise) /\ <<s, t, "done">> \in Seq(lower)
           /\ <<"shelve", "saveOff", "done">> \in Seq(lower)
           /\ \A p, q \in Seq(raise) : p \o q \in Seq(raise)
           /\ \A p, q \in Seq(lower) : p \o q \in Seq(lower)
<1> DEFINE raise == Allowed(TRUE)  lower == Allowed(FALSE)
<1>1. /\ Writes \union {"done"} \subseteq raise /\ Writes \union {"done"} \subseteq lower
      /\ {"hold", "lookup", "oauth", "connect", "publish", "list", "index", "unpublish", "drain"} \subseteq raise
      /\ {"shelve", "unpublish", "drain"} \subseteq lower
  BY DEF Allowed, Steps, Registering, Writes
<1>2. "saveOff" \in Writes
  BY DEF Writes
<1> HIDE DEF raise, lower
<1>3. Register(cfg) \in Seq(raise)
  <2>1. <<"lookup", "oauth">> \in Seq(raise) /\ <<>> \in Seq(raise) /\ <<"connect", "publish", "list", "index">> \in Seq(raise)
    BY <1>1
  <2> QED
    BY <2>1 DEF Register
<1>4. Unregister \in Seq(raise) /\ Unregister \in Seq(lower)
  BY <1>1 DEF Unregister
<1>5. /\ \A s \in Writes \union {"done", "hold"} : <<s>> \in Seq(raise)
      /\ \A s \in Writes \union {"done", "shelve"} : <<s>> \in Seq(lower)
      /\ <<"shelve", "saveOff", "done">> \in Seq(lower)
  BY <1>1, <1>2
<1>6. \A s \in Writes : \A t \in Writes \union {"done"} :
         /\ <<s, t>> \in Seq(raise) /\ <<s, t>> \in Seq(lower)
         /\ <<s, t, "done">> \in Seq(raise) /\ <<s, t, "done">> \in Seq(lower)
  BY <1>1
<1>7. /\ \A p, q \in Seq(raise) : p \o q \in Seq(raise)
      /\ \A p, q \in Seq(lower) : p \o q \in Seq(lower)
  OBVIOUS
<1> QED
  BY <1>3, <1>4, <1>5, <1>6, <1>7 DEF raise, lower

LEMMA ToolRun ==
    ASSUME ToolsInv, RunInv, IdsAssumption, NEW n \in Names, NEW cfg, "on" \in DOMAIN cfg,
           NEW tools \in BOOLEAN,
           \/ AddTool(n, cfg) \/ RemoveTool(n) \/ UpdateTool(n, cfg) \/ RestartTool(n)
           \/ DisableTool(n) \/ EnableTool(n) \/ AddPlugin(n, tools) \/ RemovePlugin(n)
    PROVE  RunInv'
<1> DEFINE a == "lifecycle"  cur == Current(n)  new == Merged(cfg, Current(n))
           R(c) == Register(c)  U == Unregister
<1>1. /\ Free /\ UNCHANGED <<servers, conns, reaping, file, plugins, setting, starting, failed>>
      /\ a \in Actors /\ starting = {}
  BY DEF AddTool, RemoveTool, UpdateTool, RestartTool, DisableTool, EnableTool, AddPlugin, RemovePlugin,
         Begin, disk, manager, Actors, Free, Started
<1>2. Alone => \A b \in Actors : job[b].todo = <<>>
  BY <1>1, AllIdle
<1>3. /\ {"unpublish"} \cap Settling = {} /\ {"lookup", "connect"} \cap Settling = {}
      /\ "publish" \notin {"unpublish"} /\ "publish" \notin {"lookup", "connect"} /\ "publish" \notin {"savePlugin"}
      /\ {"save", "erase", "saveOff", "saveOn", "savePlugin", "erasePlugin"} \subseteq Writes
  BY DEF Settling, Writes
<1>4. "on" \in DOMAIN NoCfg /\ "on" \in DOMAIN PluginCfg /\ NoCfg.on = "on" /\ PluginCfg.on = "on"
  BY DEF NoCfg, PluginCfg
<1>5. \A m : Remains(m)
  BY <1>1 DEF Remains
<1>6. Alone /\ servers[n] # None => "on" \in DOMAIN cur
  BY DEF RunInv, Sound
<1>7. "on" \in DOMAIN new
  BY DEF Merged
<1>8. \A b, op, c, todo : Begin(b, op, n, c, todo) /\ b \in Actors =>
         /\ job'[b].todo = todo
         /\ op \in {"add", "restart"} =>
               startedOff' = IF c.on = "off" THEN startedOff \union {n} ELSE startedOff \ {n}
         /\ op \notin {"withhold", "reconnect", "add", "restart"} => startedOff' = startedOff \ {n}
  BY BegunOff
<1>9. \A c : LET raise == Allowed(TRUE)  lower == Allowed(FALSE) IN
         /\ R(c) \in Seq(raise) /\ U \in Seq(raise) /\ U \in Seq(lower)
         /\ \A s \in Writes \union {"done", "hold"} : <<s>> \in Seq(raise)
         /\ \A s \in Writes \union {"done", "shelve"} : <<s>> \in Seq(lower)
         /\ \A s \in Writes : \A t \in Writes \union {"done"} :
               /\ <<s, t>> \in Seq(raise) /\ <<s, t>> \in Seq(lower)
               /\ <<s, t, "done">> \in Seq(raise) /\ <<s, t, "done">> \in Seq(lower)
         /\ <<"shelve", "saveOff", "done">> \in Seq(lower)
         /\ \A p, q \in Seq(raise) : p \o q \in Seq(raise)
         /\ \A p, q \in Seq(lower) : p \o q \in Seq(lower)
  BY Parts
<1> HIDE DEF a, cur, new, R, U
<1>10. ASSUME NEW op, NEW c, NEW heads, NEW wanted \in BOOLEAN, NEW todo \in Seq(Allowed(wanted)),
              Starts(a, op, n, c, heads), "publish" \notin heads,
              heads \cap Settling = {} \/ servers[n] = None, "on" \in DOMAIN c \/ ~Alone,
              job'[a].todo = todo, Wanted(n, c)' <=> wanted,
              \A m \in Names \ {n} : m \in startedOff' <=> m \in startedOff
       PROVE  RunInv'
  <2>1. job'[a].name = n /\ job'[a].cfg = c /\ Head(job'[a].todo) \in heads
    BY <1>10 DEF Starts
  <2>2. Allowed(Wanted(n, c)') = Allowed(wanted)
    BY <1>10 DEF Allowed
  <2>3. Fits(a)'
    BY <1>10, <2>1, <2>2 DEF Fits, Wanted, Allowed
  <2>4. Reached(a)'
    BY <1>1, <1>10, <2>1 DEF Reached
  <2>5. Alone /\ servers[n] # None => "on" \in DOMAIN conns'[servers'[n]].cfg
    BY <1>1, <1>6 DEF cur, Current
  <2> QED
    BY <1>1, <1>2, <1>5, <1>10, <2>3, <2>4, <2>5, StartRun
<1>11. CASE AddTool(n, cfg)
  <2> DEFINE todo == R(cfg) \o <<"save", "done">>
  <2>1. /\ Starts(a, "add", n, cfg, {"lookup", "connect"})
        /\ Begin(a, "add", n, cfg, todo) /\ a \in Actors /\ servers[n] = None
    BY <1>1, <1>11, BeginMoves DEF AddTool, Admits, ToolsInv, LeakInv, a, R, U
  <2>2. todo \in Seq(Allowed(TRUE))
    BY <1>3, <1>9
  <2> HIDE DEF todo
  <2>3. job'[a].todo = todo /\ (Wanted(n, cfg)' <=> TRUE) /\ \A m \in Names \ {n} : m \in startedOff' <=> m \in startedOff
    BY <1>4, <1>6, <1>8, <2>1 DEF Wanted
  <2> QED
    BY <1>3, <1>4, <1>6, <1>7, <1>10, <2>1, <2>2, <2>3
<1>12. CASE RemoveTool(n)
  <2> DEFINE todo == U \o <<"erase", "done">>
  <2>1. /\ Starts(a, "remove", n, NoCfg, {"unpublish"})
        /\ Begin(a, "remove", n, NoCfg, todo) /\ a \in Actors
    BY <1>1, <1>12, BeginMoves DEF RemoveTool, ToolsInv, LeakInv, a, R, U
  <2>2. todo \in Seq(Allowed(TRUE))
    BY <1>3, <1>9
  <2> HIDE DEF todo
  <2>3. job'[a].todo = todo /\ (Wanted(n, NoCfg)' <=> TRUE) /\ \A m \in Names \ {n} : m \in startedOff' <=> m \in startedOff
    BY <1>4, <1>6, <1>8, <2>1 DEF Wanted
  <2> QED
    BY <1>3, <1>4, <1>6, <1>7, <1>10, <2>1, <2>2, <2>3
<1>13. CASE UpdateTool(n, cfg) /\ new.on = "off"
  <2>0. PICK c : c = new
    OBVIOUS
  <2> DEFINE todo == U \o <<"shelve">> \o <<"erase", "save", "done">>
  <2>1. /\ Starts(a, "update", n, c, {"unpublish"})
        /\ Begin(a, "update", n, c, todo) /\ a \in Actors
    BY <1>1, <1>13, <2>0, BeginMoves DEF UpdateTool, new, ToolsInv, LeakInv, a, R, U
  <2>2. todo \in Seq(Allowed(FALSE))
    BY <1>3, <1>9
  <2> HIDE DEF todo
  <2>3. job'[a].todo = todo /\ (Wanted(n, c)' <=> FALSE) /\ \A m \in Names \ {n} : m \in startedOff' <=> m \in startedOff
    BY <1>4, <1>6, <1>8, <1>13, <2>1, <2>0 DEF Wanted
  <2> QED
    BY <1>3, <1>4, <1>6, <1>7, <1>10, <2>0, <2>1, <2>2, <2>3
<1>14. CASE UpdateTool(n, cfg) /\ new.on # "off"
  <2>0. PICK c : c = new
    OBVIOUS
  <2> DEFINE todo == U \o R(c) \o <<"erase", "save", "done">>
  <2>1. /\ Starts(a, "update", n, c, {"unpublish"})
        /\ Begin(a, "update", n, c, todo) /\ a \in Actors
    BY <1>1, <1>14, <2>0, BeginMoves DEF UpdateTool, new, ToolsInv, LeakInv, a, R, U
  <2>2. todo \in Seq(Allowed(TRUE))
    BY <1>3, <1>9
  <2> HIDE DEF todo
  <2>3. job'[a].todo = todo /\ (Wanted(n, c)' <=> TRUE) /\ \A m \in Names \ {n} : m \in startedOff' <=> m \in startedOff
    BY <1>4, <1>6, <1>8, <1>14, <2>1, <2>0 DEF Wanted
  <2> QED
    BY <1>3, <1>4, <1>6, <1>7, <1>10, <2>0, <2>1, <2>2, <2>3
<1>15. CASE RestartTool(n)
  <2>0. PICK c : c = cur
    OBVIOUS
  <2> DEFINE todo == U \o <<"hold">> \o R(c) \o <<"done">>
  <2>1. /\ Starts(a, "restart", n, c, {"unpublish"})
        /\ Begin(a, "restart", n, c, todo) /\ a \in Actors /\ servers[n] # None
    BY <1>1, <1>15, <2>0, BeginMoves DEF RestartTool, Tool, cur, ToolsInv, LeakInv, a, R, U
  <2>2. todo \in Seq(Allowed(TRUE))
    BY <1>3, <1>9
  <2> HIDE DEF todo
  <2>3. job'[a].todo = todo /\ (Wanted(n, c)' <=> TRUE) /\ \A m \in Names \ {n} : m \in startedOff' <=> m \in startedOff
    BY <1>4, <1>6, <1>8, <2>1, <2>0 DEF Wanted
  <2> QED
    BY <1>3, <1>4, <1>6, <1>7, <1>10, <2>0, <2>1, <2>2, <2>3
<1>16. CASE DisableTool(n) /\ Alone
  <2>0. PICK c : c = [cur EXCEPT !.on = "off"]
    OBVIOUS
  <2> DEFINE todo == U \o <<"shelve", "saveOff", "done">>
  <2>1. /\ Starts(a, "disable", n, c, {"unpublish"})
        /\ Begin(a, "disable", n, c, todo) /\ a \in Actors /\ servers[n] # None
    BY <1>1, <1>16, <2>0, BeginMoves DEF DisableTool, Tool, cur, ToolsInv, LeakInv, a, R, U
  <2>2. todo \in Seq(Allowed(FALSE))
    BY <1>3, <1>9
  <2> HIDE DEF todo
  <2>3. job'[a].todo = todo /\ (Wanted(n, c)' <=> FALSE) /\ \A m \in Names \ {n} : m \in startedOff' <=> m \in startedOff
    BY <1>4, <1>6, <1>8, <2>1, <2>0 DEF Wanted
  <2>4. "on" \in DOMAIN c
    BY <1>6, <1>16, <2>0, <2>1
  <2> QED
    BY <1>3, <1>10, <2>1, <2>2, <2>3, <2>4
<1>17. CASE EnableTool(n) /\ Alone
  <2>0. PICK c : c = [cur EXCEPT !.on = "on"]
    OBVIOUS
  <2> DEFINE todo == U \o R(c) \o <<"saveOn", "done">>
  <2>1. /\ Starts(a, "enable", n, c, {"unpublish"})
        /\ Begin(a, "enable", n, c, todo) /\ a \in Actors /\ servers[n] # None
    BY <1>1, <1>17, <2>0, BeginMoves DEF EnableTool, Tool, cur, ToolsInv, LeakInv, a, R, U
  <2>2. todo \in Seq(Allowed(TRUE))
    BY <1>3, <1>9
  <2> HIDE DEF todo
  <2>3. job'[a].todo = todo /\ (Wanted(n, c)' <=> TRUE) /\ \A m \in Names \ {n} : m \in startedOff' <=> m \in startedOff
    BY <1>4, <1>6, <1>8, <2>1, <2>0 DEF Wanted
  <2>4. "on" \in DOMAIN c
    BY <1>6, <1>17, <2>0, <2>1
  <2> QED
    BY <1>3, <1>10, <2>1, <2>2, <2>3, <2>4
<1>18. CASE AddPlugin(n, tools) /\ tools
  <2> DEFINE todo == R(PluginCfg) \o <<"savePlugin", "done">>
  <2>1. /\ Starts(a, "addPlugin", n, PluginCfg, {"lookup", "connect"})
        /\ Begin(a, "addPlugin", n, PluginCfg, todo) /\ a \in Actors /\ servers[n] = None
    BY <1>1, <1>18, BeginMoves DEF AddPlugin, Admits, ToolsInv, LeakInv, a, R, U
  <2>2. todo \in Seq(Allowed(TRUE))
    BY <1>3, <1>9
  <2> HIDE DEF todo
  <2>3. job'[a].todo = todo /\ (Wanted(n, PluginCfg)' <=> TRUE) /\ \A m \in Names \ {n} : m \in startedOff' <=> m \in startedOff
    BY <1>4, <1>6, <1>8, <2>1 DEF Wanted
  <2> QED
    BY <1>3, <1>4, <1>6, <1>7, <1>10, <2>1, <2>2, <2>3
<1>19. CASE AddPlugin(n, tools) /\ ~tools
  <2> DEFINE todo == <<>> \o <<"savePlugin", "done">>
  <2>1. /\ Starts(a, "addPlugin", n, NoCfg, {"savePlugin"})
        /\ Begin(a, "addPlugin", n, NoCfg, todo) /\ a \in Actors /\ servers[n] = None
    BY <1>1, <1>19, BeginMoves DEF AddPlugin, Admits, ToolsInv, LeakInv, a, R, U
  <2>2. todo \in Seq(Allowed(TRUE))
    <3>1. <<>> \o <<"savePlugin", "done">> = <<"savePlugin", "done">>
      OBVIOUS
    <3> QED
      BY <1>3, <1>9, <3>1
  <2> HIDE DEF todo
  <2>3. job'[a].todo = todo /\ (Wanted(n, NoCfg)' <=> TRUE) /\ \A m \in Names \ {n} : m \in startedOff' <=> m \in startedOff
    BY <1>4, <1>6, <1>8, <2>1 DEF Wanted
  <2> QED
    BY <1>3, <1>4, <1>6, <1>7, <1>10, <2>1, <2>2, <2>3
<1>20. CASE RemovePlugin(n)
  <2> DEFINE todo == U \o <<"erasePlugin", "done">>
  <2>1. /\ Starts(a, "removePlugin", n, NoCfg, {"unpublish"})
        /\ Begin(a, "removePlugin", n, NoCfg, todo) /\ a \in Actors
    BY <1>1, <1>20, BeginMoves DEF RemovePlugin, ToolsInv, LeakInv, a, R, U
  <2>2. todo \in Seq(Allowed(TRUE))
    BY <1>3, <1>9
  <2> HIDE DEF todo
  <2>3. job'[a].todo = todo /\ (Wanted(n, NoCfg)' <=> TRUE) /\ \A m \in Names \ {n} : m \in startedOff' <=> m \in startedOff
    BY <1>4, <1>6, <1>8, <2>1 DEF Wanted
  <2> QED
    BY <1>3, <1>4, <1>6, <1>7, <1>10, <2>1, <2>2, <2>3
<1>21. CASE ~Alone
  BY <1>1, <1>21 DEF RunInv, Alone
<1> QED
  BY <1>11, <1>12, <1>13, <1>14, <1>15, <1>16, <1>17, <1>18, <1>19, <1>20, <1>21

LEMMA WithholdRun ==
    ASSUME ToolsInv, RunInv, IdsAssumption, NEW n \in Names, NEW held, Withhold(n, held)
    PROVE  RunInv'
<1> DEFINE a == "lifecycle"  c == servers[n]  cur == Current(n)
<1>1. /\ Free /\ UNCHANGED <<servers, reaping, file, plugins, setting, starting, failed>> /\ a \in Actors
      /\ conns' = [conns EXCEPT ![c].off = held, ![c].cfg.held = held] /\ Tool(n) /\ starting = {}
  BY DEF Withhold, Begin, disk, Actors, Free, Started
<1>2. PICK new : new = [cur EXCEPT !.held = held]
  OBVIOUS
<1>3. Starts(a, "withhold", n, new, {"saveHeld"}) /\ Begin(a, "withhold", n, new, <<"saveHeld", "done">>)
  BY <1>2, BeginMoves DEF ToolsInv, LeakInv, Withhold
<1>4. job'[a].todo = <<"saveHeld", "done">> /\ startedOff' = startedOff
  BY <1>1, <1>3, BegunOff
<1>5. c \in Ids /\ c # None /\ \A m \in Names : servers[m] \in Ids \union {None}
  BY <1>1 DEF ToolsInv, LeakInv, Shapes, Tool
<1>6. /\ conns'[c].session = conns[c].session /\ conns'[c].handler = conns[c].handler
      /\ conns'[c].cfg = new /\ \A d \in Ids \ {c} : conns'[d] = conns[d]
  BY <1>1, <1>2, <1>5 DEF ToolsInv, LeakInv, Shapes, ConnFields, Current
<1>7. ASSUME Alone PROVE /\ \A b \in Actors : job[b].todo = <<>>
                         /\ \A m \in Names \ {n} : Remains(m)
                         /\ "on" \in DOMAIN new
  <2>1. \A m \in Names \ {n} : servers[m] # c
    BY <1>1, <1>5, <1>7 DEF ToolsInv, SaveInv, Named, IdsAssumption
  <2>2. "on" \in DOMAIN cur
    BY <1>5, <1>7 DEF RunInv, Sound
  <2> HIDE DEF cur
  <2> QED
    BY <1>1, <1>2, <1>5, <1>6, <1>7, <2>1, <2>2, AllIdle DEF Remains
<1>8. /\ "publish" \notin {"saveHeld"} /\ "saveHeld" \in Settling
      /\ \A w : <<"saveHeld", "done">> \in Seq(Allowed(w))
  <2>1. \A w : {"saveHeld", "done"} \subseteq Allowed(w)
    BY DEF Allowed, Steps, Registering
  <2> QED
    BY <2>1 DEF Settling, Writes
<1>9. Fits(a)'
  BY <1>4, <1>8 DEF Fits
<1>10. ASSUME Alone, ~failed PROVE Reached(a)'
  <2>1. Right(n)
    BY <1>1, <1>5, <1>7, <1>10 DEF RunInv, Matching, Tool
  <2>2. cur.on = new.on
    <3> HIDE DEF cur
    <3> QED
      BY <1>2
  <2>3. (conns[c].session \in {"open", "broken"} \/ (conns[c].session = "none" /\ conns[c].handler))
           <=> (new.on # "off" \/ n \in startedOff)
    <3> HIDE DEF cur
    <3> QED
      BY <2>1, <2>2 DEF Right, Up, Wanted, cur
  <2>4. job'[a].name = n /\ job'[a].cfg = new
    BY <1>3 DEF Starts
  <2>5. (conns'[c].session \in {"open", "broken"} \/ (conns'[c].session = "none" /\ conns'[c].handler))
           <=> (new.on # "off" \/ n \in startedOff')
    BY <1>4, <1>6, <2>3
  <2> QED
    <3>1. servers'[job'[a].name] = c
      BY <1>1, <2>4
    <3> QED
      BY <2>4, <2>5, <3>1 DEF Reached, Up, Wanted
<1> HIDE DEF cur
<1>11. Alone => (starting' # {} => startedOff' = {})
  BY <1>1
<1> QED
  BY <1>1, <1>3, <1>4, <1>6, <1>7, <1>8, <1>9, <1>10, <1>11, StartRun

LEMMA OperateRun ==
    ASSUME ToolsInv, RunInv, IdsAssumption, SettledAssumption, ConfigsAssumption, NEW n \in Targets, Operate(n)
    PROVE  RunInv'
<1>1. n \in Names /\ "on" \in DOMAIN NoCfg
  BY DEF SettledAssumption, NoCfg
<1>2. \A cfg \in Adds \union Edits : "on" \in DOMAIN cfg
  BY <1>1 DEF ConfigsAssumption
<1>3. \A held : Withhold(n, held) => RunInv'
  BY <1>1, WithholdRun
<1>4. \A cfg \in Adds : AddTool(n, cfg) => RunInv'
  BY <1>1, <1>2, ToolRun
<1>5. \A cfg \in Edits : UpdateTool(n, cfg) => RunInv'
  BY <1>1, <1>2, ToolRun
<1>6. \A tools \in BOOLEAN : AddPlugin(n, tools) => RunInv'
  BY <1>1, ToolRun
<1>7. RemoveTool(n) \/ RestartTool(n) \/ DisableTool(n) \/ EnableTool(n) \/ RemovePlugin(n) => RunInv'
  BY <1>1, ToolRun
<1> QED
  BY <1>3, <1>4, <1>5, <1>6, <1>7 DEF Operate

LEMMA BootToolRun ==
    ASSUME ToolsInv, RunInv, IdsAssumption, SettledAssumption, BoundsAssumption, NEW n \in Targets, BootTool(n)
    PROVE  RunInv'
<1>1. n \in Names /\ "boot" \in Actors
  BY DEF SettledAssumption, Actors
<1>2. /\ UNCHANGED <<servers, conns, reaping, file, plugins, setting, failed, startedOff>>
      /\ starting' = starting \ {n} /\ n \in starting
  BY DEF BootTool, manager, disk
<1>3. /\ Jobs' /\ Others("boot") /\ job["boot"] = Idle
      /\ \/ file[n] = NoCfg /\ UNCHANGED job
         \/ Starts("boot", "boot", n, file[n], {"shelve", "lookup", "connect"})
  BY <1>1, BootToolMoves DEF ToolsInv, LeakInv
<1>4. \A m : Remains(m)
  BY <1>2 DEF Remains
<1>5. Alone => servers[n] = None /\ \A b \in Actors : job[b].todo = <<>>
  BY <1>1, <1>2, <1>3, Idles DEF ToolsInv, LeakInv, OneAtATime, Actors
<1>6. CASE UNCHANGED job
  BY <1>2, <1>6 DEF RunInv, Alone, Sound, Matching, Current, Clean, At, Failing, Fits, Reached, Right, Up, Wanted
<1>7. CASE ~UNCHANGED job /\ Alone
  <2>1. PICK cfg : cfg = file[n]
    OBVIOUS
  <2> DEFINE todo == IF cfg.on = "off" THEN <<"shelve">> \o <<"done">> ELSE Register(cfg) \o <<"done">>
             wanted == cfg.on # "off"
  <2>2. Starts("boot", "boot", n, cfg, {"shelve", "lookup", "connect"})
    BY <1>3, <1>7, <2>1
  <2>3. job'["boot"].todo = todo
    <3>1. \E t : job' = [job EXCEPT !["boot"] =
             [Idle EXCEPT !.op = "boot", !.name = n, !.cfg = cfg, !.tries = t, !.todo = todo]]
      BY <1>7, <2>1 DEF BootTool
    <3> QED
      BY <1>1, <3>1 DEF ToolsInv, LeakInv, Jobs, Idle
  <2>4. todo \in Seq(Allowed(wanted))
    <3>1. /\ <<"shelve">> \o <<"done">> \in Seq(Allowed(FALSE))
          /\ Register(cfg) \o <<"done">> \in Seq(Allowed(TRUE))
      BY Parts
    <3>2. Allowed(wanted) = IF cfg.on # "off" THEN Allowed(TRUE) ELSE Allowed(FALSE)
      BY DEF Allowed
    <3> QED
      BY <3>1, <3>2
  <2>5. startedOff = {} /\ "on" \in DOMAIN cfg
    BY <1>1, <1>2, <1>7, <2>1 DEF RunInv, Sound
  <2> HIDE DEF todo
  <2>6. Fits("boot")'
    <3>1. job'["boot"].name = n /\ job'["boot"].cfg = cfg
      BY <2>2 DEF Starts
    <3>2. Allowed(Wanted(n, cfg)') = Allowed(wanted)
      BY <1>2, <2>5 DEF Allowed, Wanted
    <3> QED
      BY <2>3, <2>4, <3>1, <3>2 DEF Fits, Wanted, Allowed
  <2>7. Reached("boot")'
    BY <1>2, <1>5, <1>7, <2>2 DEF Reached, Starts
  <2> QED
    BY <1>1, <1>2, <1>4, <1>5, <1>7, <2>2, <2>5, <2>6, <2>7, StartRun
<1>8. CASE ~Alone
  BY <1>2, <1>8 DEF RunInv, Alone
<1> QED
  BY <1>6, <1>7, <1>8

(* What is not an operation changes no server that is listed, but for its  *)
(* connection breaking.                                                    *)
LEMMA AsideRun ==
    ASSUME ToolsInv, RunInv, UNCHANGED <<job, servers, file, plugins, starting, setting, failed, startedOff>>,
           reaping' \subseteq reaping,
           Alone => /\ \A m \in Names : Remains(m)
                    /\ \A a \in Actors : At(a, "publish") /\ Up(job[a].conn) => Up(job[a].conn)'
    PROVE  RunInv'
<1> SUFFICES ASSUME Alone PROVE Sound' /\ (~failed' => Matching')
  BY DEF RunInv, Alone
<1>1. Sound'
  <2>1. Sound
    BY DEF RunInv
  <2>2. \A m \in Names : servers'[m] # None => "on" \in DOMAIN Current(m)'
    BY <2>1, RemainsRight DEF Sound
  <2>3. \A a \in Actors : Clean(a)'
    BY <2>1 DEF Sound, Clean, At
  <2> QED
    BY <2>1, <2>2, <2>3 DEF Sound
<1>2. ASSUME ~failed' PROVE Matching'
  <2>1. Matching
    BY <1>2 DEF RunInv
  <2>2. ASSUME NEW m \in Names, servers'[m] # None, m \notin plugins', Right(m) PROVE Right(m)'
    BY <2>2, RemainsRight
  <2>3. ASSUME NEW a \in Actors, job[a].todo # <<>>, Fits(a), Reached(a) PROVE Fits(a)' /\ Reached(a)'
    <3>1. Fits(a)'
      BY <2>3 DEF Fits, Wanted
    <3>2. CASE servers[job[a].name] = None
      BY <3>1, <3>2 DEF Reached
    <3>3. CASE servers[job[a].name] # None
      <4>1. job[a].name \in Names
        BY <2>3 DEF ToolsInv, LeakInv, Jobs, Ready
      <4>2. Up(servers[job[a].name]) <=> Up(servers[job[a].name])'
        BY <3>3, <4>1, RemainsRight
      <4> QED
        BY <2>3, <3>1, <4>2 DEF Reached, Wanted
    <3> QED
      BY <3>1, <3>2, <3>3
  <2> QED
    BY <2>1, <2>2, <2>3 DEF Matching, Failing
<1> QED
  BY <1>1, <1>2

LEMMA ReapRun ==
    ASSUME ToolsInv, RunInv, NEW r \in Ids, Reap(r)
    PROVE  RunInv'
<1>1. /\ UNCHANGED <<job, servers, file, plugins, starting, setting, failed, startedOff>>
      /\ r \in reaping /\ reaping' \subseteq reaping /\ \A c \in Ids : c # r => conns'[c] = conns[c]
  BY ReapShapes DEF Reap, disk, rest, ToolsInv, LeakInv
<1>2. Alone => \A m \in Names : Remains(m)
  BY <1>1 DEF Remains, RunInv, Sound, ToolsInv, LeakInv, Shapes
<1>3. ASSUME Alone, NEW a \in Actors, At(a, "publish"), Up(job[a].conn) PROVE Up(job[a].conn)'
  <2>1. job[a].conn \in Ids
    BY <1>3, Heads DEF ToolsInv, LeakInv, Holding
  <2>2. job[a].conn # r
    BY <1>1, <1>3 DEF RunInv, Sound, Clean
  <2> QED
    BY <1>1, <1>3, <2>1, <2>2 DEF Up
<1> QED
  BY <1>1, <1>2, <1>3, AsideRun

LEMMA OutsideRun ==
    ASSUME ToolsInv, RunInv, IdsAssumption, Outside
    PROVE  RunInv'
<1>1. /\ UNCHANGED <<job, servers, file, plugins, starting, setting, failed, startedOff>>
      /\ reaping' \subseteq reaping
  BY DEF Outside, Expire, RetryDue, Call, Return, GoDown, ComeUp, disk, rest, manager
<1>2. \A m \in Names : servers[m] \in Ids \union {None}
  BY DEF ToolsInv, LeakInv, Shapes
<1>3. \A a \in Actors : At(a, "publish") => job[a].conn \in Ids
  BY Heads DEF ToolsInv, LeakInv, Holding
<1>4. ASSUME \A c \in Ids : /\ conns'[c].cfg = conns[c].cfg /\ conns'[c].handler = conns[c].handler
                            /\ \/ conns'[c].session = conns[c].session
                               \/ {conns[c].session, conns'[c].session} = {"open", "broken"}
      PROVE  RunInv'
  <2>1. \A c \in Ids : /\ conns'[c].session \in {"open", "broken"} <=> conns[c].session \in {"open", "broken"}
                       /\ conns'[c].session = "none" <=> conns[c].session = "none"
    BY <1>4
  <2>2. \A m \in Names : Remains(m)
    BY <1>1, <1>2, <1>4, <2>1 DEF Remains
  <2>3. \A a \in Actors : At(a, "publish") /\ Up(job[a].conn) => Up(job[a].conn)'
    BY <1>1, <1>3, <1>4, <2>1 DEF Up
  <2> QED
    BY <1>1, <2>2, <2>3, AsideRun
<1>5. CASE \E x \in Callers : Call(x) \/ Return(x)
  <2>1. \E c, s : conns' = [conns EXCEPT ![c].calls = s]
    BY <1>5 DEF Call, Return
  <2> QED
    BY <1>4, <2>1 DEF ToolsInv, LeakInv, Shapes, ConnFields
<1>6. CASE \E n \in Targets : GoDown(n)
  <2>1. \A c \in Ids : \/ conns'[c] = conns[c]
                       \/ conns[c].session = "open" /\ conns'[c] = [conns[c] EXCEPT !.session = "broken"]
    BY <1>6 DEF GoDown
  <2>2. ASSUME NEW c \in Ids
        PROVE  /\ conns'[c].cfg = conns[c].cfg /\ conns'[c].handler = conns[c].handler
               /\ \/ conns'[c].session = conns[c].session
                  \/ conns[c].session = "open" /\ conns'[c].session = "broken"
    <3>1. DOMAIN conns[c] = ConnFields
      BY DEF ToolsInv, LeakInv, Shapes
    <3>2. CASE conns'[c] = conns[c]
      BY <3>2
    <3>3. CASE conns[c].session = "open" /\ conns'[c] = [conns[c] EXCEPT !.session = "broken"]
      BY <3>1, <3>3 DEF ConnFields
    <3> QED
      BY <2>1, <3>2, <3>3
  <2> QED
    BY <1>4, <2>2
<1>7. CASE \E c \in Ids : RetryDue(c)
  BY <1>4, <1>7 DEF RetryDue, ToolsInv, LeakInv, Shapes, ConnFields
<1>8. CASE \E n \in Targets : ComeUp(n)
  BY <1>4, <1>8 DEF ComeUp, manager
<1>9. CASE \E c \in Ids : Expire(c)
  <2>1. PICK c \in Ids : Expire(c)
    BY <1>9
  <2>2. \A d \in Ids \ {c} : conns'[d] = conns[d]
    BY <2>1, ExpireIs DEF ToolsInv, LeakInv
  <2>3. Drains(c)
    BY <2>1 DEF Expire
  <2>4. Alone => \A m \in Names : servers[m] # c
    BY <1>2, <2>1, <2>3, NotDrained DEF Drains, RunInv, Sound, IdsAssumption
  <2>5. ASSUME Alone, NEW a \in Actors, At(a, "publish") PROVE job[a].conn # c
    <3>1. c \notin reaping => \E b \in Actors : b # a /\ At(b, "drain")
      BY <2>3, <2>5 DEF Drains, At
    <3>2. job[a].todo # <<>> /\ \A b \in Actors \ {a} : job[b].todo = <<>>
      BY <2>5, Solo DEF At, ToolsInv, LeakInv
    <3>3. c \in reaping
      BY <3>1, <3>2 DEF At
    <3> QED
      BY <2>5, <3>3 DEF RunInv, Sound, Clean
  <2>6. Alone => \A m \in Names : Remains(m)
    BY <1>1, <1>2, <2>2, <2>4 DEF Remains
  <2>7. Alone => \A a \in Actors : At(a, "publish") /\ Up(job[a].conn) => Up(job[a].conn)'
    BY <1>1, <1>3, <2>2, <2>5 DEF Up
  <2> QED
    BY <1>1, <2>6, <2>7, AsideRun
<1> QED
  BY <1>5, <1>6, <1>7, <1>8, <1>9 DEF Outside

LEMMA RivalRun ==
    ASSUME ToolsInv, RunInv, IdsAssumption, SettledAssumption,
           \/ HealthStep \/ BootStep \/ OAuthStep
           \/ \E n \in Targets : Probe(n) \/ Reconnect(n)
    PROVE  RunInv'
<1>1. ~Alone
  BY ActorLeak, RivalLeak DEF ToolsInv
<1>2. UNCHANGED setting
  BY DEF HealthStep, BootStep, OAuthStep, ProbeAnswered, ProbeFailed, Backoff, Reinsert, Healed,
         Pending, Enter, Retry, GiveUp, ClearToken, Initiate, Probe, Reconnect, Begin, rest
<1> QED
  BY <1>1, <1>2 DEF RunInv, Alone

LEMMA RunNext ==
    ASSUME ToolsInv, RunInv, IdsAssumption, SettledAssumption, BoundsAssumption, ConfigsAssumption, Next
    PROVE  RunInv'
<1>1. ASSUME NEW a \in Actors, Step(a) PROVE RunInv'
  <2>1. CASE Finish(a) \/ Unpublish(a) \/ Drained(a) \/ LookUp(a) \/ SetupOAuth(a)
    BY <2>1, FinishRun, UnpublishRun, DrainRun, LookUpRun, SetupRun
  <2>2. CASE Connect(a) \/ Publish(a) \/ ListTools(a) \/ Index(a) \/ Shelve(a) \/ Hold(a) \/ WriteFile(a)
    BY <2>2, ConnectRun, PublishRun, ListRun, IndexRun, EnterRun, WriteRun
  <2>3. CASE HealthStep \/ BootStep \/ OAuthStep
    BY <2>3, RivalRun
  <2> QED
    BY <1>1, <2>1, <2>2, <2>3 DEF Step, HealthStep, BootStep, OAuthStep
<1>2. ASSUME NEW n \in Targets, Operate(n) \/ Probe(n) \/ BootTool(n) \/ Reconnect(n) PROVE RunInv'
  BY <1>2, OperateRun, RivalRun, BootToolRun
<1>3. ASSUME NEW c \in Ids, Reap(c) PROVE RunInv'
  BY <1>3, ReapRun
<1>4. CASE Outside
  BY <1>4, OutsideRun
<1> QED
  BY <1>1, <1>2, <1>3, <1>4 DEF Next, Operate, Outside

LEMMA RunStutter ==
    ASSUME ToolsInv, RunInv, UNCHANGED vars
    PROVE  RunInv'
BY AsideRun DEF vars, manager, disk, rest, Remains, Up

LEMMA RunInit ==
    ASSUME Init, IdsAssumption, SettledAssumption, ConfigsAssumption
    PROVE  RunInv
<1> DEFINE Of(c) == CHOOSE m \in DOMAIN Settled : Settled[m] = c
           cfg == [NoCfg EXCEPT !.gen = 1, !.transport = "stdio"]
<1>1. /\ servers = [n \in Names |-> IF n \in DOMAIN Settled THEN Settled[n] ELSE None]
      /\ job = [a \in Actors |-> Idle] /\ starting = Targets /\ plugins = {}
      /\ reaping = {} /\ startedOff = {}
  BY DEF Init
<1>2. PICK lists : conns = [c \in Ids |->
         IF \E n \in DOMAIN Settled : Settled[n] = c
         THEN [Conn(Of(c), [NoCfg EXCEPT !.gen = 1, !.transport = "stdio"], "open") EXCEPT !.tools = lists[Of(c)]]
         ELSE Conn(<<>>, NoCfg, "none")]
  BY Zenon DEF Init
<1>3. "on" \in DOMAIN cfg /\ cfg.on = "on" /\ "on" \in DOMAIN NoCfg
  BY DEF NoCfg
<1> HIDE DEF cfg
<1>4. \A n, l : LET r == [Conn(n, cfg, "open") EXCEPT !.tools = l] IN r.cfg = cfg /\ r.session = "open"
  BY DEF Conn
<1>5. \A n \in DOMAIN Settled : conns[Settled[n]].cfg = cfg /\ conns[Settled[n]].session = "open"
  <2> HIDE DEF Of
  <2> QED
    BY <1>2, <1>4 DEF SettledAssumption, cfg
<1>6. \A n \in Names : servers[n] # None => n \in DOMAIN Settled /\ servers[n] = Settled[n]
  BY <1>1
<1>7. \A n \in Targets : "on" \in DOMAIN file[n]
  <2>1. PICK f \in [Targets -> setting.boots] : \A n \in Targets : file[n] = f[n]
    <3>1. Targets \subseteq Names
      BY DEF SettledAssumption
    <3> QED
      BY <3>1 DEF Init
  <2>2. setting \in Settings
    BY DEF Init
  <2>3. \A c \in setting.boots : DOMAIN c = DOMAIN NoCfg
    BY <2>2 DEF ConfigsAssumption
  <2> QED
    BY <1>3, <2>1, <2>3
<1>8. \A a \in Actors : job[a].todo = <<>>
  BY <1>1, Idles
<1>9. Sound
  BY <1>1, <1>3, <1>5, <1>6, <1>7, <1>8 DEF Sound, Current, Clean, At
<1>10. Matching
  BY <1>3, <1>5, <1>6, <1>8 DEF Matching, Right, Up, Wanted, Current
<1> QED
  BY <1>9, <1>10 DEF RunInv

(* Without rivals, and while nothing has failed, the file describes what   *)
(* there is between two operations, and exactly what it says enabled runs  *)
(* or waits for authorization, but for a disabled tool that an add or a    *)
(* restart started: whatever operations came before, in whatever order.    *)
THEOREM FileFollowsServers == Spec => []SavedAsRunning
<1> DEFINE Inv == ToolsInv /\ RunInv
<1>1. Init => Inv
  BY LeakInit, SaveInit, RunInit, IdsAssumption, SettledAssumption, ConfigsAssumption DEF ToolsInv
<1>2. Inv /\ [Next]_vars => Inv'
  BY LeakNext, LeakStutter, SaveNext, SaveStutter, RunNext, RunStutter,
     IdsAssumption, SettledAssumption, BoundsAssumption, ConfigsAssumption DEF ToolsInv
<1>3. Inv => SavedAsRunning
  <2> SUFFICES ASSUME ToolsInv, RunInv, Alone, Quiet, ~failed PROVE SavedAsRunning
    BY DEF SavedAsRunning
  <2>1. \A a \in Actors : job[a].todo = <<>>
    BY Idles DEF Quiet
  <2>2. ASSUME NEW n \in Names, servers[n] # None, n \notin plugins PROVE Described(n)
    <3>1. file[n] = Current(n)
      BY <2>1, <2>2 DEF ToolsInv, SaveInv, InStep, Saved, Quiet
    <3>2. Right(n)
      BY <2>1, <2>2 DEF RunInv, Matching
    <3>3. Runs(n) <=> Up(servers[n])
      BY DEF Runs, Up
    <3> QED
      BY <3>1, <3>2, <3>3 DEF Described, Right, Wanted
  <2>3. \A n \in Names : servers[n] = None => file[n] = NoCfg
    BY <2>1 DEF ToolsInv, SaveInv, InStep, Saved, Quiet
  <2> QED
    BY <2>2, <2>3 DEF SavedAsRunning, ToolsInv, SaveInv
<1> QED
  BY <1>1, <1>2, <1>3, PTL DEF Spec

-----------------------------------------------------------------------------
(* The index.                                                              *)

LEMMA Least ==
    ASSUME NEW S \in SUBSET Nat, S # {}
    PROVE  \E x \in S : \A y \in S : x <= y
<1>1. PICK x \in S : \A y \in S : ~(<<y, x>> \in OpToRel(<, Nat))
  BY NatLessThanWellFounded, WFMin
<1>2. \A y \in S : ~(y < x)
  BY <1>1 DEF OpToRel
<1> QED
  BY <1>2

LEMMA FirstClaims ==
    ASSUME NEW claims, claims # {}, \A o \in claims : o.rank \in Nat /\ o.at \in Nat
    PROVE  First(claims) \in claims
<1> DEFINE ranks == {o.rank : o \in claims}
<1>1. PICK r \in ranks : \A q \in ranks : r <= q
  BY Least
<1> DEFINE ats == {o.at : o \in {p \in claims : p.rank = r}}
<1>2. PICK k \in ats : \A q \in ats : k <= q
  BY <1>1, Least
<1>3. PICK o \in claims : o.rank = r /\ o.at = k
  BY <1>2
<1>4. \A p \in claims : o.rank < p.rank \/ (o.rank = p.rank /\ o.at <= p.at)
  <2> SUFFICES ASSUME NEW p \in claims
               PROVE  o.rank < p.rank \/ (o.rank = p.rank /\ o.at <= p.at)
    OBVIOUS
  <2>1. p.rank \in ranks /\ r <= p.rank
    BY <1>1
  <2>2. p.rank = r => p.at \in ats /\ k <= p.at
    BY <1>2
  <2> HIDE DEF ranks, ats
  <2> QED
    BY <1>3, <2>1, <2>2
<1> QED
  BY <1>4 DEF First

(* Lists of tools, by server.                                              *)
AreLists(lists) == \A n \in Names : lists[n] \in Seq(Range(lists[n]))

LEMMA OfferedIs ==
    ASSUME NEW ord \in Seq(Names), NEW lists, AreLists(lists), NEW o \in Offered(ord, lists)
    PROVE  /\ o.server \in Range(ord) /\ o.server \in Names
           /\ o.tool \in Range(lists[o.server]) /\ o.rank \in Nat /\ o.at \in Nat
<1>1. PICK i \in DOMAIN ord : \E j \in DOMAIN lists[ord[i]] :
         o = [server |-> ord[i], rank |-> i, tool |-> lists[ord[i]][j], at |-> j]
  BY DEF Offered
<1>2. PICK j \in DOMAIN lists[ord[i]] :
         o = [server |-> ord[i], rank |-> i, tool |-> lists[ord[i]][j], at |-> j]
  BY <1>1
<1>3. ord[i] \in Names /\ i \in Nat
  OBVIOUS
<1>4. j \in Nat
  BY <1>3 DEF AreLists
<1> QED
  BY <1>2, <1>3, <1>4 DEF Range

LEMMA OfferedHas ==
    ASSUME NEW ord \in Seq(Names), NEW lists
    PROVE  \A n \in Range(ord) : \A t \in Range(lists[n]) :
              \E o \in Offered(ord, lists) : o.server = n /\ o.tool = t
<1> SUFFICES ASSUME NEW n \in Range(ord), NEW t \in Range(lists[n])
             PROVE  \E o \in Offered(ord, lists) : o.server = n /\ o.tool = t
  OBVIOUS
<1>1. PICK i \in DOMAIN ord : ord[i] = n
  BY DEF Range
<1>2. PICK j \in DOMAIN lists[n] : lists[n][j] = t
  BY DEF Range
<1>3. [server |-> ord[i], rank |-> i, tool |-> lists[ord[i]][j], at |-> j] \in Offered(ord, lists)
  BY <1>1, <1>2 DEF Offered
<1> QED
  BY <1>1, <1>2, <1>3

LEMMA OfferedFinite ==
    ASSUME NEW ord \in Seq(Names), NEW lists, AreLists(lists)
    PROVE  IsFiniteSet(Offered(ord, lists))
<1> DEFINE Row(i) == {[server |-> ord[i], rank |-> i, tool |-> lists[ord[i]][j], at |-> j] :
                         j \in DOMAIN lists[ord[i]]}
           all == {Row(i) : i \in DOMAIN ord}
<1>1. \A i \in DOMAIN ord : IsFiniteSet(Row(i))
  <2> SUFFICES ASSUME NEW i \in DOMAIN ord PROVE IsFiniteSet(Row(i))
    OBVIOUS
  <2>1. ord[i] \in Names /\ lists[ord[i]] \in Seq(Range(lists[ord[i]]))
    BY DEF AreLists
  <2>2. DOMAIN lists[ord[i]] = 1 .. Len(lists[ord[i]]) /\ Len(lists[ord[i]]) \in Nat
    BY <2>1
  <2>3. IsFiniteSet(DOMAIN lists[ord[i]])
    BY <2>2, FS_Interval
  <2> DEFINE f == [j \in DOMAIN lists[ord[i]] |->
                     [server |-> ord[i], rank |-> i, tool |-> lists[ord[i]][j], at |-> j]]
  <2>4. f \in Surjection(DOMAIN lists[ord[i]], Row(i))
    BY DEF Surjection
  <2> QED
    BY <2>3, <2>4, FS_Surjection
<1>2. IsFiniteSet(all)
  <2>1. DOMAIN ord = 1 .. Len(ord) /\ Len(ord) \in Nat
    OBVIOUS
  <2>2. IsFiniteSet(DOMAIN ord)
    BY <2>1, FS_Interval
  <2> DEFINE f == [i \in DOMAIN ord |-> Row(i)]
  <2> HIDE DEF Row
  <2>3. f \in Surjection(DOMAIN ord, all)
    BY DEF Surjection
  <2> QED
    BY <2>2, <2>3, FS_Surjection
<1>3. Offered(ord, lists) = UNION all
  BY DEF Offered
<1> HIDE DEF Row
<1>4. \A T \in all : IsFiniteSet(T)
  BY <1>1
<1> QED
  BY <1>2, <1>3, <1>4, FS_UNION

LEMMA Twice ==
    ASSUME NEW S, IsFiniteSet(S), NEW p \in S, NEW q \in S, p # q
    PROVE  Cardinality(S) > 1
<1>1. IsFiniteSet({p}) /\ Cardinality({p}) = 1
  BY FS_Singleton
<1>2. IsFiniteSet({p} \cup {q}) /\ Cardinality({p} \cup {q}) = 2
  <2> DEFINE T == {p}
  <2>1. IsFiniteSet(T) /\ Cardinality(T) = 1 /\ q \notin T
    BY <1>1
  <2> HIDE DEF T
  <2>2. /\ IsFiniteSet(T \cup {q})
        /\ Cardinality(T \cup {q}) = IF q \in T THEN Cardinality(T) ELSE Cardinality(T) + 1
    BY <2>1, FS_AddElement, Zenon
  <2> QED
    BY <2>1, <2>2 DEF T
<1>3. {p} \cup {q} \in SUBSET S
  OBVIOUS
<1>4. Cardinality({p} \cup {q}) <= Cardinality(S) /\ Cardinality(S) \in Nat
  BY <1>3, FS_Subset, FS_CardinalityType
<1> QED
  BY <1>2, <1>4

-----------------------------------------------------------------------------
(* Names, calls and the index.                                             *)

(* The names are those of the servers.                                     *)
Titled ==
    /\ \A n \in Names : servers[n] # None => conns[servers[n]].name = n
    /\ \A a \in Actors :
          /\ job[a].conn # None => conns[job[a].conn].name = job[a].name
          /\ job[a].probed # None => conns[job[a].probed].name = job[a].name

(* A conn whose tools are not known yet: nothing leads to it, and nobody   *)
(* else fills it.                                                          *)
Filling == {"publish", "list", "index"}
Fills(a) == job[a].todo # <<>> /\ Head(job[a].todo) \in Filling

Unrouted(c) ==
    /\ conns[c].tools = <<>> /\ conns[c].calls = {}
    /\ \A t \in DOMAIN index.map : index.map[t].conn # c

Unfilled ==
    /\ \A a \in Actors : Fills(a) => Unrouted(job[a].conn)
    /\ \A a, b \in Actors : Fills(a) /\ a # b /\ job[a].conn = job[b].conn => At(b, "drain")

(* Where an advertised name leads.                                         *)
Routed(t) ==
    LET c == index.map[t].conn
        local == index.map[t].tool
    IN  /\ c \in Ids
        /\ t \in {local, Qualified(conns[c].name, local)}
        /\ conns[c].drain = "live" => local \in Range(conns[c].tools)

Listings == {<<>>} \union UNION {Lists[n] : n \in Names}

(* The operations of the lifecycle manager alone.                          *)
Settles ==
    /\ index = Rebuild(servers, conns, order)
    /\ \A n \in Names : Offers[n] # <<>> => n \in Range(order)
    /\ \A a \in Actors : job[a].todo # <<>> /\ Head(job[a].todo) \in Before => Offers[job[a].name] = <<>>

(* No name is in the order twice.                                         *)
Once(ord) == \A i, j \in DOMAIN ord : ord[i] = ord[j] => i = j

RouteInv ==
    /\ order \in Seq(Names) /\ Once(order)
    /\ \A c \in Ids : conns[c].tools \in Listings
    /\ Titled
    /\ Unfilled
    /\ \A t \in DOMAIN index.map : Routed(t)
    /\ Alone => Settles

LEMMA MapIs ==
    ASSUME NEW offered, \A o \in offered : o.rank \in Nat /\ o.at \in Nat
    PROVE  LET map == ToolMap(offered) IN
           /\ DOMAIN map = {Advertised(Shared(offered), o) : o \in offered}
           /\ \A t \in DOMAIN map : map[t] \in offered /\ Advertised(Shared(offered), map[t]) = t
<1> DEFINE map == ToolMap(offered)  name(o) == Advertised(Shared(offered), o)
           claims(t) == {o \in offered : name(o) = t}
<1> HIDE DEF name
<1>1. map = [t \in {name(o) : o \in offered} |-> First(claims(t))]
  BY DEF ToolMap, name
<1>2. ASSUME NEW t \in DOMAIN map
      PROVE  map[t] \in claims(t)
  <2>1. claims(t) # {} /\ map[t] = First(claims(t))
    BY <1>1, <1>2
  <2>2. \A o \in claims(t) : o.rank \in Nat /\ o.at \in Nat
    OBVIOUS
  <2> HIDE DEF claims
  <2> QED
    BY <2>1, <2>2, FirstClaims
<1> QED
  BY <1>1, <1>2 DEF name

(* What a list of tools may be.                                            *)
LEMMA ListingIs ==
    ASSUME NamesAssumption, NEW list \in Listings
    PROVE  /\ list \in Seq(Range(list)) /\ \A t \in Range(list) : t \in Seq(Range(t))
           /\ (list = <<>> <=> Range(list) = {})
<1>1. list \in Seq(Range(list)) /\ \A t \in Range(list) : t \in Seq(Range(t))
  <2>1. CASE list = <<>>
    BY <2>1, EmptySeq DEF Range
  <2>2. CASE list # <<>>
    BY <2>2 DEF Listings, NamesAssumption
  <2> QED
    BY <2>1, <2>2
<1>2. list # <<>> => list[1] \in Range(list)
  BY <1>1, EmptySeq DEF Range
<1>3. list = <<>> => Range(list) = {}
  BY EmptySeq DEF Range
<1> QED
  BY <1>1, <1>2, <1>3

(* A qualified name is longer than the name it qualifies.                  *)
LEMMA Longer ==
    ASSUME NamesAssumption, NEW n \in Names, NEW t, t \in Seq(Range(t))
    PROVE  Qualified(n, t) # t
<1>1. n \in Seq(Range(n)) /\ n # <<>>
  BY DEF NamesAssumption
<1>2. n \in Seq(Range(n) \cup Range(t)) /\ t \in Seq(Range(n) \cup Range(t))
  BY <1>1
<1>3. Len(n \o t) = Len(n) + Len(t)
  BY <1>2
<1>4. Len(n) # 0 /\ Len(n) \in Nat /\ Len(t) \in Nat
  BY <1>1, EmptySeq
<1> QED
  BY <1>3, <1>4 DEF Qualified

LEMMA SharedIs ==
    ASSUME NEW offered, NEW o \in offered, NEW p \in offered, o # p, o.tool = p.tool,
           IsFiniteSet(offered)
    PROVE  o.tool \in Shared(offered)
<1>1. o \in Owners(offered, o.tool) /\ p \in Owners(offered, o.tool)
  BY DEF Owners
<1>2. Owners(offered, o.tool) \in SUBSET offered
  BY DEF Owners
<1>3. IsFiniteSet(Owners(offered, o.tool))
  BY <1>2, FS_Subset
<1>4. Cardinality(Owners(offered, o.tool)) > 1
  BY <1>1, <1>3, Twice
<1> QED
  BY <1>4 DEF Shared

LEMMA SharedByTwo ==
    ASSUME NEW ord \in Seq(Names), NEW lists, AreLists(lists), NEW o \in Offered(ord, lists),
           NEW m \in Range(ord), m # o.server, o.tool \in Range(lists[m])
    PROVE  o.tool \in Shared(Offered(ord, lists))
<1>1. PICK p \in Offered(ord, lists) : p.server = m /\ p.tool = o.tool
  BY OfferedHas
<1>2. IsFiniteSet(Offered(ord, lists))
  BY OfferedFinite
<1> QED
  BY <1>1, <1>2, SharedIs

(* Where the names of a new index lead.                                    *)
LEMMA RebuildRoutes ==
    ASSUME NamesAssumption, NEW srv, NEW cs, NEW ord \in Seq(Names),
           \A n \in Names : ListsOf(srv, cs)[n] \in Listings,
           NEW t \in DOMAIN Rebuild(srv, cs, ord).map
    PROVE  LET e == Rebuild(srv, cs, ord).map[t] IN
           \E n \in Range(ord) \cap Names :
              /\ srv[n] # None /\ e.conn = srv[n] /\ e.tool \in Range(cs[srv[n]].tools)
              /\ t \in {e.tool, Qualified(n, e.tool)}
              /\ t = e.tool => \A m \in Range(ord) : m # n => e.tool \notin Range(ListsOf(srv, cs)[m])
<1> DEFINE lists == ListsOf(srv, cs)  offered == Offered(ord, lists)  map == ToolMap(offered)
<1>1. AreLists(lists)
  BY ListingIs DEF AreLists
<1> HIDE DEF lists
<1>2. \A o \in offered : /\ o.server \in Range(ord) \cap Names /\ o.tool \in Range(lists[o.server])
                         /\ o.rank \in Nat /\ o.at \in Nat
  BY <1>1, OfferedIs
<1>4. Rebuild(srv, cs, ord).map = [s \in DOMAIN map |-> [conn |-> srv[map[s].server], tool |-> map[s].tool]]
  BY DEF Rebuild, lists
<1> HIDE DEF offered, map
<1>5. t \in DOMAIN map
  BY <1>4
<1>6. map[t] \in offered /\ Advertised(Shared(offered), map[t]) = t
  BY <1>2, <1>5, MapIs DEF map
<1> DEFINE o == map[t]  n == map[t].server
<1>7. n \in Range(ord) \cap Names /\ o.tool \in Range(lists[n])
  BY <1>2, <1>6
<1>8. srv[n] # None /\ lists[n] = cs[srv[n]].tools
  <2>1. lists[n] = IF srv[n] = None THEN <<>> ELSE cs[srv[n]].tools
    BY <1>7 DEF lists, ListsOf
  <2>2. Range(<<>>) = {}
    BY EmptySeq DEF Range
  <2> QED
    BY <1>7, <2>1, <2>2
<1>9. Rebuild(srv, cs, ord).map[t] = [conn |-> srv[n], tool |-> o.tool]
  BY <1>4, <1>5
<1>10. t \in {o.tool, Qualified(n, o.tool)}
  BY <1>6 DEF Advertised
<1>11. ASSUME t = o.tool, NEW m \in Range(ord), m # n, o.tool \in Range(lists[m])
       PROVE  FALSE
  <2>2. o.tool \in Shared(offered)
    BY <1>1, <1>6, <1>11, SharedByTwo DEF offered
  <2>3. o.tool \in Seq(Range(o.tool))
    BY <1>7, ListingIs DEF lists
  <2>4. Qualified(n, o.tool) # o.tool
    BY <1>7, <2>3, Longer
  <2> QED
    BY <1>6, <1>11, <2>2, <2>4 DEF Advertised
<1> QED
  BY <1>7, <1>8, <1>9, <1>10, <1>11 DEF lists

(* The index depends on the lists, and on the servers that have one.       *)
LEMMA RebuildSame ==
    ASSUME NamesAssumption, NEW srv, NEW cs, NEW srw, NEW ct, NEW ord \in Seq(Names),
           \A n \in Names : ListsOf(srv, cs)[n] \in Listings,
           ListsOf(srv, cs) = ListsOf(srw, ct),
           \A n \in Names : ListsOf(srv, cs)[n] # <<>> => srv[n] = srw[n]
    PROVE  Rebuild(srv, cs, ord) = Rebuild(srw, ct, ord)
<1> DEFINE lists == ListsOf(srv, cs)  offered == Offered(ord, lists)  map == ToolMap(offered)
<1>1. AreLists(lists)
  BY ListingIs DEF AreLists
<1>2. ASSUME NEW t \in DOMAIN map
      PROVE  srv[map[t].server] = srw[map[t].server]
  <2> HIDE DEF lists
  <2>1. map[t] \in offered
    BY <1>1, <1>2, OfferedIs, MapIs
  <2>2. map[t].server \in Names /\ map[t].tool \in Range(lists[map[t].server])
    BY <1>1, <2>1, OfferedIs
  <2>3. lists[map[t].server] # <<>>
    BY <2>2, ListingIs DEF lists
  <2> QED
    BY <2>2, <2>3 DEF lists
<1>3. /\ Rebuild(srv, cs, ord) =
           [map |-> [t \in DOMAIN map |-> [conn |-> srv[map[t].server], tool |-> map[t].tool]],
            shared |-> Shared(offered)]
      /\ Rebuild(srw, ct, ord) =
           [map |-> [t \in DOMAIN map |-> [conn |-> srw[map[t].server], tool |-> map[t].tool]],
            shared |-> Shared(offered)]
  BY DEF Rebuild
<1> HIDE DEF map, offered
<1> QED
  BY <1>2, <1>3

-----------------------------------------------------------------------------
(* What a step may do to the conns: all but a few stay as they are, and    *)
(* those few are known to nobody else.                                     *)

Still(c) ==
    /\ conns'[c].name = conns[c].name /\ conns'[c].tools = conns[c].tools
    /\ conns'[c].drain = "live" => conns[c].drain = "live"
    /\ conns[c].calls = {} => \/ conns'[c].calls = {}
                              \/ \A b \in Actors : Fills(b) => job[b].conn # c

Private(c, a) ==
    /\ \A n \in Names : servers[n] # c
    /\ \A b \in Actors \ {a} : c \notin {job[b].conn, job[b].probed}
    /\ \A t \in DOMAIN index.map : index.map[t].conn # c
    /\ job'[a].probed # c
    /\ conns'[c].tools = <<>> /\ conns'[c].calls = {}

KeepsConn(a, X) ==
    \/ job'[a].conn = None
    \/ job'[a].conn \in X /\ conns'[job'[a].conn].name = job'[a].name
    \/ /\ job'[a].conn = job[a].conn /\ job'[a].name = job[a].name /\ job[a].conn \notin X
       /\ Fills(a)' => Fills(a)
       /\ At(a, "drain") => At(a, "drain")'

KeepsProbed(a) ==
    \/ job'[a].probed = None
    \/ job'[a].probed = job[a].probed /\ job'[a].name = job[a].name
    \/ job'[a].name \in Names /\ job'[a].probed = servers[job'[a].name]

EntersOwn(a, X) ==
    \A n \in Names :
        \/ servers'[n] \in {servers[n], None}
        \/ n = job'[a].name /\ servers'[n] \in {job'[a].conn, job'[a].probed}
        \/ servers'[n] \in X /\ conns'[servers'[n]].name = n

OffersStay(a) ==
    /\ \A n \in Names : servers'[n] # servers[n] =>
          Offers[n] = <<>> /\ (servers'[n] # None => conns'[servers'[n]].tools = <<>>)
    /\ job'[a].todo # <<>> /\ Head(job'[a].todo) \in Before => Offers[job'[a].name] = <<>>

LEMMA RouteKept ==
    ASSUME RouteInv, LeakInv, LeakInv', NamesAssumption, IdsAssumption, NEW a \in Actors, Others(a),
           UNCHANGED <<index, order, setting>>,
           NEW X \in SUBSET Ids, \A c \in X : Private(c, a), \A c \in Ids \ X : Still(c),
           KeepsConn(a, X), KeepsProbed(a), EntersOwn(a, X), Alone => OffersStay(a)
    PROVE  RouteInv'
<1>1. /\ \A n \in Names : servers[n] \in Ids \cup {None} /\ servers'[n] \in Ids \cup {None}
      /\ \A b \in Actors : /\ job[b].conn \in Ids \cup {None} /\ job'[b].conn \in Ids \cup {None}
                           /\ job[b].probed \in Ids \cup {None} /\ job'[b].probed \in Ids \cup {None}
                           /\ Fills(b) => job[b].conn \in Ids
                           /\ Fills(b)' => job'[b].conn \in Ids
      /\ None \notin Ids
  BY DEF LeakInv, Shapes, Jobs, Ready, Fills, Filling, Holding, IdsAssumption
<1>2. \A c \in Ids : conns'[c].tools \in Listings
  BY DEF RouteInv, Private, Still, Listings
<1>3. \A b \in Actors \ {a} : job'[b] = job[b]
  BY DEF Others
<1>4. ASSUME job'[a].conn # None PROVE conns'[job'[a].conn].name = job'[a].name
  <2>1. CASE job'[a].conn \in X /\ conns'[job'[a].conn].name = job'[a].name
    BY <2>1
  <2>2. CASE job'[a].conn = job[a].conn /\ job'[a].name = job[a].name /\ job[a].conn \notin X
    <3>1. conns[job[a].conn].name = job[a].name /\ job[a].conn \in Ids \ X
      BY <1>1, <1>4, <2>2 DEF RouteInv, Titled
    <3> QED
      BY <2>2, <3>1 DEF Still
  <2> QED
    BY <1>4, <2>1, <2>2 DEF KeepsConn
<1>5. ASSUME job'[a].probed # None PROVE conns'[job'[a].probed].name = job'[a].name
  <2>1. job'[a].probed \in Ids \ X
    BY <1>1, <1>5 DEF Private
  <2>2. conns[job'[a].probed].name = job'[a].name
    BY <1>5 DEF KeepsProbed, RouteInv, Titled
  <2> QED
    BY <2>1, <2>2 DEF Still
<1>6. Titled'
  <2>1. ASSUME NEW n \in Names, servers'[n] # None PROVE conns'[servers'[n]].name = n
    <3>1. CASE servers'[n] = servers[n]
      <4>1. conns[servers[n]].name = n /\ servers[n] \in Ids \ X
        BY <1>1, <2>1, <3>1 DEF RouteInv, Titled, Private
      <4> QED
        BY <3>1, <4>1 DEF Still
    <3> QED
      BY <1>4, <1>5, <2>1, <3>1 DEF EntersOwn
  <2>2. ASSUME NEW b \in Actors \ {a}
        PROVE  /\ job'[b].conn # None => conns'[job'[b].conn].name = job'[b].name
               /\ job'[b].probed # None => conns'[job'[b].probed].name = job'[b].name
    <3>1. \A c \in {job[b].conn, job[b].probed} : c # None => c \in Ids \ X /\ conns[c].name = job[b].name
      BY <1>1 DEF RouteInv, Titled, Private
    <3> QED
      BY <1>3, <3>1 DEF Still
  <2> QED
    BY <1>4, <1>5, <2>1, <2>2 DEF Titled
<1>7. \A b \in Actors : (Fills(b) => Unrouted(job[b].conn))'
  <2> SUFFICES ASSUME NEW b \in Actors, Fills(b)'
               PROVE  /\ conns'[job'[b].conn].tools = <<>> /\ conns'[job'[b].conn].calls = {}
                      /\ \A t \in DOMAIN index.map : index.map[t].conn # job'[b].conn
    BY DEF Unrouted
  <2>1. CASE job'[b].conn \in X
    BY <2>1 DEF Private
  <2>2. CASE job'[b].conn \notin X
    <3>1. Fills(b) /\ job'[b].conn = job[b].conn /\ job[b].conn \in Ids
      BY <1>1, <1>3, <2>2 DEF KeepsConn, Fills
    <3>2. Unrouted(job[b].conn) /\ Still(job[b].conn)
      BY <2>2, <3>1 DEF RouteInv, Unfilled
    <3> QED
      BY <3>1, <3>2 DEF Unrouted, Still
  <2> QED
    BY <2>1, <2>2
<1>8. \A b, d \in Actors : Fills(b)' /\ b # d /\ job'[b].conn = job'[d].conn => At(d, "drain")'
  <2> SUFFICES ASSUME NEW b \in Actors, NEW d \in Actors, Fills(b)', b # d, job'[b].conn = job'[d].conn
               PROVE  At(d, "drain")'
    OBVIOUS
  <2>1. job'[b].conn # None
    BY <1>1
  <2>2. CASE job'[b].conn \in X
    BY <1>3, <2>2 DEF Private
  <2>3. CASE job'[b].conn \notin X
    <3>1. Fills(b) /\ job'[b].conn = job[b].conn /\ job'[d].conn = job[d].conn
      BY <1>3, <2>1, <2>3 DEF KeepsConn, Fills
    <3>2. At(d, "drain")
      BY <3>1 DEF RouteInv, Unfilled
    <3> QED
      BY <1>3, <2>1, <2>3, <3>2 DEF KeepsConn, At
  <2> QED
    BY <2>2, <2>3
<1>9. \A t \in DOMAIN index'.map : Routed(t)'
  <2> SUFFICES ASSUME NEW t \in DOMAIN index.map PROVE Routed(t)'
    OBVIOUS
  <2>1. Routed(t) /\ index.map[t].conn \in Ids \ X
    BY DEF RouteInv, Private, Routed
  <2> QED
    BY <2>1 DEF Routed, Still
<1>10. ASSUME Alone PROVE Settles'
  <2>1. \A n \in Names : Offers'[n] = Offers[n]
    <3> SUFFICES ASSUME NEW n \in Names PROVE Offers'[n] = Offers[n]
      OBVIOUS
    <3>1. /\ Offers[n] = IF servers[n] = None THEN <<>> ELSE conns[servers[n]].tools
          /\ Offers'[n] = IF servers'[n] = None THEN <<>> ELSE conns'[servers'[n]].tools
      BY DEF Offers, ListsOf
    <3>2. CASE servers'[n] # servers[n]
      BY <1>10, <3>1, <3>2 DEF OffersStay
    <3>3. CASE servers'[n] = servers[n]
      <4>1. CASE servers[n] = None
        BY <3>1, <3>3, <4>1
      <4>2. CASE servers[n] # None
        <5>1. servers[n] \in Ids \ X
          BY <1>1, <4>2 DEF Private
        <5>2. conns'[servers[n]].tools = conns[servers[n]].tools
          BY <5>1 DEF Still
        <5> QED
          BY <3>1, <3>3, <5>2
      <4> QED
        BY <4>1, <4>2
    <3> QED
      BY <3>2, <3>3
  <2>2. ListsOf(servers, conns) = ListsOf(servers', conns')
    BY <2>1 DEF Offers, ListsOf
  <2>3. \A n \in Names : ListsOf(servers, conns)[n] \in Listings
    BY <1>1 DEF RouteInv, ListsOf, Listings
  <2>4. \A n \in Names : ListsOf(servers, conns)[n] # <<>> => servers[n] = servers'[n]
    BY <1>10 DEF OffersStay, Offers
  <2>5. Rebuild(servers, conns, order) = Rebuild(servers', conns', order)
    BY <2>2, <2>3, <2>4, RebuildSame DEF RouteInv
  <2>6. \A b \in Actors : job'[b].todo # <<>> /\ Head(job'[b].todo) \in Before => Offers'[job'[b].name] = <<>>
    <3> SUFFICES ASSUME NEW b \in Actors, job'[b].todo # <<>>, Head(job'[b].todo) \in Before
                 PROVE  Offers'[job'[b].name] = <<>>
      OBVIOUS
    <3>1. job'[b].name \in Names
      BY DEF LeakInv, Jobs, Ready
    <3>2. Offers[job'[b].name] = <<>>
      BY <1>3, <1>10 DEF OffersStay, RouteInv, Settles
    <3> QED
      BY <2>1, <3>1, <3>2
  <2> QED
    BY <1>10, <2>1, <2>5, <2>6 DEF RouteInv, Settles
<1> QED
  BY <1>2, <1>6, <1>7, <1>8, <1>9, <1>10 DEF RouteInv, Unfilled, Alone

(* A step that enters no conn and publishes none.                          *)
LEMMA RouteStill ==
    ASSUME RouteInv, LeakInv, LeakInv', NamesAssumption, IdsAssumption, NEW a \in Actors, Others(a),
           UNCHANGED <<index, order, setting, servers>>, \A c \in Ids : Still(c),
           KeepsConn(a, {}), KeepsProbed(a),
           Alone /\ job'[a].todo # <<>> /\ Head(job'[a].todo) \in Before => Offers[job'[a].name] = <<>>
    PROVE  RouteInv'
<1>1. EntersOwn(a, {}) /\ (Alone => OffersStay(a))
  BY DEF EntersOwn, OffersStay
<1> QED
  BY <1>1, RouteKept

(* A conn that is entered is known to nobody.                              *)
LEMMA FreshPrivate ==
    ASSUME Unused # {}, LeakInv, NEW a \in Actors, NEW r, conns' = [conns EXCEPT ![Fresh] = r],
           r.tools = <<>>, r.calls = {}, job'[a].probed = job[a].probed
    PROVE  /\ Fresh \in Ids /\ Private(Fresh, a) /\ \A c \in Ids \ {Fresh} : Still(c)
           /\ conns'[Fresh] = r /\ \A n \in Names : servers[n] # Fresh
<1>1. /\ Fresh \in Ids /\ ~Referred(Fresh, job)
  BY FreshUnused
<1>2. conns'[Fresh] = r /\ \A c \in Ids \ {Fresh} : conns'[c] = conns[c]
  BY <1>1 DEF LeakInv, Shapes
<1> QED
  BY <1>1, <1>2 DEF Referred, Private, Still

(* What is entered under a name, by a goroutine that is about to.          *)
LEMMA RouteEntered ==
    ASSUME RouteInv, LeakInv, LeakInv', NamesAssumption, IdsAssumption, NEW a \in Actors,
           NEW s, At(a, s), Others(a), s \notin Holding, Alone => s \in Before,
           job'[a].name = job[a].name, job'[a].probed = job[a].probed, job'[a].conn = None,
           UNCHANGED <<index, order, setting>>, Unused # {},
           NEW r, conns' = [conns EXCEPT ![Fresh] = r], r.tools = <<>>, r.calls = {}, r.name = job[a].name,
           servers' = [servers EXCEPT ![job[a].name] = Fresh]
    PROVE  RouteInv'
<1> DEFINE n == job[a].name
<1>1. /\ Fresh \in Ids /\ Private(Fresh, a) /\ \A c \in Ids \ {Fresh} : Still(c)
      /\ conns'[Fresh] = r
  BY FreshPrivate
<1>2. \A m \in Names : servers'[m] = IF m = n THEN Fresh ELSE servers[m]
  BY DEF LeakInv, Shapes
<1>3. KeepsConn(a, {Fresh}) /\ KeepsProbed(a) /\ EntersOwn(a, {Fresh})
  BY <1>1, <1>2 DEF KeepsConn, KeepsProbed, EntersOwn
<1>4. ASSUME Alone PROVE OffersStay(a)
  <2>1. Offers[n] = <<>>
    BY <1>4 DEF RouteInv, Settles, At
  <2> QED
    BY <1>1, <1>2, <2>1 DEF OffersStay
<1> QED
  BY <1>1, <1>3, <1>4, RouteKept

-----------------------------------------------------------------------------
(* Step by step: where names lead.                                         *)

LEMMA FinishRoute ==
    ASSUME RouteInv, LeakInv, LeakInv', NamesAssumption, IdsAssumption, NEW a \in Actors, Finish(a)
    PROVE  RouteInv'
<1> DEFINE X == {c \in Ids : ~Referred(c, job')}
<1>1. /\ conns' = [c \in Ids |-> IF Referred(c, job') THEN conns[c] ELSE Conn(<<>>, NoCfg, "none")]
      /\ UNCHANGED <<index, order, setting, servers>>
  BY DEF Finish, Swept, rest
<1>2. Others(a) /\ job'[a] = Idle /\ job'[a].conn = None /\ job'[a].probed = None /\ job'[a].todo = <<>>
  BY FinishMoves, Idles DEF LeakInv
<1>3. Conn(<<>>, NoCfg, "none").tools = <<>> /\ Conn(<<>>, NoCfg, "none").calls = {}
  BY DEF Conn
<1>4. \A c \in X : Private(c, a)
  BY <1>1, <1>2, <1>3 DEF Private, Referred, Others, IdsAssumption
<1>5. \A c \in Ids \ X : Still(c)
  BY <1>1 DEF Still
<1>6. KeepsConn(a, X) /\ KeepsProbed(a) /\ EntersOwn(a, X) /\ OffersStay(a)
  BY <1>1, <1>2 DEF KeepsConn, KeepsProbed, EntersOwn, OffersStay
<1> HIDE DEF X
<1>7. X \in SUBSET Ids
  BY DEF X
<1> QED
  BY <1>1, <1>2, <1>4, <1>5, <1>6, <1>7, RouteKept

LEMMA DrainRoute ==
    ASSUME RouteInv, LeakInv, LeakInv', NamesAssumption, IdsAssumption, NEW a \in Actors,
           Drained(a)
    PROVE  RouteInv'
<1>1. /\ At(a, "drain") /\ Others(a) /\ Same(a) /\ job'[a].conn = None
  BY DrainMoves DEF LeakInv, GoesOn
<1>2. UNCHANGED <<index, order, setting, servers>> /\ Closed(job[a].conn)
  BY DEF Drained, rest
<1>3. job[a].conn \in Ids /\ job[a].name \in Names
  BY <1>1, Heads DEF LeakInv, Holding
<1>4. \A c \in Ids : Still(c)
  BY <1>2, <1>3 DEF Closed, Still, LeakInv, Shapes, ConnFields
<1>5. Alone => Offers[job[a].name] = <<>>
  <2>1. Alone => servers[job[a].name] = None
    BY <1>1 DEF LeakInv, Replacing, Entering
  <2> QED
    BY <1>3, <2>1 DEF Offers, ListsOf
<1> QED
  BY <1>1, <1>2, <1>4, <1>5, RouteStill DEF KeepsConn, KeepsProbed, Same

LEMMA LookUpRoute ==
    ASSUME RouteInv, LeakInv, LeakInv', NamesAssumption, IdsAssumption, NEW a \in Actors, LookUp(a)
    PROVE  RouteInv'
<1>1. /\ At(a, "lookup") /\ Others(a) /\ Same(a) /\ job'[a].conn = None
  BY LookUpMoves DEF LeakInv, GoesOn
<1>2. UNCHANGED <<index, order, setting, servers, conns>>
  BY DEF LookUp, manager, rest
<1>3. Alone => Offers[job[a].name] = <<>>
  BY <1>1 DEF RouteInv, Settles, At, Before
<1>4. \A c \in Ids : Still(c)
  BY <1>2 DEF Still
<1> QED
  BY <1>1, <1>2, <1>3, <1>4, RouteStill DEF KeepsConn, KeepsProbed, Same

LEMMA SetupRoute ==
    ASSUME RouteInv, LeakInv, LeakInv', NamesAssumption, IdsAssumption, NEW a \in Actors, SetupOAuth(a)
    PROVE  RouteInv'
<1> DEFINE r == [Conn(job[a].name, job[a].cfg, "none") EXCEPT !.handler = TRUE]
<1>1. At(a, "oauth") /\ Others(a) /\ Same(a) /\ job'[a].conn = None
  BY SetupMoves DEF LeakInv
<1>2. "oauth" \in Before /\ "oauth" \notin Holding
  BY DEF Before, Holding
<1>3. CASE UNCHANGED manager
  <2>1. UNCHANGED <<index, order, setting, servers, conns>>
    BY <1>3 DEF SetupOAuth, manager, rest
  <2>2. Alone => Offers[job[a].name] = <<>>
    BY <1>1, <1>2 DEF RouteInv, Settles, At
  <2>3. \A c \in Ids : Still(c)
    BY <2>1 DEF Still
  <2> QED
    BY <1>1, <2>1, <2>2, <2>3, RouteStill DEF KeepsConn, KeepsProbed, Same
<1>4. CASE ~UNCHANGED manager
  <2>1. /\ Unused # {} /\ conns' = [conns EXCEPT ![Fresh] = r]
        /\ servers' = [servers EXCEPT ![job[a].name] = Fresh]
        /\ UNCHANGED <<index, order, setting>>
    BY <1>4 DEF SetupOAuth, rest
  <2>2. r.name = job[a].name /\ r.tools = <<>> /\ r.calls = {}
    BY DEF Conn
  <2> HIDE DEF r
  <2> QED
    BY <1>1, <1>2, <2>1, <2>2, RouteEntered DEF Same
<1> QED
  BY <1>3, <1>4

LEMMA EnterRoute ==
    ASSUME RouteInv, LeakInv, LeakInv', NamesAssumption, IdsAssumption, NEW a \in Actors,
           Shelve(a) \/ Hold(a)
    PROVE  RouteInv'
<1>1. PICK s \in {"shelve", "hold"}, mark \in {"user", ""} : Enter(a, s, mark) /\ Advance(a)
  BY DEF Shelve, Hold
<1> DEFINE r == Placeholder(job[a].name, job[a].cfg, mark)
<1>2. /\ At(a, s) /\ Unused # {} /\ conns' = [conns EXCEPT ![Fresh] = r]
      /\ servers' = [servers EXCEPT ![job[a].name] = Fresh]
      /\ UNCHANGED <<index, order, setting>>
  BY <1>1 DEF Enter, rest
<1>3. s \in Before /\ s \notin Holding /\ s \notin Final
  BY DEF Before, Holding, Final
<1>4. Others(a) /\ Same(a) /\ job'[a].conn = None
  <2>1. GoesOn(a) /\ job'[a].conn = job[a].conn
    BY <1>1, <1>2, <1>3, AdvanceMoves DEF LeakInv
  <2>2. job[a].conn = None
    BY <1>2, <1>3, Heads DEF LeakInv
  <2> QED
    BY <2>1, <2>2 DEF GoesOn
<1>5. r.name = job[a].name /\ r.tools = <<>> /\ r.calls = {}
  BY DEF Placeholder, Conn
<1> HIDE DEF r
<1> QED
  BY <1>2, <1>3, <1>4, <1>5, RouteEntered DEF Same

LEMMA ConnectRoute ==
    ASSUME RouteInv, LeakInv, LeakInv', NamesAssumption, IdsAssumption, NEW a \in Actors, Connect(a)
    PROVE  RouteInv'
<1> DEFINE r == [Conn(job[a].name, job[a].cfg, "open") EXCEPT !.handler = job[a].cfg.auth]
<1>1. /\ At(a, "connect") /\ Others(a) /\ Same(a)
      /\ \/ Unused # {} /\ job'[a].conn = Fresh /\ conns' = [conns EXCEPT ![Fresh] = r]
         \/ job'[a].conn = None /\ UNCHANGED conns
  BY ConnectMoves DEF LeakInv, Gives
<1>2. UNCHANGED <<index, order, setting, servers>>
  BY DEF Connect, rest
<1>3. Alone => Offers[job[a].name] = <<>>
  BY <1>1 DEF RouteInv, Settles, At, Before
<1>4. CASE job'[a].conn = None /\ UNCHANGED conns
  <2>1. \A c \in Ids : Still(c)
    BY <1>4 DEF Still
  <2> QED
    BY <1>1, <1>2, <1>3, <1>4, <2>1, RouteStill DEF KeepsConn, KeepsProbed, Same
<1>5. CASE Unused # {} /\ job'[a].conn = Fresh /\ conns' = [conns EXCEPT ![Fresh] = r]
  <2>1. r.name = job[a].name /\ r.tools = <<>> /\ r.calls = {}
    BY DEF Conn
  <2> HIDE DEF r
  <2>2. /\ Fresh \in Ids /\ Private(Fresh, a) /\ \A c \in Ids \ {Fresh} : Still(c)
        /\ conns'[Fresh] = r
    BY <1>1, <1>5, <2>1, FreshPrivate DEF Same
  <2>3. KeepsConn(a, {Fresh}) /\ KeepsProbed(a) /\ EntersOwn(a, {Fresh})
    BY <1>1, <1>2, <1>5, <2>1, <2>2 DEF KeepsConn, KeepsProbed, EntersOwn, Same
  <2>4. Alone => OffersStay(a)
    BY <1>1, <1>2, <1>3 DEF OffersStay, Same
  <2> QED
    BY <1>1, <1>2, <2>2, <2>3, <2>4, RouteKept
<1> QED
  BY <1>1, <1>4, <1>5

LEMMA PublishRoute ==
    ASSUME RouteInv, LeakInv, LeakInv', NamesAssumption, IdsAssumption, NEW a \in Actors, Publish(a)
    PROVE  RouteInv'
<1> DEFINE n == job[a].name  d == job[a].conn
<1>1. At(a, "publish") /\ Advance(a) /\ UNCHANGED <<index, order, setting>>
  BY DEF Publish, rest
<1>2. Others(a) /\ Same(a) /\ Head(job'[a].todo) = "list" /\ job'[a].conn = d /\ n \in Names
  BY <1>1, AdvanceMoves, Afters DEF LeakInv, Final, GoesOn
<1>3. /\ d \in Ids /\ \A m \in Names : servers'[m] = IF m = n THEN d ELSE servers[m]
  BY PublishShapes DEF LeakInv
<1>4. \A c \in Ids : Still(c)
  <2>1. UNCHANGED conns \/ (servers[n] # None /\ conns' = [conns EXCEPT ![servers[n]] = Drain(servers[n])])
    BY DEF Publish
  <2>2. servers[n] \in Ids \union {None}
    BY <1>2 DEF LeakInv, Shapes
  <2> QED
    <3>1. \A c \in Ids : /\ conns'[c].name = conns[c].name /\ conns'[c].tools = conns[c].tools
                         /\ conns'[c].calls = conns[c].calls
                         /\ conns'[c].drain = "live" => conns[c].drain = "live"
      <4> DEFINE p == servers[n]  r == Drain(p)
      <4>1. p # None => /\ r.name = conns[p].name /\ r.tools = conns[p].tools /\ r.calls = conns[p].calls
                        /\ r.drain = "live" => conns[p].drain = "live"
        BY <2>2 DEF Drain, LeakInv, Shapes, ConnFields
      <4>2. UNCHANGED conns \/ (p # None /\ conns' = [conns EXCEPT ![p] = r])
        BY <2>1
      <4> HIDE DEF p, r
      <4> QED
        BY <4>1, <4>2 DEF LeakInv, Shapes
    <3> QED
      BY <3>1 DEF Still
<1>5. Fills(a) /\ conns[d].tools = <<>>
  BY <1>1 DEF At, Fills, Filling, RouteInv, Unfilled, Unrouted
<1>6. KeepsConn(a, {}) /\ KeepsProbed(a) /\ EntersOwn(a, {})
  BY <1>1, <1>2, <1>3, <1>5 DEF KeepsConn, KeepsProbed, EntersOwn, Same, At
<1>7. ASSUME Alone PROVE OffersStay(a)
  <2>1. Offers[n] = <<>>
    BY <1>1, <1>7 DEF RouteInv, Settles, At, Before
  <2>2. conns'[d].tools = <<>>
    BY <1>3, <1>4, <1>5 DEF Still
  <2> QED
    BY <1>2, <1>3, <2>1, <2>2 DEF OffersStay, Before
<1> QED
  BY <1>1, <1>2, <1>4, <1>6, <1>7, RouteKept

LEMMA ListRoute ==
    ASSUME RouteInv, LeakInv, LeakInv', NamesAssumption, IdsAssumption, NEW a \in Actors, ListTools(a)
    PROVE  RouteInv'
<1> DEFINE d == job[a].conn
<1>1. /\ At(a, "list") /\ Others(a) /\ Same(a)
      /\ \/ Head(job'[a].todo) = "index" /\ job'[a].conn = d /\ UNCHANGED conns
         \/ job'[a].conn = None /\ conns' = [conns EXCEPT ![d].session = "closed"]
  BY ListMoves DEF LeakInv, Gives
<1>2. UNCHANGED <<index, order, setting, servers>>
  BY DEF ListTools, rest
<1>3. d \in Ids /\ job[a].name \in Names
  BY <1>1, Heads DEF LeakInv, Holding
<1>4. \A c \in Ids : Still(c)
  <2>1. \A c \in Ids : /\ conns'[c].name = conns[c].name /\ conns'[c].tools = conns[c].tools
                       /\ conns'[c].calls = conns[c].calls /\ conns'[c].drain = conns[c].drain
    <3>1. DOMAIN conns = Ids /\ DOMAIN conns[d] = ConnFields
      BY <1>3 DEF LeakInv, Shapes
    <3>2. UNCHANGED conns \/ conns' = [conns EXCEPT ![d].session = "closed"]
      BY <1>1
    <3> QED
      BY <1>3, <3>1, <3>2 DEF ConnFields
  <2> QED
    BY <2>1 DEF Still
<1>5. Fills(a) /\ conns[d].tools = <<>> /\ ~At(a, "drain")
  BY <1>1 DEF At, Fills, Filling, RouteInv, Unfilled, Unrouted
<1>6. Alone => Offers[job[a].name] = <<>>
  <2>1. Alone => servers[job[a].name] = d
    BY <1>1 DEF LeakInv, Replacing, Entering
  <2> QED
    BY <1>3, <1>5, <2>1 DEF Offers, ListsOf
<1>7. KeepsConn(a, {}) /\ KeepsProbed(a) /\ job'[a].name = job[a].name
  BY <1>1, <1>5 DEF KeepsConn, KeepsProbed, Same
<1> QED
  BY <1>1, <1>2, <1>4, <1>6, <1>7, RouteStill

LEMMA WriteRoute ==
    ASSUME RouteInv, LeakInv, LeakInv', NamesAssumption, IdsAssumption, NEW a \in Actors, WriteFile(a)
    PROVE  RouteInv'
<1>1. PICK s \in Writes, ok \in BOOLEAN : \E tools, plugged, tracked : Rewrite(a, s, ok, tools, plugged, tracked)
  BY WriteIs
<1>2. PICK tools, plugged, tracked : Rewrite(a, s, ok, tools, plugged, tracked)
  BY <1>1
<1>3. /\ Others(a) /\ Same(a) /\ job'[a].conn = None
      /\ job[a].op \in DOMAIN Closing
      /\ Head(job'[a].todo) \in After(job[a].op, s) \union {"unpublish", "fail"}
  BY <1>2, WriteMoves DEF LeakInv
<1>4. UNCHANGED <<index, order, setting, servers, conns>>
  BY <1>2 DEF Rewrite, manager, rest
<1>5. Head(job'[a].todo) \notin Before
  <2>1. After(job[a].op, s) \cap Before = {}
    BY <1>3, Leads
  <2>2. "unpublish" \notin Before /\ "fail" \notin Before
    BY DEF Before
  <2> QED
    BY <1>3, <2>1, <2>2
<1>6. \A c \in Ids : Still(c)
  BY <1>4 DEF Still
<1> QED
  BY <1>3, <1>4, <1>5, <1>6, RouteStill DEF KeepsConn, KeepsProbed, Same

(* The health checker, the retries of startup, the OAuth reconnect: a      *)
(* goroutine that holds no conn, and does not go on alone.                 *)
LEMMA RouteApart ==
    ASSUME RouteInv, LeakInv, LeakInv', NamesAssumption, IdsAssumption, ~Alone,
           NEW a \in Actors, Others(a), job'[a].conn = None, KeepsProbed(a),
           UNCHANGED <<index, order, setting, servers>>, \A c \in Ids : Still(c)
    PROVE  RouteInv'
BY RouteStill DEF KeepsConn

LEMMA HealthRoute ==
    ASSUME RouteInv, LeakInv, LeakInv', NamesAssumption, IdsAssumption, HealthStep
    PROVE  RouteInv'
<1> DEFINE a == "health"  j == job["health"]
<1>1. a \in Actors /\ Others(a) /\ job'[a].conn = None /\ ~Alone
  BY HealthMoves, ActorLeak DEF LeakInv, Actors
<1>2. DOMAIN job = Actors /\ DOMAIN j = JobFields
  BY <1>1 DEF LeakInv, Jobs, Ready
<1>3. UNCHANGED <<index, order, setting>>
  BY DEF HealthStep, ProbeAnswered, ProbeFailed, Backoff, Reinsert, Healed, manager, rest
<1>4. job'[a] = Idle \/ (job'[a].name = j.name /\ job'[a].probed = j.probed)
  <2>1. CASE ProbeAnswered
    BY <1>1, <1>2, <2>1 DEF ProbeAnswered
  <2>2. CASE ProbeFailed
    <3>1. \E cfg, t : job' = [job EXCEPT !["health"].cfg = cfg, !["health"].todo = t]
      BY <2>2 DEF ProbeFailed
    <3> QED
      BY <1>1, <1>2, <3>1 DEF JobFields
  <2>3. CASE Backoff \/ Reinsert \/ Healed
    <3>1. \E t : job' = [job EXCEPT !["health"].todo = t]
      BY <2>3 DEF Backoff, Reinsert, Healed, Advance, Turn
    <3> QED
      BY <1>1, <1>2, <3>1 DEF JobFields
  <2> QED
    BY <2>1, <2>2, <2>3 DEF HealthStep
<1>5. KeepsProbed(a)
  BY <1>4, Idles DEF KeepsProbed
<1>6. \A c \in Ids : Still(c)
  <2>1. \/ UNCHANGED conns
        \/ \E c, x : conns' = [conns EXCEPT ![c].restarts = x]
        \/ \E c, x, y : conns' = [conns EXCEPT ![c].restarts = x, ![c].resting = y]
    <3>1. CASE ProbeAnswered \/ Healed
      BY <3>1 DEF ProbeAnswered, Healed
    <3>2. CASE ProbeFailed
      <4> DEFINE c == j.probed  x == Min({conns[c].restarts + 1, Quick + 1})
                 y == conns[c].restarts >= Quick
      <4>1. conns' = [conns EXCEPT ![c].restarts = x, ![c].resting = y]
        BY <3>2 DEF ProbeFailed
      <4> HIDE DEF x, y, c
      <4> QED
        BY <4>1
    <3>3. CASE Backoff \/ Reinsert
      BY <3>3 DEF Backoff, Reinsert, manager
    <3> QED
      BY <3>1, <3>2, <3>3 DEF HealthStep
  <2>2. \A c \in Ids : /\ conns'[c].name = conns[c].name /\ conns'[c].tools = conns[c].tools
                       /\ conns'[c].calls = conns[c].calls /\ conns'[c].drain = conns[c].drain
    <3>1. DOMAIN conns = Ids /\ \A c \in Ids : DOMAIN conns[c] = ConnFields
      BY DEF LeakInv, Shapes
    <3>2. CASE \E c, x : conns' = [conns EXCEPT ![c].restarts = x]
      BY <3>1, <3>2 DEF ConnFields
    <3>3. CASE \E c, x, y : conns' = [conns EXCEPT ![c].restarts = x, ![c].resting = y]
      <4>1. PICK c, x, y : conns' = [conns EXCEPT ![c].restarts = x, ![c].resting = y]
        BY <3>3
      <4> QED
        BY <3>1, <4>1 DEF ConnFields
    <3> QED
      BY <2>1, <3>2, <3>3
  <2> QED
    BY <2>2 DEF Still
<1>7. CASE Reinsert
  <2>1. servers' = [servers EXCEPT ![j.name] = j.probed] /\ job' = [job EXCEPT !["health"].todo = Tail(@)]
    BY <1>7 DEF Reinsert, Advance
  <2>2. job'[a].name = j.name /\ job'[a].probed = j.probed
    BY <1>1, <1>2, <2>1 DEF JobFields
  <2>3. EntersOwn(a, {})
    BY <2>1, <2>2 DEF EntersOwn, LeakInv, Shapes
  <2> QED
    BY <1>1, <1>3, <1>5, <1>6, <2>3, RouteKept DEF KeepsConn
<1>8. CASE ~Reinsert
  <2>1. UNCHANGED servers
    BY <1>8 DEF HealthStep, ProbeAnswered, ProbeFailed, Backoff, Healed, manager
  <2> QED
    BY <1>1, <1>3, <1>5, <1>6, <2>1, RouteApart
<1> QED
  BY <1>7, <1>8

LEMMA BootRoute ==
    ASSUME RouteInv, LeakInv, LeakInv', NamesAssumption, IdsAssumption, BootStep
    PROVE  RouteInv'
<1> DEFINE a == "boot"  j == job["boot"]
<1>1. a \in Actors /\ Others(a) /\ job'[a].conn = None /\ ~Alone
  BY BootMoves, ActorLeak DEF LeakInv, Actors
<1>2. DOMAIN job = Actors /\ DOMAIN j = JobFields
  BY <1>1 DEF LeakInv, Jobs, Ready
<1>3. UNCHANGED <<index, order, setting>>
  BY DEF BootStep, Pending, Enter, Retry, GiveUp, manager, rest
<1>4. job'[a].name = j.name /\ job'[a].probed = j.probed
  <2>1. CASE Pending
    BY <1>1, <1>2, <2>1 DEF Pending, JobFields
  <2>2. CASE Retry
    <3>1. \E k, t : job' = [job EXCEPT !["boot"].tries = k, !["boot"].todo = t]
      BY <2>2 DEF Retry
    <3> QED
      BY <1>1, <1>2, <3>1 DEF JobFields
  <2>3. CASE GiveUp
    BY <1>1, <1>2, <2>3 DEF GiveUp, Advance, JobFields
  <2> QED
    BY <2>1, <2>2, <2>3 DEF BootStep
<1>5. KeepsProbed(a)
  BY <1>4 DEF KeepsProbed
<1>6. CASE Pending
  <2> DEFINE r == Placeholder(job[a].name, job[a].cfg, "connecting")
  <2>1. /\ At(a, "pending") /\ Unused # {} /\ conns' = [conns EXCEPT ![Fresh] = r]
        /\ servers' = [servers EXCEPT ![j.name] = Fresh]
    BY <1>6 DEF Pending, Enter
  <2>2. r.name = j.name /\ r.tools = <<>> /\ r.calls = {}
    BY DEF Placeholder, Conn
  <2>3. "pending" \notin Holding
    BY DEF Holding
  <2> HIDE DEF r
  <2> QED
    BY <1>1, <1>3, <1>4, <2>1, <2>2, <2>3, RouteEntered
<1>7. CASE Retry \/ GiveUp
  <2>1. UNCHANGED servers
    BY <1>7 DEF Retry, GiveUp, manager
  <2>2. UNCHANGED conns \/ \E c, x : conns' = [conns EXCEPT ![c].mark = x]
    BY <1>7 DEF Retry, GiveUp, manager
  <2>3. \A c \in Ids : /\ conns'[c].name = conns[c].name /\ conns'[c].tools = conns[c].tools
                       /\ conns'[c].calls = conns[c].calls /\ conns'[c].drain = conns[c].drain
    BY <2>2 DEF LeakInv, Shapes, ConnFields
  <2>4. \A c \in Ids : Still(c)
    BY <2>3 DEF Still
  <2> QED
    BY <1>1, <1>3, <1>5, <2>1, <2>4, RouteApart
<1> QED
  BY <1>6, <1>7 DEF BootStep

LEMMA OAuthRoute ==
    ASSUME RouteInv, LeakInv, LeakInv', NamesAssumption, IdsAssumption, OAuthStep
    PROVE  RouteInv'
<1> DEFINE a == "oauth"  j == job["oauth"]
<1>1. a \in Actors /\ Others(a) /\ job'[a].conn = None /\ ~Alone
  BY OAuthMoves, ActorLeak DEF LeakInv, Actors
<1>2. DOMAIN job = Actors /\ DOMAIN j = JobFields
  BY <1>1 DEF LeakInv, Jobs, Ready
<1>3. UNCHANGED <<index, order, setting, servers, conns>>
  BY DEF OAuthStep, ClearToken, Initiate, manager, rest
<1>4. \E t : job' = [job EXCEPT !["oauth"].todo = t]
  BY DEF OAuthStep, ClearToken, Initiate, Advance, Turn
<1>5. KeepsProbed(a)
  BY <1>1, <1>2, <1>4 DEF KeepsProbed, JobFields
<1>6. \A c \in Ids : Still(c)
  BY <1>3 DEF Still
<1> QED
  BY <1>1, <1>3, <1>5, <1>6, RouteApart

(* A job begins.                                                           *)
LEMMA BeginRoute ==
    ASSUME RouteInv, LeakInv, LeakInv', NamesAssumption, IdsAssumption, SettledAssumption,
           BoundsAssumption, NEW n \in Targets,
           Operate(n) \/ Probe(n) \/ BootTool(n) \/ Reconnect(n)
    PROVE  RouteInv'
<1>1. n \in Names
  BY DEF SettledAssumption
<1>2. UNCHANGED <<index, order, setting, servers>>
  BY DEF Operate, AddTool, UpdateTool, RemoveTool, RestartTool, DisableTool, EnableTool, Withhold,
         AddPlugin, RemovePlugin, Probe, BootTool, Reconnect, Begin, manager, rest
<1>3. \A c \in Ids : Still(c)
  <2>1. \/ UNCHANGED conns
        \/ \E held : conns' = [conns EXCEPT ![servers[n]].off = held, ![servers[n]].cfg.held = held]
    BY DEF Operate, AddTool, UpdateTool, RemoveTool, RestartTool, DisableTool, EnableTool, Withhold,
           AddPlugin, RemovePlugin, Probe, BootTool, Reconnect, manager
  <2>2. CASE \E held : conns' = [conns EXCEPT ![servers[n]].off = held, ![servers[n]].cfg.held = held]
    <3>1. PICK held : conns' = [conns EXCEPT ![servers[n]].off = held, ![servers[n]].cfg.held = held]
      BY <2>2
    <3>2. \A c \in Ids : /\ conns'[c].name = conns[c].name /\ conns'[c].tools = conns[c].tools
                         /\ conns'[c].calls = conns[c].calls /\ conns'[c].drain = conns[c].drain
      BY <3>1 DEF LeakInv, Shapes, ConnFields
    <3> QED
      BY <3>2 DEF Still
  <2> QED
    BY <2>1, <2>2 DEF Still
<1>4. Offers[n] = IF servers[n] = None THEN <<>> ELSE conns[servers[n]].tools
  BY <1>1 DEF Offers, ListsOf
<1>5. CASE Operate(n)
  <2> DEFINE a == "lifecycle"
  <2>1. PICK op \in Roles["lifecycle"] : \E cfg, heads :
           /\ Starts(a, op, n, cfg, heads)
           /\ heads \cap {"lookup", "connect"} = {} \/ servers[n] = None
           /\ heads \subseteq {"lookup", "connect", "unpublish", "saveHeld", "savePlugin"}
    BY <1>5, OperateIs DEF LeakInv
  <2>2. /\ Others(a) /\ job'[a].conn = None /\ job'[a].name = n
        /\ Head(job'[a].todo) \in Before => servers[n] = None
    BY <2>1 DEF Starts, Before
  <2>3. KeepsProbed(a)
    <3>1. \E op1, cfg, t : job' = [job EXCEPT ![a] = [Idle EXCEPT !.op = op1, !.name = n, !.cfg = cfg, !.todo = t]]
      BY <1>5, Zenon DEF Operate, AddTool, UpdateTool, RemoveTool, RestartTool, DisableTool, EnableTool,
             Withhold, AddPlugin, RemovePlugin, Begin
    <3>2. PICK op1, cfg, t : job' = [job EXCEPT ![a] = [Idle EXCEPT !.op = op1, !.name = n, !.cfg = cfg, !.todo = t]]
      BY <3>1
    <3>3. a \in DOMAIN job
      BY DEF LeakInv, Jobs, Actors
    <3>4. job'[a] = [Idle EXCEPT !.op = op1, !.name = n, !.cfg = cfg, !.todo = t]
      BY <3>2, <3>3
    <3> QED
      BY <3>4, Idles DEF KeepsProbed, JobFields
  <2> QED
    BY <1>2, <1>3, <1>4, <2>2, <2>3, RouteStill DEF KeepsConn, Actors
<1>6. CASE BootTool(n)
  <2> DEFINE a == "boot"
  <2>1. /\ Others(a) /\ job[a] = Idle /\ n \in starting
        /\ \/ UNCHANGED job
           \/ Starts(a, "boot", n, file[n], {"shelve", "lookup", "connect"})
    BY <1>1, <1>6, BootToolMoves DEF LeakInv, BootTool
  <2>2. Alone => servers[n] = None
    BY <1>1, <2>1 DEF LeakInv, OneAtATime
  <2>3. job'[a].conn = None /\ (job'[a].todo # <<>> => job'[a].name = n)
    BY <2>1, Idles DEF Starts
  <2>4. job'[a].probed = None
    <3>1. UNCHANGED job \/ \E op, cfg, k, t : job' =
             [job EXCEPT ![a] = [Idle EXCEPT !.op = op, !.name = n, !.cfg = cfg, !.tries = k, !.todo = t]]
      BY <1>6, Zenon DEF BootTool
    <3>2. a \in DOMAIN job /\ Idle.probed = None /\ DOMAIN Idle = JobFields
      BY Idles DEF LeakInv, Jobs, Actors
    <3>3. \A op, cfg, k, t : [Idle EXCEPT !.op = op, !.name = n, !.cfg = cfg, !.tries = k, !.todo = t].probed = None
      BY <3>2 DEF JobFields
    <3>4. CASE UNCHANGED job
      BY <2>1, <3>2, <3>4
    <3>5. CASE ~UNCHANGED job
      <4>1. PICK op, cfg, k, t : job' =
               [job EXCEPT ![a] = [Idle EXCEPT !.op = op, !.name = n, !.cfg = cfg, !.tries = k, !.todo = t]]
        BY <3>1, <3>5
      <4>2. job'[a] = [Idle EXCEPT !.op = op, !.name = n, !.cfg = cfg, !.tries = k, !.todo = t]
        BY <3>2, <4>1
      <4> QED
        BY <3>3, <4>2
    <3> QED
      BY <3>4, <3>5
  <2> QED
    BY <1>2, <1>3, <1>4, <2>1, <2>2, <2>3, <2>4, RouteStill DEF KeepsConn, KeepsProbed, Actors
<1>7. CASE Probe(n)
  <2>1. Others("health") /\ job'["health"].conn = None /\ ~Alone
    BY <1>1, <1>7, ProbeMoves, RivalLeak DEF LeakInv
  <2>2. job'["health"].name = n /\ job'["health"].probed = servers[n]
    <3>1. "health" \in DOMAIN job
      BY DEF LeakInv, Jobs, Actors
    <3> QED
      BY <1>7, <3>1, Idles DEF Probe, JobFields
  <2> QED
    BY <1>1, <1>2, <1>3, <2>1, <2>2, RouteApart DEF KeepsProbed, Actors
<1>8. CASE Reconnect(n)
  <2> DEFINE a == "oauth"
  <2>1. Others(a) /\ job'[a].conn = None /\ ~Alone
    BY <1>1, <1>8, BeginMoves, RivalLeak DEF LeakInv, Starts
  <2>2. job'[a].probed = None
    <3>1. \E op, cfg, t : job' = [job EXCEPT ![a] = [Idle EXCEPT !.op = op, !.name = n, !.cfg = cfg, !.todo = t]]
      BY <1>8, Zenon DEF Reconnect, Begin
    <3>2. a \in DOMAIN job /\ Idle.probed = None /\ DOMAIN Idle = JobFields
      BY Idles DEF LeakInv, Jobs, Actors
    <3>3. \A op, cfg, t : [Idle EXCEPT !.op = op, !.name = n, !.cfg = cfg, !.todo = t].probed = None
      BY <3>2 DEF JobFields
    <3>4. PICK op, cfg, t : job' = [job EXCEPT ![a] = [Idle EXCEPT !.op = op, !.name = n, !.cfg = cfg, !.todo = t]]
      BY <3>1
    <3>5. job'[a] = [Idle EXCEPT !.op = op, !.name = n, !.cfg = cfg, !.todo = t]
      BY <3>2, <3>4
    <3> QED
      BY <3>3, <3>5
  <2> QED
    BY <1>2, <1>3, <2>1, <2>2, RouteApart DEF KeepsProbed, Actors
<1> QED
  BY <1>5, <1>6, <1>7, <1>8

(* A call goes to a conn whose tools are known.                            *)
LEMMA CallsRouted ==
    ASSUME RouteInv, LeakInv, NamesAssumption, IdsAssumption, NEW t, Resolve(t) # <<>>,
           NEW b \in Actors, Fills(b)
    PROVE  job[b].conn # Resolve(t)[1]
<1>1. Unrouted(job[b].conn)
  BY DEF RouteInv, Unfilled
<1>2. CASE t \in DOMAIN index.map
  BY <1>1, <1>2 DEF Resolve, Unrouted
<1>3. CASE t \notin DOMAIN index.map
  <2> DEFINE Q == Qualifying(order, Offers, t)  i == Min(Q)  s == order[i]
             p == ByPrefix(order, Offers, t)
  <2>1. Q # {} /\ Resolve(t)[1] = servers[p[1]]
    BY <1>3 DEF Resolve
  <2>2. p[1] = s
    BY DEF ByPrefix
  <2>3. i \in Q
    <3>1. Q \in SUBSET Nat
      BY DEF Qualifying, RouteInv
    <3> HIDE DEF Q
    <3>2. \E x \in Q : \A y \in Q : x <= y
      BY <2>1, <3>1, Least
    <3> QED
      BY <3>2 DEF Min
  <2>4. s \in Names /\ Range(Offers[s]) # {}
    <3> HIDE DEF i
    <3>1. /\ i \in DOMAIN order
          /\ SubSeq(t, Len(order[i]) + 1, Len(t)) \in Range(Offers[order[i]])
      BY <2>3 DEF Qualifying
    <3>2. order \in Seq(Names)
      BY DEF RouteInv
    <3> QED
      BY <3>1, <3>2
  <2>5. servers[s] # None /\ Range(conns[servers[s]].tools) # {}
    <3>1. Offers[s] = IF servers[s] = None THEN <<>> ELSE conns[servers[s]].tools
      BY <2>4 DEF Offers, ListsOf
    <3>2. Range(<<>>) = {}
      BY DEF Range
    <3> HIDE DEF s
    <3> QED
      BY <2>4, <3>1, <3>2
  <2>6. Range(conns[job[b].conn].tools) = {}
    BY <1>1 DEF Unrouted, Range
  <2> HIDE DEF s, p, Q
  <2> QED
    BY <2>1, <2>2, <2>5, <2>6
<1> QED
  BY <1>2, <1>3

LEMMA AsideRoute ==
    ASSUME RouteInv, LeakInv, LeakInv', NamesAssumption, IdsAssumption,
           UNCHANGED <<index, order, setting, servers, job>>, \A c \in Ids : Still(c)
    PROVE  RouteInv'
<1> DEFINE a == "lifecycle"
<1>1. a \in Actors /\ Others(a) /\ KeepsConn(a, {}) /\ KeepsProbed(a)
  BY DEF Actors, LeakInv, Jobs, Others, KeepsConn, KeepsProbed, Fills, At
<1>2. Alone /\ job'[a].todo # <<>> /\ Head(job'[a].todo) \in Before => Offers[job'[a].name] = <<>>
  BY <1>1 DEF RouteInv, Settles
<1> HIDE DEF a
<1> QED
  BY <1>1, <1>2, RouteStill

LEMMA OutsideRoute ==
    ASSUME RouteInv, LeakInv, LeakInv', NamesAssumption, IdsAssumption,
           Outside \/ \E c \in Ids : Reap(c)
    PROVE  RouteInv'
<1>1. UNCHANGED <<index, order, setting, servers, job>>
  BY DEF Outside, Expire, RetryDue, Call, Return, GoDown, ComeUp, Reap, manager, rest
<1>2. DOMAIN conns = Ids /\ \A c \in Ids : DOMAIN conns[c] = ConnFields
  BY DEF LeakInv, Shapes
<1> DEFINE Like(c) == /\ conns'[c].name = conns[c].name /\ conns'[c].tools = conns[c].tools
                      /\ conns'[c].drain = "live" => conns[c].drain = "live"
<1>3. CASE \E r \in Ids : Reap(r)
  <2>1. PICK r \in Ids : Closed(r)
    BY <1>3 DEF Reap
  <2>2. \A c \in Ids : Like(c) /\ conns'[c].calls = conns[c].calls
    BY <1>2, <2>1 DEF Closed, ConnFields
  <2>3. \A c \in Ids : Still(c)
    BY <2>2 DEF Still
  <2> QED
    BY <1>1, <2>3, AsideRoute
<1>4. CASE \E c \in Ids : RetryDue(c)
  <2>1. PICK r \in Ids : conns' = [conns EXCEPT ![r].resting = FALSE]
    BY <1>4 DEF RetryDue
  <2>2. \A c \in Ids : Like(c) /\ conns'[c].calls = conns[c].calls
    BY <1>2, <2>1 DEF ConnFields
  <2>3. \A c \in Ids : Still(c)
    BY <2>2 DEF Still
  <2> QED
    BY <1>1, <2>3, AsideRoute
<1>5. CASE \E x \in Callers : Return(x)
  <2>1. PICK x \in Callers, r \in Ids : conns' = [conns EXCEPT ![r].calls = @ \ {x}]
    BY <1>5 DEF Return
  <2>2. \A c \in Ids : Like(c) /\ conns'[c].calls \subseteq conns[c].calls
    BY <1>2, <2>1 DEF ConnFields
  <2>3. \A c \in Ids : Still(c)
    BY <2>2 DEF Still
  <2> QED
    BY <1>1, <2>3, AsideRoute
<1>6. CASE \E x \in Callers : Call(x)
  <2>1. PICK x \in Callers, t \in Callable :
           Resolve(t) # <<>> /\ conns' = [conns EXCEPT ![Resolve(t)[1]].calls = @ \union {x}]
    BY <1>6 DEF Call
  <2> DEFINE d == Resolve(t)[1]
  <2>2. \A b \in Actors : Fills(b) => job[b].conn # d
    BY <2>1, CallsRouted
  <2>3. conns' = [conns EXCEPT ![d].calls = @ \union {x}]
    BY <2>1
  <2> HIDE DEF d
  <2>4. \A c \in Ids : Like(c) /\ (c # d => conns'[c].calls = conns[c].calls)
    BY <1>2, <2>3 DEF ConnFields
  <2>5. \A c \in Ids : Still(c)
    BY <2>2, <2>4 DEF Still
  <2> QED
    BY <1>1, <2>5, AsideRoute
<1>7. CASE \E n \in Targets : GoDown(n) \/ ComeUp(n)
  <2>1. \A c \in Ids : conns'[c] = conns[c] \/ conns'[c] = [conns[c] EXCEPT !.session = "broken"]
    BY <1>2, <1>7 DEF GoDown, ComeUp, manager
  <2>2. ASSUME NEW c \in Ids PROVE Like(c) /\ conns'[c].calls = conns[c].calls
    <3>1. CASE conns'[c] = [conns[c] EXCEPT !.session = "broken"]
      BY <1>2, <3>1 DEF ConnFields
    <3> QED
      BY <2>1, <3>1
  <2>3. \A c \in Ids : Still(c)
    BY <2>2 DEF Still
  <2> QED
    BY <1>1, <2>3, AsideRoute
<1>8. CASE \E r \in Ids : Expire(r)
  <2>1. \A c \in Ids : Like(c) /\ conns'[c].calls = conns[c].calls
    BY <1>8, ExpireIs DEF LeakInv
  <2>2. \A c \in Ids : Still(c)
    BY <2>1 DEF Still
  <2> QED
    BY <1>1, <2>2, AsideRoute
<1> QED
  BY <1>3, <1>4, <1>5, <1>6, <1>7, <1>8 DEF Outside

(* The order of discovery: a name leaves it, or enters it.                 *)
LEMMA Left ==
    ASSUME NEW S, NEW ord \in Seq(S), Once(ord), NEW n
    PROVE  LET left == RemoveFirst(ord, n) IN
           left \in Seq(S) /\ Once(left) /\ \A m \in Range(ord) \ {n} : m \in Range(left)
<1> DEFINE I == {i \in 1 .. Len(ord) : ord[i] = n}
<1>0. Len(ord) \in Nat /\ DOMAIN ord = 1 .. Len(ord) /\ I \in SUBSET Nat
  OBVIOUS
<1>1. CASE I = {}
  <2>1. RemoveFirst(ord, n) = ord
    BY <1>1 DEF RemoveFirst
  <2> QED
    BY <2>1
<1>2. CASE I # {}
  <2> DEFINE k == Min(I)  left == SubSeq(ord, 1, k - 1) \o SubSeq(ord, k + 1, Len(ord))
  <2>1. RemoveFirst(ord, n) = left
    BY <1>2 DEF RemoveFirst, RemoveAt, SelectInSeq
  <2>2. k \in I
    <3> HIDE DEF I
    <3>1. \E x \in I : \A y \in I : x <= y
      BY <1>0, <1>2, Least
    <3> QED
      BY <3>1 DEF Min
  <2> HIDE DEF k
  <2>3. k \in 1 .. Len(ord) /\ ord[k] = n
    BY <2>2
  <2>4. /\ SubSeq(ord, 1, k - 1) \in Seq(S) /\ Len(SubSeq(ord, 1, k - 1)) = k - 1
        /\ \A i \in 1 .. k - 1 : SubSeq(ord, 1, k - 1)[i] = ord[i]
    BY <1>0, <2>3
  <2>5. /\ SubSeq(ord, k + 1, Len(ord)) \in Seq(S) /\ Len(SubSeq(ord, k + 1, Len(ord))) = Len(ord) - k
        /\ \A i \in 1 .. Len(ord) - k : SubSeq(ord, k + 1, Len(ord))[i] = ord[i + k]
    <3>1. k + 1 \in Int /\ Len(ord) \in Int /\ k \in Int
      BY <1>0, <2>3
    <3>2. \A i \in k + 1 .. Len(ord) : ord[i] \in S
      BY <1>0, <2>3
    <3>3. /\ SubSeq(ord, k + 1, Len(ord)) \in Seq(S)
          /\ Len(SubSeq(ord, k + 1, Len(ord))) = IF k + 1 <= Len(ord) THEN Len(ord) - (k + 1) + 1 ELSE 0
          /\ \A i \in 1 .. Len(ord) - (k + 1) + 1 : SubSeq(ord, k + 1, Len(ord))[i] = ord[k + 1 + i - 1]
      BY <3>1, <3>2, SubSeqProperties
    <3>4. Len(ord) - (k + 1) + 1 = Len(ord) - k
      BY <3>1
    <3>5. ASSUME NEW i \in 1 .. Len(ord) - k PROVE SubSeq(ord, k + 1, Len(ord))[i] = ord[i + k]
      <4>1. k + 1 + i - 1 = i + k
        BY <3>1
      <4> QED
        BY <3>3, <3>4, <4>1
    <3>6. Len(SubSeq(ord, k + 1, Len(ord))) = Len(ord) - k
      <4>1. CASE k + 1 <= Len(ord)
        <5>1. Len(SubSeq(ord, k + 1, Len(ord))) = Len(ord) - (k + 1) + 1
          BY <3>3, <4>1
        <5> QED
          BY <3>4, <5>1
      <4>2. CASE ~(k + 1 <= Len(ord))
        <5>1. Len(SubSeq(ord, k + 1, Len(ord))) = 0
          BY <3>3, <4>2
        <5>2. ASSUME NEW m \in Nat, NEW l \in 1 .. m, ~(l + 1 <= m) PROVE m - l = 0
          BY <5>2
        <5>3. Len(ord) - k = 0
          BY <1>0, <2>3, <4>2, <5>2
        <5> QED
          BY <5>1, <5>3
      <4> QED
        BY <4>1, <4>2
    <3> QED
      BY <3>3, <3>5, <3>6
  <2>6. /\ left \in Seq(S) /\ Len(left) = Len(ord) - 1
        /\ \A i \in 1 .. Len(ord) - 1 : left[i] = IF i < k THEN ord[i] ELSE ord[i + 1]
    <3> DEFINE p == SubSeq(ord, 1, k - 1)  q == SubSeq(ord, k + 1, Len(ord))
    <3> HIDE DEF p, q
    <3>1. /\ p \in Seq(S) /\ Len(p) = k - 1 /\ \A i \in 1 .. k - 1 : p[i] = ord[i]
          /\ q \in Seq(S) /\ Len(q) = Len(ord) - k /\ \A i \in 1 .. Len(ord) - k : q[i] = ord[i + k]
      BY <2>4, <2>5 DEF p, q
    <3>2. /\ p \o q \in Seq(S) /\ Len(p \o q) = Len(p) + Len(q)
          /\ \A i \in 1 .. Len(p) + Len(q) : (p \o q)[i] = IF i <= Len(p) THEN p[i] ELSE q[i - Len(p)]
      BY <3>1, ConcatProperties
    <3>3. Len(p) + Len(q) = Len(ord) - 1 /\ k \in Int
      BY <1>0, <2>3, <3>1
    <3>4. ASSUME NEW i \in 1 .. Len(ord) - 1 PROVE (p \o q)[i] = IF i < k THEN ord[i] ELSE ord[i + 1]
      <4>1. CASE i < k
        BY <1>0, <2>3, <3>1, <3>2, <3>3, <4>1
      <4>2. CASE ~(i < k)
        <5>1. i - Len(p) \in 1 .. Len(ord) - k /\ ~(i <= Len(p)) /\ (i - Len(p)) + k = i + 1
          BY <1>0, <2>3, <3>1, <4>2
        <5> QED
          BY <3>1, <3>2, <3>3, <4>2, <5>1
      <4> QED
        BY <4>1, <4>2
    <3>5. left = p \o q
      BY DEF p, q
    <3> QED
      BY <3>2, <3>3, <3>4, <3>5
  <2> HIDE DEF left
  <2>7. DOMAIN left = 1 .. Len(ord) - 1
    BY <2>6
  <2>8. Once(left)
    <3> SUFFICES ASSUME NEW i \in 1 .. Len(ord) - 1, NEW j \in 1 .. Len(ord) - 1, left[i] = left[j] PROVE i = j
      BY <2>7 DEF Once
    <3> DEFINE u == IF i < k THEN i ELSE i + 1  v == IF j < k THEN j ELSE j + 1
    <3>1. u \in 1 .. Len(ord) /\ v \in 1 .. Len(ord)
      BY <1>0, <2>3
    <3>2. ord[u] = ord[v]
      BY <2>6
    <3>3. u = v
      <4> HIDE DEF u, v
      <4> QED
        BY <1>0, <3>1, <3>2 DEF Once
    <3> QED
      BY <1>0, <2>3, <3>3
  <2>9. ASSUME NEW m \in Range(ord), m # n PROVE m \in Range(left)
    <3>1. PICK i \in 1 .. Len(ord) : ord[i] = m
      BY <1>0 DEF Range
    <3>2. i # k
      BY <2>3, <2>9, <3>1
    <3>3. i < k => i \in DOMAIN left /\ left[i] = m
      BY <1>0, <2>3, <2>6, <2>7, <3>1
    <3>4. i > k => i - 1 \in DOMAIN left /\ left[i - 1] = m
      BY <1>0, <2>3, <2>6, <2>7, <3>1
    <3> QED
      BY <1>0, <2>3, <3>1, <3>2, <3>3, <3>4 DEF Range
  <2> QED
    BY <2>1, <2>6, <2>8, <2>9
<1> QED
  BY <1>1, <1>2

LEMMA Entered ==
    ASSUME NEW S, NEW ord \in Seq(S), Once(ord), NEW n \in S
    PROVE  LET more == IF Contains(ord, n) THEN ord ELSE Append(ord, n) IN
           more \in Seq(S) /\ Once(more) /\ \A m \in Range(ord) \union {n} : m \in Range(more)
<1>0. Len(ord) \in Nat /\ DOMAIN ord = 1 .. Len(ord)
  OBVIOUS
<1>1. CASE Contains(ord, n)
  BY <1>0, <1>1 DEF Contains, Range
<1>2. CASE ~Contains(ord, n)
  <2> DEFINE more == Append(ord, n)
  <2>1. /\ more \in Seq(S) /\ Len(more) = Len(ord) + 1 /\ DOMAIN more = 1 .. Len(ord) + 1
        /\ (\A i \in 1 .. Len(ord) : more[i] = ord[i]) /\ more[Len(ord) + 1] = n
    BY <1>0
  <2> HIDE DEF more
  <2>2. Once(more)
    BY <1>0, <1>2, <2>1 DEF Once, Contains
  <2>3. \A m \in Range(ord) \union {n} : m \in Range(more)
    BY <1>0, <2>1 DEF Range
  <2> QED
    BY <1>2, <2>1, <2>2, <2>3 DEF more
<1> QED
  BY <1>1, <1>2

(* The index is rebuilt.                                                   *)
LEMMA RouteRebuilt ==
    ASSUME LeakInv', NamesAssumption, IdsAssumption,
           order' \in Seq(Names), Once(order'), index' = Rebuild(servers', conns', order'),
           \A c \in Ids : conns'[c].tools \in Listings, Titled',
           \A b \in Actors : Fills(b)' => conns'[job'[b].conn].tools = <<>> /\ conns'[job'[b].conn].calls = {},
           \A b, d \in Actors : Fills(b)' /\ b # d /\ job'[b].conn = job'[d].conn => At(d, "drain")',
           Alone => /\ \A n \in Names : Offers'[n] # <<>> => n \in Range(order')
                    /\ \A b \in Actors : job'[b].todo # <<>> => Head(job'[b].todo) \notin Before,
           UNCHANGED setting
    PROVE  RouteInv'
<1>1. \A n \in Names : servers'[n] \in Ids \union {None}
  BY DEF LeakInv, Shapes
<1>2. \A n \in Names : ListsOf(servers', conns')[n] \in Listings
  BY <1>1 DEF ListsOf, Listings
<1>3. ASSUME NEW t \in DOMAIN index'.map
      PROVE  LET e == index'.map[t] IN
             \E n \in Names : /\ servers'[n] # None /\ e.conn = servers'[n]
                              /\ e.tool \in Range(conns'[servers'[n]].tools)
                              /\ t \in {e.tool, Qualified(n, e.tool)}
  BY <1>2, RebuildRoutes
<1>4. \A t \in DOMAIN index'.map : Routed(t)'
  <2> SUFFICES ASSUME NEW t \in DOMAIN index'.map PROVE Routed(t)'
    OBVIOUS
  <2>1. PICK n \in Names : /\ servers'[n] # None /\ index'.map[t].conn = servers'[n]
                           /\ index'.map[t].tool \in Range(conns'[servers'[n]].tools)
                           /\ t \in {index'.map[t].tool, Qualified(n, index'.map[t].tool)}
    BY <1>3
  <2>2. conns'[servers'[n]].name = n
    BY <2>1 DEF Titled
  <2> QED
    BY <1>1, <2>1, <2>2 DEF Routed
<1>5. ASSUME NEW b \in Actors, Fills(b)', NEW t \in DOMAIN index'.map
      PROVE  index'.map[t].conn # job'[b].conn
  <2>1. Range(conns'[job'[b].conn].tools) = {}
    BY <1>5 DEF Range
  <2> QED
    BY <1>3, <2>1
<1>6. Unfilled'
  BY <1>5 DEF Unfilled, Unrouted
<1>7. Alone => Settles'
  BY DEF Settles
<1> QED
  BY <1>4, <1>6, <1>7 DEF RouteInv, Alone

LEMMA UnpublishRoute ==
    ASSUME RouteInv, LeakInv, LeakInv', NamesAssumption, IdsAssumption, NEW a \in Actors, Unpublish(a)
    PROVE  RouteInv'
<1> DEFINE n == job[a].name  c == servers[n]
<1>1. /\ At(a, "unpublish") /\ Others(a) /\ Same(a)
      /\ IF c = None
         THEN job'[a].conn = None /\ UNCHANGED manager
         ELSE Head(job'[a].todo) = "drain" /\ job'[a].conn = c /\ job'[a].todo # <<>>
  BY UnpublishMoves DEF LeakInv, GoesOn
<1>2. n \in Names /\ job[a].todo # <<>> /\ job[a].conn = None /\ UNCHANGED setting
  BY <1>1, Heads DEF LeakInv, Holding, Unpublish, rest
<1>3. CASE c = None
  <2>1. UNCHANGED <<index, order, servers, conns>>
    BY <1>1, <1>3 DEF manager
  <2>2. Offers[n] = <<>>
    BY <1>2, <1>3 DEF Offers, ListsOf
  <2>3. \A d \in Ids : Still(d)
    BY <2>1 DEF Still
  <2> QED
    BY <1>1, <1>2, <1>3, <2>1, <2>2, <2>3, RouteStill DEF KeepsConn, KeepsProbed, Same
<1>4. CASE c # None
  <2> DEFINE r == [Drain(c) EXCEPT !.tools = <<>>]
  <2>1. /\ conns' = [conns EXCEPT ![c] = r] /\ order' = RemoveFirst(order, n)
        /\ servers' = [servers EXCEPT ![n] = None]
        /\ index' = Rebuild([servers EXCEPT ![n] = None], conns', order')
    BY <1>4 DEF Unpublish
  <2>2. index' = Rebuild(servers', conns', order')
    BY <2>1
  <2>3. c \in Ids
    BY <1>2, <1>4 DEF LeakInv, Shapes
  <2>4. r.name = conns[c].name /\ r.tools = <<>> /\ r.calls = conns[c].calls
    BY <2>3 DEF Drain, LeakInv, Shapes, ConnFields
  <2> HIDE DEF r
  <2>5. \A d \in Ids : /\ conns'[d].name = conns[d].name /\ conns'[d].calls = conns[d].calls
                       /\ conns'[d].tools = IF d = c THEN <<>> ELSE conns[d].tools
    BY <2>1, <2>3, <2>4 DEF LeakInv, Shapes
  <2>6. \A m \in Names : servers'[m] = IF m = n THEN None ELSE servers[m]
    BY <2>1 DEF LeakInv, Shapes
  <2>7. order' \in Seq(Names) /\ Once(order') /\ \A m \in Range(order) \ {n} : m \in Range(order')
    BY <2>1, Left DEF RouteInv
  <2>8. \A b \in Actors \ {a} : job'[b] = job[b]
    BY <1>1 DEF Others
  <2>9. /\ \A m \in Names : servers[m] \in Ids \union {None}
        /\ \A b \in Actors : /\ job[b].conn \in Ids \union {None} /\ job[b].probed \in Ids \union {None}
                             /\ Fills(b) => job[b].conn \in Ids
        /\ None \notin Ids
    BY DEF LeakInv, Shapes, Jobs, Ready, Fills, Filling, Holding, IdsAssumption
  <2>10. Titled'
    <3>0. \A b \in Actors : \A d \in {job[b].conn, job[b].probed} :
             d # None => d \in Ids /\ conns[d].name = job[b].name /\ conns'[d].name = job[b].name
      <4> SUFFICES ASSUME NEW b \in Actors, NEW d \in {job[b].conn, job[b].probed}, d # None
                   PROVE  d \in Ids /\ conns[d].name = job[b].name /\ conns'[d].name = job[b].name
        OBVIOUS
      <4>1. d \in Ids
        BY <2>9
      <4>2. conns[d].name = job[b].name
        BY DEF RouteInv, Titled
      <4> QED
        BY <2>5, <4>1, <4>2
    <3>1. ASSUME NEW m \in Names, servers'[m] # None PROVE conns'[servers'[m]].name = m
      BY <2>5, <2>6, <2>9, <3>1 DEF RouteInv, Titled
    <3>2. ASSUME NEW b \in Actors \ {a}
          PROVE  /\ job'[b].conn # None => conns'[job'[b].conn].name = job'[b].name
                 /\ job'[b].probed # None => conns'[job'[b].probed].name = job'[b].name
      BY <2>8, <3>0
    <3>3. conns'[job'[a].conn].name = job'[a].name
      BY <1>1, <1>2, <1>4, <2>3, <2>5 DEF RouteInv, Titled, Same
    <3>4. job'[a].probed # None => conns'[job'[a].probed].name = job'[a].name
      BY <1>1, <3>0 DEF Same
    <3> QED
      BY <3>1, <3>2, <3>3, <3>4 DEF Titled
  <2>11. ~Fills(a)' /\ At(a, "drain")'
    BY <1>1, <1>4 DEF Fills, Filling, At
  <2>12. \A b \in Actors : Fills(b)' => conns'[job'[b].conn].tools = <<>> /\ conns'[job'[b].conn].calls = {}
    <3> SUFFICES ASSUME NEW b \in Actors, Fills(b)'
                 PROVE  conns'[job'[b].conn].tools = <<>> /\ conns'[job'[b].conn].calls = {}
      OBVIOUS
    <3>1. Fills(b) /\ job'[b].conn = job[b].conn
      BY <2>8, <2>11 DEF Fills
    <3>2. job[b].conn \in Ids /\ conns[job[b].conn].tools = <<>> /\ conns[job[b].conn].calls = {}
      BY <2>9, <3>1 DEF RouteInv, Unfilled, Unrouted
    <3>3. conns'[job[b].conn].tools = <<>> /\ conns'[job[b].conn].calls = {}
      BY <2>5, <3>2
    <3> QED
      BY <3>1, <3>3
  <2>13. \A b, d \in Actors : Fills(b)' /\ b # d /\ job'[b].conn = job'[d].conn => At(d, "drain")'
    BY <2>8, <2>11 DEF RouteInv, Unfilled, Fills, At
  <2>14. ASSUME Alone, NEW m \in Names, Offers'[m] # <<>> PROVE m \in Range(order')
    <3>1. /\ Offers[m] = IF servers[m] = None THEN <<>> ELSE conns[servers[m]].tools
          /\ Offers'[m] = IF servers'[m] = None THEN <<>> ELSE conns'[servers'[m]].tools
      BY DEF Offers, ListsOf
    <3>2. m # n /\ servers'[m] = servers[m] /\ servers[m] # None
      BY <2>6, <2>14, <3>1
    <3>3. servers[m] \in Ids
      BY <2>9, <3>2
    <3>4. conns'[servers[m]].tools # <<>>
      BY <2>14, <3>1, <3>2
    <3>5. conns[servers[m]].tools # <<>>
      BY <2>5, <3>3, <3>4
    <3>6. Offers[m] # <<>>
      BY <3>1, <3>2, <3>5
    <3> QED
      BY <2>7, <2>14, <3>2, <3>6 DEF RouteInv, Settles
  <2>15. ASSUME Alone, NEW b \in Actors, job'[b].todo # <<>> PROVE Head(job'[b].todo) \notin Before
    <3>1. b = a
      BY <1>2, <2>8, <2>15, Solo DEF LeakInv
    <3> QED
      BY <1>1, <1>4, <3>1 DEF Before
  <2>16. \A d \in Ids : conns'[d].tools \in Listings
    BY <2>5 DEF RouteInv, Listings
  <2> QED
    BY <1>2, <2>2, <2>7, <2>10, <2>12, <2>13, <2>14, <2>15, <2>16, RouteRebuilt
<1> QED
  BY <1>3, <1>4

LEMMA IndexRoute ==
    ASSUME RouteInv, LeakInv, LeakInv', NamesAssumption, IdsAssumption, NEW a \in Actors, Index(a)
    PROVE  RouteInv'
<1> DEFINE n == job[a].name  d == job[a].conn
<1>1. /\ At(a, "index") /\ Others(a) /\ Same(a) /\ job'[a].todo # <<>> /\ job'[a].conn = None
      /\ Head(job'[a].todo) \in After(job[a].op, "index") /\ job[a].op \in DOMAIN Closing /\ n \in Names
  BY IndexMoves DEF LeakInv, GoesOn
<1>2. d \in Ids /\ job[a].todo # <<>> /\ UNCHANGED <<setting, servers>>
  BY <1>1, Heads DEF LeakInv, Holding, Index, rest
<1>3. PICK list \in Lists[n] : conns' = [conns EXCEPT ![d].tools = list]
  BY DEF Index
<1>4. index' = Rebuild(servers', conns', order')
  BY <1>2 DEF Index
<1>5. \A c \in Ids : /\ conns'[c].name = conns[c].name /\ conns'[c].calls = conns[c].calls
                     /\ conns'[c].tools = IF c = d THEN list ELSE conns[c].tools
  BY <1>2, <1>3 DEF LeakInv, Shapes, ConnFields
<1>6. order' \in Seq(Names) /\ Once(order') /\ \A m \in Range(order) \union {n} : m \in Range(order')
  BY <1>1, Entered DEF RouteInv, Index
<1>7. \A b \in Actors \ {a} : job'[b] = job[b]
  BY <1>1 DEF Others
<1>8. /\ \A m \in Names : servers[m] \in Ids \union {None}
      /\ \A b \in Actors : /\ job[b].conn \in Ids \union {None} /\ job[b].probed \in Ids \union {None}
                           /\ Fills(b) => job[b].conn \in Ids
                           /\ Fills(b)' => job'[b].conn \in Ids
      /\ None \notin Ids
  BY DEF LeakInv, Shapes, Jobs, Ready, Fills, Filling, Holding, IdsAssumption
<1>9. Titled'
  <2>0. \A b \in Actors : \A c \in {job[b].conn, job[b].probed} :
           c # None => c \in Ids /\ conns[c].name = job[b].name /\ conns'[c].name = job[b].name
    <3> SUFFICES ASSUME NEW b \in Actors, NEW c \in {job[b].conn, job[b].probed}, c # None
                 PROVE  c \in Ids /\ conns[c].name = job[b].name /\ conns'[c].name = job[b].name
      OBVIOUS
    <3>1. c \in Ids
      BY <1>8
    <3>2. conns[c].name = job[b].name
      BY DEF RouteInv, Titled
    <3> QED
      BY <1>5, <3>1, <3>2
  <2>1. ASSUME NEW m \in Names, servers'[m] # None PROVE conns'[servers'[m]].name = m
    BY <1>2, <1>5, <1>8, <2>1 DEF RouteInv, Titled
  <2>2. ASSUME NEW b \in Actors \ {a}
        PROVE  /\ job'[b].conn # None => conns'[job'[b].conn].name = job'[b].name
               /\ job'[b].probed # None => conns'[job'[b].probed].name = job'[b].name
    BY <1>7, <2>0
  <2>3. job'[a].probed # None => conns'[job'[a].probed].name = job'[a].name
    BY <1>1, <2>0 DEF Same
  <2> QED
    BY <1>1, <2>1, <2>2, <2>3 DEF Titled
<1>10. Fills(a) /\ ~Fills(a)'
  <2>1. Fills(a)
    BY <1>1 DEF Fills, Filling, At
  <2> QED
    BY <1>1, <1>8, <2>1
<1>11. ASSUME NEW b \in Actors, Fills(b)'
       PROVE  b # a /\ Fills(b) /\ job'[b].conn = job[b].conn /\ job[b].conn # d
  <2>1. b # a /\ Fills(b) /\ job'[b].conn = job[b].conn
    BY <1>7, <1>10, <1>11 DEF Fills
  <2>2. ~At(b, "drain")
    BY <2>1 DEF Fills, Filling, At
  <2> QED
    BY <1>10, <2>1, <2>2 DEF RouteInv, Unfilled
<1>12. \A b \in Actors : Fills(b)' => conns'[job'[b].conn].tools = <<>> /\ conns'[job'[b].conn].calls = {}
  <2> SUFFICES ASSUME NEW b \in Actors, Fills(b)'
               PROVE  conns'[job'[b].conn].tools = <<>> /\ conns'[job'[b].conn].calls = {}
    OBVIOUS
  <2>1. job'[b].conn = job[b].conn /\ job[b].conn # d /\ job[b].conn \in Ids
    BY <1>8, <1>11
  <2>2. conns[job[b].conn].tools = <<>> /\ conns[job[b].conn].calls = {}
    BY <1>11 DEF RouteInv, Unfilled, Unrouted
  <2>3. conns'[job[b].conn].tools = <<>> /\ conns'[job[b].conn].calls = {}
    BY <1>5, <2>1, <2>2
  <2> QED
    BY <2>1, <2>3
<1>13. \A b, e \in Actors : Fills(b)' /\ b # e /\ job'[b].conn = job'[e].conn => At(e, "drain")'
  <2> SUFFICES ASSUME NEW b \in Actors, NEW e \in Actors, Fills(b)', b # e, job'[b].conn = job'[e].conn
               PROVE  At(e, "drain")'
    OBVIOUS
  <2>1. e # a /\ job'[e] = job[e]
    BY <1>1, <1>7, <1>8
  <2>2. At(e, "drain")
    BY <1>11, <2>1 DEF RouteInv, Unfilled
  <2> QED
    BY <2>1, <2>2 DEF At
<1>14. ASSUME Alone, NEW m \in Names, Offers'[m] # <<>> PROVE m \in Range(order')
  <2>1. /\ Offers[m] = IF servers[m] = None THEN <<>> ELSE conns[servers[m]].tools
        /\ Offers'[m] = IF servers'[m] = None THEN <<>> ELSE conns'[servers'[m]].tools
    BY DEF Offers, ListsOf
  <2>2. CASE servers[m] = d
    <3>1. conns[d].name = m /\ conns[d].name = n
      BY <1>2, <1>8, <2>2 DEF RouteInv, Titled
    <3> QED
      BY <1>6, <3>1
  <2>3. CASE servers[m] # d
    <3>1. Offers[m] # <<>>
      BY <1>2, <1>5, <1>8, <1>14, <2>1, <2>3
    <3> QED
      BY <1>6, <1>14, <3>1 DEF RouteInv, Settles
  <2> QED
    BY <2>2, <2>3
<1>15. ASSUME Alone, NEW b \in Actors, job'[b].todo # <<>> PROVE Head(job'[b].todo) \notin Before
  <2>1. b = a
    BY <1>2, <1>7, <1>15, Solo DEF LeakInv
  <2>2. After(job[a].op, "index") \cap Before = {}
    BY <1>1, Leads
  <2> QED
    BY <1>1, <2>1, <2>2
<1>16. \A c \in Ids : conns'[c].tools \in Listings
  BY <1>1, <1>5 DEF RouteInv, Listings
<1> QED
  BY <1>2, <1>4, <1>6, <1>9, <1>12, <1>13, <1>14, <1>15, <1>16, RouteRebuilt

LEMMA RouteNext ==
    ASSUME RouteInv, LeakInv, LeakInv', NamesAssumption, IdsAssumption, SettledAssumption,
           BoundsAssumption, Next
    PROVE  RouteInv'
<1>1. ASSUME NEW a \in Actors, Step(a) PROVE RouteInv'
  <2>1. CASE Finish(a) \/ Unpublish(a) \/ Drained(a) \/ LookUp(a) \/ SetupOAuth(a)
    BY <2>1, FinishRoute, UnpublishRoute, DrainRoute, LookUpRoute, SetupRoute
  <2>2. CASE Connect(a) \/ Publish(a) \/ ListTools(a) \/ Index(a) \/ Shelve(a) \/ Hold(a) \/ WriteFile(a)
    BY <2>2, ConnectRoute, PublishRoute, ListRoute, IndexRoute, EnterRoute, WriteRoute
  <2>3. CASE HealthStep \/ BootStep \/ OAuthStep
    BY <2>3, HealthRoute, BootRoute, OAuthRoute
  <2> QED
    BY <1>1, <2>1, <2>2, <2>3 DEF Step, HealthStep, BootStep, OAuthStep
<1>2. ASSUME NEW n \in Targets, Operate(n) \/ Probe(n) \/ BootTool(n) \/ Reconnect(n) PROVE RouteInv'
  BY <1>2, BeginRoute
<1>3. CASE Outside \/ \E c \in Ids : Reap(c)
  BY <1>3, OutsideRoute
<1> QED
  BY <1>1, <1>2, <1>3 DEF Next, Operate, Outside

LEMMA RouteStutter ==
    ASSUME RouteInv, UNCHANGED vars
    PROVE  RouteInv'
<1>1. UNCHANGED <<servers, conns, index, order, job, setting>>
  BY DEF vars, manager, rest
<1>2. Offers' = Offers
  BY <1>1 DEF Offers
<1> QED
  BY <1>1, <1>2 DEF RouteInv, Titled, Unfilled, Unrouted, Fills, Routed, Settles, Alone, At

(* A finite set in some order.                                             *)
LEMMA Arranged ==
    ASSUME NEW S, IsFiniteSet(S)
    PROVE  SetToSeq(S) \in Seq(S) /\ Once(SetToSeq(S)) /\ \A n \in S : n \in Range(SetToSeq(S))
<1> DEFINE k == Cardinality(S)  f == SetToSeq(S)
<1>1. k \in Nat /\ ExistsBijection(1 .. k, S)
  BY FS_CardinalityType
<1>2. PICK g \in [1 .. k -> S] : IsInjective(g)
  BY <1>1 DEF ExistsBijection, Bijection, Injection
<1>3. f \in [1 .. k -> S] /\ IsInjective(f)
  <2> HIDE DEF k
  <2>1. f = CHOOSE h \in [1 .. Cardinality(S) -> S] : IsInjective(h)
    BY DEF SetToSeq
  <2> QED
    BY <1>2, <2>1 DEF k
<1> HIDE DEF f
<1>4. f \in Injection(1 .. k, S)
  BY <1>3 DEF Injection
<1>5. Cardinality(1 .. k) = k
  BY <1>1, FS_Interval
<1>6. f \in Surjection(1 .. k, S)
  BY <1>4, <1>5, FS_Injection
<1> HIDE DEF k
<1>7. f \in Seq(S)
  BY <1>1, <1>3
<1>8. DOMAIN f = 1 .. k
  BY <1>3
<1>9. Once(f)
  BY <1>3 DEF Once, IsInjective
<1>10. \A n \in S : n \in Range(f)
  BY <1>6, <1>8 DEF Surjection, Range
<1> QED
  BY <1>7, <1>9, <1>10 DEF f

LEMMA RouteInit ==
    ASSUME Init, NamesAssumption, IdsAssumption, SettledAssumption
    PROVE  RouteInv
<1> DEFINE Of(c) == CHOOSE m \in DOMAIN Settled : Settled[m] = c
<1>1. /\ servers = [n \in Names |-> IF n \in DOMAIN Settled THEN Settled[n] ELSE None]
      /\ job = [a \in Actors |-> Idle] /\ order = SetToSeq(DOMAIN Settled)
      /\ index = Rebuild(servers, conns, order)
  BY DEF Init
<1>2. PICK lists \in [DOMAIN Settled -> UNION {Lists[n] : n \in DOMAIN Settled}] :
         /\ \A n \in DOMAIN Settled : lists[n] \in Lists[n]
         /\ conns = [c \in Ids |->
               IF \E n \in DOMAIN Settled : Settled[n] = c
               THEN [Conn(Of(c), [NoCfg EXCEPT !.gen = 1, !.transport = "stdio"], "open") EXCEPT !.tools = lists[Of(c)]]
               ELSE Conn(<<>>, NoCfg, "none")]
  BY Zenon DEF Init
<1>3. \A n, cfg, l : LET r == [Conn(n, cfg, "open") EXCEPT !.tools = l] IN r.name = n /\ r.tools = l
  BY DEF Conn
<1>4. Conn(<<>>, NoCfg, "none").tools = <<>>
  BY DEF Conn
<1>5. ASSUME NEW n \in DOMAIN Settled
      PROVE  conns[Settled[n]].name = n /\ conns[Settled[n]].tools = lists[n] /\ Settled[n] \in Ids
  <2>1. Settled[n] \in Ids /\ Of(Settled[n]) = n
    BY DEF SettledAssumption
  <2> HIDE DEF Of
  <2> QED
    BY <1>2, <1>3, <2>1
<1>6. ASSUME NEW c \in Ids PROVE conns[c].tools \in Listings
  <2>1. CASE \E n \in DOMAIN Settled : Settled[n] = c
    <3>1. PICK n \in DOMAIN Settled : Settled[n] = c
      BY <2>1
    <3>2. conns[c].tools \in Lists[n] /\ n \in Names
      BY <1>2, <1>5, <3>1 DEF SettledAssumption
    <3> QED
      BY <3>2 DEF Listings
  <2>2. CASE ~\E n \in DOMAIN Settled : Settled[n] = c
    BY <1>2, <1>4, <2>2 DEF Listings
  <2> QED
    BY <2>1, <2>2
<1> HIDE DEF Of
<1>7. /\ order \in Seq(Names) /\ Once(order) /\ \A n \in DOMAIN Settled : n \in Range(order)
  <2>1. DOMAIN Settled \in SUBSET Names
    BY DEF SettledAssumption
  <2>2. IsFiniteSet(DOMAIN Settled)
    BY <2>1, FS_Subset DEF NamesAssumption
  <2>3. order \in Seq(DOMAIN Settled) /\ Once(order) /\ \A n \in DOMAIN Settled : n \in Range(order)
    BY <1>1, <2>2, Arranged
  <2> QED
    BY <2>1, <2>3
<1>8. \A n \in Names : servers[n] # None => n \in DOMAIN Settled /\ servers[n] = Settled[n]
  BY <1>1
<1>9. \A a \in Actors : job[a].conn = None /\ job[a].probed = None /\ job[a].todo = <<>>
  BY <1>1, Idles
<1>10. Titled
  BY <1>5, <1>8, <1>9 DEF Titled
<1>11. Unfilled
  BY <1>9 DEF Unfilled, Fills
<1>12. \A n \in Names : ListsOf(servers, conns)[n] \in Listings
  BY <1>5, <1>6, <1>8 DEF ListsOf, Listings
<1>13. ASSUME NEW t \in DOMAIN index.map PROVE Routed(t)
  <2>0. index = Rebuild(servers, conns, order) /\ order \in Seq(Names)
    BY <1>1, <1>7
  <2>1. LET e == index.map[t] IN
        \E n \in Names : /\ servers[n] # None /\ e.conn = servers[n]
                         /\ e.tool \in Range(conns[servers[n]].tools)
                         /\ t \in {e.tool, Qualified(n, e.tool)}
    <3> DEFINE new == Rebuild(servers, conns, order)
    <3>1. t \in DOMAIN new.map
      BY <2>0
    <3>2. LET e == new.map[t] IN
          \E n \in Range(order) \cap Names :
             /\ servers[n] # None /\ e.conn = servers[n] /\ e.tool \in Range(conns[servers[n]].tools)
             /\ t \in {e.tool, Qualified(n, e.tool)}
      BY <1>12, <2>0, <3>1, RebuildRoutes, NamesAssumption
    <3> QED
      BY <2>0, <3>2
  <2>2. PICK n \in Names : /\ servers[n] # None /\ index.map[t].conn = servers[n]
                           /\ index.map[t].tool \in Range(conns[servers[n]].tools)
                           /\ t \in {index.map[t].tool, Qualified(n, index.map[t].tool)}
    BY <2>1
  <2>3. servers[n] \in Ids /\ conns[servers[n]].name = n
    BY <1>5, <1>8, <2>2
  <2> QED
    BY <2>2, <2>3 DEF Routed
<1>14. Settles
  <2>1. \A n \in Names : Offers[n] # <<>> => n \in Range(order)
    BY <1>7, <1>8 DEF Offers, ListsOf
  <2> QED
    BY <1>1, <1>9, <2>1 DEF Settles
<1> QED
  BY <1>6, <1>7, <1>10, <1>11, <1>13, <1>14 DEF RouteInv

LEMMA RoutedAlone ==
    ASSUME RouteInv, LeakInv, NamesAssumption, IdsAssumption, Alone,
           NEW t \in DOMAIN index.map, t = index.map[t].tool, NEW m \in Listed,
           m # conns[index.map[t].conn].name
    PROVE  t \notin Range(conns[servers[m]].tools)
<1>1. index = Rebuild(servers, conns, order) /\ order \in Seq(Names)
  BY DEF RouteInv, Settles
<1>2. \A n \in Names : servers[n] \in Ids \union {None}
  BY DEF LeakInv, Shapes
<1>3. \A n \in Names : ListsOf(servers, conns)[n] \in Listings
  BY <1>2 DEF ListsOf, Listings, RouteInv
<1>4. PICK n \in Names :
         /\ servers[n] # None /\ index.map[t].conn = servers[n]
         /\ \A k \in Range(order) : k # n => t \notin Range(ListsOf(servers, conns)[k])
  BY <1>1, <1>3, RebuildRoutes
<1>5. m # n
  BY <1>4 DEF RouteInv, Titled
<1>6. m \in Names /\ Offers[m] = conns[servers[m]].tools
  BY DEF Listed, Offers, ListsOf
<1>7. CASE Offers[m] = <<>>
  BY <1>6, <1>7, EmptySeq DEF Range
<1>8. CASE Offers[m] # <<>>
  <2>1. m \in Range(order)
    BY <1>6, <1>8 DEF RouteInv, Settles
  <2> QED
    BY <1>4, <1>5, <1>6, <2>1 DEF Offers
<1> QED
  BY <1>7, <1>8

(* Every advertised name leads to the tool it names, a bare name that two  *)
(* servers offer leads to neither, and between operations the index is the *)
(* one of the servers that are listed.                                     *)
THEOREM NamesLeadToTheirTools == Spec => []RoutesAsAdvertised
<1>1. Init => LeakInv /\ RouteInv
  BY LeakInit, RouteInit, NamesAssumption, IdsAssumption, SettledAssumption
<1>2. LeakInv /\ RouteInv /\ [Next]_vars => LeakInv' /\ RouteInv'
  BY LeakNext, LeakStutter, RouteNext, RouteStutter, NamesAssumption, IdsAssumption,
     SettledAssumption, BoundsAssumption
<1>3. LeakInv /\ RouteInv => RoutesAsAdvertised
  <2> SUFFICES ASSUME LeakInv, RouteInv PROVE RoutesAsAdvertised
    OBVIOUS
  <2>1. Alone /\ Quiet => index = Rebuild(servers, conns, order)
    BY DEF RouteInv, Settles
  <2>2. ASSUME NEW t \in DOMAIN index.map
        PROVE  LET c == index.map[t].conn
                   local == index.map[t].tool
               IN  /\ t \in {local, Qualified(conns[c].name, local)}
                   /\ conns[c].drain = "live" => local \in Range(conns[c].tools)
                   /\ t = local /\ Alone => \A n \in Listed :
                         n # conns[c].name => local \notin Range(conns[servers[n]].tools)
    <3>1. Routed(t)
      BY DEF RouteInv
    <3>2. ASSUME t = index.map[t].tool, Alone, NEW n \in Listed, n # conns[index.map[t].conn].name
          PROVE  index.map[t].tool \notin Range(conns[servers[n]].tools)
      BY <3>2, RoutedAlone, NamesAssumption, IdsAssumption
    <3> QED
      BY <3>1, <3>2 DEF Routed
  <2> QED
    BY <2>1, <2>2 DEF RoutesAsAdvertised
<1> QED
  BY <1>1, <1>2, <1>3, PTL DEF Spec

-----------------------------------------------------------------------------
(* What a step closes.                                                     *)

Shut == {"closing", "closed"}

ClosesDrained ==
    \A c \in Ids : conns'[c].session \in Shut =>
        conns[c].session \in Shut \/ conns[c].calls = {} \/ conns'[c].forced

LEMMA ClosedDrained ==
    ASSUME Shapes, NEW d \in Ids, Closed(d), conns[d].calls = {}
    PROVE  ClosesDrained
<1>1. \A c \in Ids \ {d} : conns'[c] = conns[c]
  BY DEF Closed, Shapes
<1> QED
  BY <1>1 DEF ClosesDrained

LEMMA FreshDrained ==
    ASSUME Shapes, Unused # {}, NEW r, r.session \notin Shut, conns' = [conns EXCEPT ![Fresh] = r]
    PROVE  ClosesDrained
BY DEF ClosesDrained, Shapes

(* A field that is not the session.                                        *)
SessionsStay == \A c \in Ids : conns'[c].session = conns[c].session \/ conns'[c].session \notin Shut

LEMMA StayDrained ==
    ASSUME SessionsStay
    PROVE  ClosesDrained
BY DEF SessionsStay, ClosesDrained

LEMMA ManagerDrains ==
    ASSUME RouteInv, LeakInv, IdsAssumption, NEW a \in Actors,
           Finish(a) \/ Unpublish(a) \/ Drained(a) \/ SetupOAuth(a) \/ Connect(a)
    PROVE  ClosesDrained
<1>0. Shapes
  BY DEF LeakInv
<1>1. CASE Finish(a)
  <2>1. Conn(<<>>, NoCfg, "none").session = "none"
    BY ConnShape
  <2>2. \A c \in Ids : conns'[c] \in {conns[c], Conn(<<>>, NoCfg, "none")}
    BY <1>1 DEF Finish, Swept
  <2>3. SessionsStay
    BY <2>1, <2>2 DEF SessionsStay, Shut
  <2> QED
    BY <2>3, StayDrained
<1>2. CASE Unpublish(a)
  <2>1. servers[job[a].name] # None => servers[job[a].name] \in Ids
    BY <1>2, Heads DEF LeakInv, Unpublish, Shapes
  <2>2. CASE UNCHANGED conns
    BY <2>2, StayDrained DEF SessionsStay, Shut
  <2>3. CASE conns' # conns
    <3> DEFINE c == servers[job[a].name]  r == [Drain(c) EXCEPT !.tools = <<>>]
    <3>1. c # None /\ conns' = [conns EXCEPT ![c] = r]
      BY <1>2, <2>3 DEF Unpublish, manager
    <3>2. c \in Ids
      BY <2>1, <3>1
    <3>3. r.session = conns[c].session
      BY <1>0, <3>2 DEF Drain, Shapes, ConnFields
    <3> HIDE DEF r, c
    <3>4. SessionsStay
      BY <1>0, <3>1, <3>2, <3>3 DEF SessionsStay, Shut, Shapes
    <3> QED
      BY <3>4, StayDrained
  <2> QED
    BY <2>2, <2>3
<1>3. CASE Drained(a)
  <2>1. job[a].conn \in Ids
    BY <1>3, Heads DEF LeakInv, Drained, Holding, IdsAssumption
  <2> QED
    BY <1>0, <1>3, <2>1, ClosedDrained DEF Drained
<1>4. CASE SetupOAuth(a)
  <2>1. CASE UNCHANGED conns
    BY <2>1, StayDrained DEF SessionsStay, Shut
  <2>2. CASE conns' # conns
    <3> DEFINE r == [Conn(job[a].name, job[a].cfg, "none") EXCEPT !.handler = TRUE]
    <3>1. Unused # {} /\ conns' = [conns EXCEPT ![Fresh] = r]
      BY <1>4, <2>2 DEF SetupOAuth, manager
    <3>2. r.session = "none"
      BY ConnShape
    <3> HIDE DEF r
    <3> QED
      BY <1>0, <3>1, <3>2, FreshDrained DEF Shut
  <2> QED
    BY <2>1, <2>2
<1>5. CASE Connect(a)
  <2>1. CASE UNCHANGED conns
    BY <2>1, StayDrained DEF SessionsStay, Shut
  <2>2. CASE conns' # conns
    <3> DEFINE r == [Conn(job[a].name, job[a].cfg, "open") EXCEPT !.handler = job[a].cfg.auth]
    <3>1. Unused # {} /\ conns' = [conns EXCEPT ![Fresh] = r]
      BY <1>5, <2>2 DEF Connect
    <3>2. r.session = "open"
      BY ConnShape
    <3> HIDE DEF r
    <3> QED
      BY <1>0, <3>1, <3>2, FreshDrained DEF Shut
  <2> QED
    BY <2>1, <2>2
<1> QED
  BY <1>1, <1>2, <1>3, <1>4, <1>5

LEMMA RegistrationDrains ==
    ASSUME RouteInv, LeakInv, IdsAssumption, NEW a \in Actors,
           Publish(a) \/ ListTools(a) \/ Index(a) \/ Shelve(a) \/ Hold(a) \/ LookUp(a) \/ WriteFile(a)
    PROVE  ClosesDrained
<1>0. Shapes
  BY DEF LeakInv
<1>1. CASE UNCHANGED conns
  BY <1>1, StayDrained DEF SessionsStay, Shut
<1>2. CASE Publish(a) /\ conns' # conns
  <2> DEFINE c == servers[job[a].name]
  <2>1. c # None /\ conns' = [conns EXCEPT ![c] = Drain(c)]
    BY <1>2 DEF Publish
  <2>2. c \in Ids
    BY <1>2, <2>1, Heads DEF LeakInv, Publish, Shapes
  <2>3. Drain(c).session = conns[c].session
    BY <1>0, <2>2 DEF Drain, Shapes, ConnFields
  <2> HIDE DEF c
  <2>4. SessionsStay
    BY <1>0, <2>1, <2>2, <2>3 DEF SessionsStay, Shut, Shapes
  <2> QED
    BY <2>4, StayDrained
<1>3. CASE ListTools(a) /\ conns' # conns
  <2> DEFINE d == job[a].conn
  <2>1. conns' = [conns EXCEPT ![d].session = "closed"] /\ At(a, "list")
    BY <1>3 DEF ListTools
  <2>2. d \in Ids
    BY <2>1, Heads DEF LeakInv, Holding, IdsAssumption
  <2>3. conns[d].calls = {}
    <3>1. Fills(a)
      BY <2>1 DEF Fills, Filling, At
    <3> QED
      BY <3>1 DEF RouteInv, Unfilled, Unrouted
  <2> HIDE DEF d
  <2> QED
    BY <1>0, <2>1, <2>2, <2>3 DEF ClosesDrained, Shapes
<1>4. CASE Index(a)
  <2>1. PICK list : conns' = [conns EXCEPT ![job[a].conn].tools = list]
    BY <1>4 DEF Index
  <2>2. SessionsStay
    BY <1>0, <2>1 DEF SessionsStay, Shut, Shapes, ConnFields
  <2> QED
    BY <2>2, StayDrained
<1>5. CASE Shelve(a) \/ Hold(a)
  <2>1. PICK mark : Unused # {} /\ conns' = [conns EXCEPT ![Fresh] = Placeholder(job[a].name, job[a].cfg, mark)]
    BY <1>5 DEF Shelve, Hold, Enter
  <2>2. Placeholder(job[a].name, job[a].cfg, mark).session = "none"
    BY DEF Placeholder, Conn
  <2> QED
    BY <1>0, <2>1, <2>2, FreshDrained DEF Shut
<1>6. LookUp(a) \/ WriteFile(a) => UNCHANGED conns
  BY DEF LookUp, WriteFile, Rewrite, manager
<1> QED
  BY <1>1, <1>2, <1>3, <1>4, <1>5, <1>6

LEMMA ActorDrains ==
    ASSUME RouteInv, LeakInv, IdsAssumption, HealthStep \/ BootStep \/ OAuthStep
    PROVE  ClosesDrained
<1>0. Shapes
  BY DEF LeakInv
<1>1. CASE UNCHANGED conns
  BY <1>1, StayDrained DEF SessionsStay, Shut
<1>2. CASE Pending
  <2>1. /\ Unused # {}
        /\ conns' = [conns EXCEPT ![Fresh] = Placeholder(job["boot"].name, job["boot"].cfg, "connecting")]
    BY <1>2 DEF Pending, Enter
  <2>2. Placeholder(job["boot"].name, job["boot"].cfg, "connecting").session = "none"
    BY DEF Placeholder, Conn
  <2> QED
    BY <1>0, <2>1, <2>2, FreshDrained DEF Shut
<1>3. CASE ProbeAnswered \/ Healed
  <2>1. PICK c, r : conns' = [conns EXCEPT ![c].restarts = r] \/ UNCHANGED conns
    BY <1>3 DEF ProbeAnswered, Healed
  <2>2. SessionsStay
    BY <1>0, <2>1 DEF SessionsStay, Shut, Shapes, ConnFields
  <2> QED
    BY <2>2, StayDrained
<1>4. CASE ProbeFailed
  <2>1. PICK c, r, s : conns' = [conns EXCEPT ![c].restarts = r, ![c].resting = s]
    BY <1>4 DEF ProbeFailed
  <2>2. SessionsStay
    BY <1>0, <2>1 DEF SessionsStay, Shut, Shapes, ConnFields
  <2> QED
    BY <2>2, StayDrained
<1>5. CASE GiveUp
  <2>1. PICK c : conns' = [conns EXCEPT ![c].mark = "gaveUp"] \/ UNCHANGED conns
    BY <1>5 DEF GiveUp
  <2>2. SessionsStay
    BY <1>0, <2>1 DEF SessionsStay, Shut, Shapes, ConnFields
  <2> QED
    BY <2>2, StayDrained
<1>6. Backoff \/ Reinsert \/ Retry \/ OAuthStep => UNCHANGED conns
  BY DEF Backoff, Reinsert, Retry, OAuthStep, ClearToken, Initiate, manager
<1> QED
  BY <1>1, <1>2, <1>3, <1>4, <1>5, <1>6 DEF HealthStep, BootStep

LEMMA OthersDrain ==
    ASSUME LeakInv, NEW n \in Targets,
           Operate(n) \/ Probe(n) \/ BootTool(n) \/ Reconnect(n) \/ GoDown(n) \/ ComeUp(n)
    PROVE  ClosesDrained
<1>0. Shapes
  BY DEF LeakInv
<1>1. CASE UNCHANGED conns
  BY <1>1, StayDrained DEF SessionsStay, Shut
<1>2. CASE \E held \in Helds : Withhold(n, held)
  <2>1. PICK c, r : conns' = [conns EXCEPT ![c].off = r, ![c].cfg.held = r]
    BY <1>2 DEF Withhold
  <2>2. SessionsStay
    BY <1>0, <2>1 DEF SessionsStay, Shut, Shapes, ConnFields
  <2> QED
    BY <2>2, StayDrained
<1>3. CASE GoDown(n)
  <2>1. \A c \in Ids : conns'[c] \in {conns[c], [conns[c] EXCEPT !.session = "broken"]}
    BY <1>3 DEF GoDown
  <2>2. SessionsStay
    BY <1>0, <2>1 DEF SessionsStay, Shut, Shapes, ConnFields
  <2> QED
    BY <2>2, StayDrained
<1>4. CASE Operate(n)
  <2>1. (\E held \in Helds : Withhold(n, held)) \/ UNCHANGED conns
    BY <1>4 DEF Operate, AddTool, UpdateTool, RemoveTool, RestartTool, DisableTool, EnableTool,
                AddPlugin, RemovePlugin, manager
  <2> QED
    BY <1>1, <1>2, <2>1
<1>5. Probe(n) \/ BootTool(n) \/ Reconnect(n) \/ ComeUp(n) => UNCHANGED conns
  BY DEF Probe, BootTool, Reconnect, ComeUp, manager
<1> QED
  BY <1>1, <1>3, <1>4, <1>5

LEMMA CallersDrain ==
    ASSUME LeakInv, (\E c \in Ids : Reap(c) \/ Expire(c) \/ RetryDue(c)) \/ \E x \in Callers : Call(x) \/ Return(x)
    PROVE  ClosesDrained
<1>0. Shapes
  BY DEF LeakInv
<1>1. CASE \E c \in Ids : Reap(c)
  <2>1. PICK d \in Ids : Closed(d) /\ conns[d].calls = {}
    BY <1>1 DEF Reap
  <2> QED
    BY <1>0, <2>1, ClosedDrained
<1>2. CASE \E c \in Ids : RetryDue(c)
  <2>1. PICK c \in Ids : conns' = [conns EXCEPT ![c].resting = FALSE]
    BY <1>2 DEF RetryDue
  <2>2. SessionsStay
    BY <1>0, <2>1 DEF SessionsStay, Shut, Shapes, ConnFields
  <2> QED
    BY <2>2, StayDrained
<1>3. CASE \E x \in Callers : Call(x) \/ Return(x)
  <2>1. PICK c, s : conns' = [conns EXCEPT ![c].calls = s]
    BY <1>3 DEF Call, Return
  <2>2. SessionsStay
    BY <1>0, <2>1 DEF SessionsStay, Shut, Shapes, ConnFields
  <2> QED
    BY <2>2, StayDrained
<1>4. CASE \E c \in Ids : Expire(c)
  BY <1>0, <1>4, ExpireIs DEF ClosesDrained
<1> QED
  BY <1>1, <1>2, <1>3, <1>4

LEMMA NextDrains ==
    ASSUME RouteInv, LeakInv, IdsAssumption, Next
    PROVE  ClosesDrained
<1>1. ASSUME NEW a \in Actors, Step(a) PROVE ClosesDrained
  <2>1. CASE HealthStep \/ BootStep \/ OAuthStep
    BY <2>1, ActorDrains
  <2> QED
    BY <1>1, <2>1, ManagerDrains, RegistrationDrains DEF Step, HealthStep, BootStep, OAuthStep
<1> QED
  BY <1>1, OthersDrain, CallersDrain DEF Next, Operate

(* A session is never closed under a running call unless the drain window  *)
(* of that server has expired, whichever of the goroutines closes it.      *)
THEOREM SessionsDrainFirst == Spec => CallsDrainFirst
<1>1. Init => LeakInv /\ RouteInv
  BY LeakInit, RouteInit, NamesAssumption, IdsAssumption, SettledAssumption
<1>2. LeakInv /\ RouteInv /\ [Next]_vars => LeakInv' /\ RouteInv'
  BY LeakNext, LeakStutter, RouteNext, RouteStutter, NamesAssumption, IdsAssumption,
     SettledAssumption, BoundsAssumption
<1> DEFINE NoneCut == \A c \in Ids :
      conns[c].session \in {"open", "broken"} /\ conns[c].calls # {}
        /\ conns'[c].session \in Shut => conns'[c].forced
<1>3. LeakInv /\ RouteInv /\ [Next]_vars => [NoneCut]_vars
  BY NextDrains, IdsAssumption DEF ClosesDrained, Shut
<1> QED
  BY <1>1, <1>2, <1>3, PTL DEF Spec, CallsDrainFirst, Shut

=============================================================================
