# Verification of denkeeper

TLA+ models of the parts of denkeeper in which several goroutines, a restart, a
failing call or a late answer decide what happens: the approval manager, the
chain of reviewers behind a tool call, the tool loop of a turn with its
cooperative stop, the scheduler, the dispatcher with /stop, /panic and /resume,
the MCP tool servers with their config file and health checker, the OAuth tokens
of remote ones, eval runs with their judging passes, the dashboard's
WebSocket with its replay buffers, and an agent's skills with their undo journal.
TLC checks each on small instances; TLAPS proves the
main properties for any values of the constants.

    tlasany M.tla                       parse a module
    tlc -config X.cfg M                 one of the runs listed below
    tlapm XProofs.tla                   the proofs about component X

## 1. The system

denkeeper is one Go process. Messages come from chat adapters, the REST and
WebSocket API, MCP clients and schedules; the dispatcher gives each to an agent's
engine; the engine lets a model answer and runs the tool calls it asks for, some
of which a human has to approve.

| Component | State | Operations | Met by |
|---|---|---|---|
| Approval manager (`internal/approval`) | `approvals` table, closure registry, waiter channels, rules (session in memory, permanent in the database, config) | Submit, WaitForResolution, SubmitAndWait, Resolve, ResolveByCallback, Abort, Add*Rule, SetConfigRules, expiry worker | engine submits and waits; REST, WebSocket, MCP and chat buttons decide, on goroutines of their own |
| Approval chain (`agent/engine.go`, `supervisor_decider.go`) | one call's attempt, its wait's deadline, the reviewers' answers | rules, decider, supervisor, human; retry, withdraw, abort | inside a turn, over the approval manager |
| Turn engine (`agent/engine.go`) | stop generation, stop handles of active turns, per turn: messages, records, budget, repeat detector | chatWithApproval, runToolLoop, finishStoppedToolLoop, persistTurn; RequestStop, RequestStopChat | dispatcher, API, schedules start turns; /stop and /panic stop them |
| Scheduler (`internal/scheduler`) | entries map, contexts, paused flag, WaitGroup, one goroutine per entry | Register, RegisterAndStart, Unregister, UpdateEnabled, Pause, Resume, Start, Stop | main, REST, MCP; Pause and Resume from /panic and /resume |
| Dispatcher (`agent/dispatcher.go`) | agents, bindings, panicked flag, in-flight table, registered cancels | Run, dispatchMessage, handleMessage, StopChat, Panic, Resume | adapters, API |
| Tool servers (`internal/tool`) | `servers` map of conns, each with its drain and calls in flight; advertised index; `disabledCount`; `[tools]` and `[plugins]` sections of the TOML file | AddTool, RemoveTool, UpdateTool, RestartTool, DisableTool, EnableTool, UpdateDisabledTools, AddPlugin, RemovePlugin; health checker; startup retries; OAuth reconnect; Execute, ToolDefs | turns call tools; API and MCP edit them; main registers them |
| Eval runner and judge (`internal/eval`) | `eval_runs`, samples, pairs, items, verdicts (SQLite); active runs and passes, two semaphores, what a run and a pass have spent | StartRun, Stop, StopAll, Shutdown; Judge.Start, StopAll, Shutdown; RecordVerdict | API starts them; the panic hook and main's deferred calls stop them |
| OAuth of remote tools (`internal/tool/oauth`) | `oauth_tokens` row per tool; handlers with a token source each; registry of pending authorizations, their states and channels | connect, revoke, callback, Authorize, refresh and save, ClearToken; cleanup every minute | connect requests, registrations and calls answered with 401 ask; the browser comes back; lifecycle operations clear |
| WebSocket (`api/websocket.go`, `wsreplay.go`) | hub of connections, each with two pumps, a send channel and a semaphore of chats; replay buffer per session | upgrade, chat, reconnect, cancel, broadcast, Close, Shutdown; cleanup of buffers | the dashboard; each chat is a turn in a goroutine of its own |
| Skills (`internal/skilleffect`, `configmcp/skillwriter.go`, `api/skills.go`, `mcpserver/tools_skills.go`) | files `n.md` or `n/SKILL.md` of an agent, the engine's list, the journal `skill_revisions`, LockSkillCreate | create, update, rename, delete, write_file, revert | REST, external MCP clients and the agent's own tools, each on goroutines of their own |
| Memory (`agent/memory.go`) | conversations, messages, records (SQLite) | add, load, compact, clear | turns |
| Audit, kv, tasks, config, llm, adapters, API | see PROJECT.json | | |

What is hard in it:

- **Many goroutines decide one request.** A REST call, a chat button, an MCP
  tool, the sweep of a new rule, the engine's own abort and the expiry worker
  reach the same row; the row is on disk, the closure and the waiter in memory,
  and no lock spans them.
- **A wait with a deadline, a stop and an answer** may end by any of the three
  at once, and is retried with a new row.
- **A stop is cooperative.** A turn looks at it at boundaries only; it reads the
  stop generation before it registers the handle.
- **Pause waits for goroutines it has cancelled** while other callers register,
  update, remove and resume entries.
- **Tool servers are changed behind the operations' lock.** The lifecycle manager
  serializes its operations; the health checker, the startup retries and the
  OAuth reconnect change the same servers without that lock, while calls run.
- **Money is spent by goroutines that outlive the request**: a stop must reach
  those that are starting, a cap those in flight, and a crash must leave rows
  that say what was spent.
- **A token that is used twice is revoked.** A refresh makes a new token at the
  provider before the row is written, while others replace handler and row.
- **A slow or vanished client** fills a channel that turns, the read pump and
  broadcasts send to; what it missed comes from a ring that overwrites.
- **A change of a skill is several steps** in journal, file and memory; any may
  fail or be the last before a crash, and an undo is such a change again.
- **A restart** loses closures, waiters, rules of sessions and every goroutine,
  and keeps the rows and the file.

What makes each part correct is stated property by property in section 3, and
PROJECT.json lists the hazards at their lines.

## 2. The modules

Each component has a module with its state and one action per step, a `...Props`
module with its properties, and an `MC...` module with the constants TLC needs.
A step is what one goroutine does between two points where another may run: one
SQL statement, one critical section, one channel operation, one call of an
action or a job. Operators whose
comment begins with "Mutant:" are faulty
variants of the definition that follows them; no action uses them.

**`Approval`** is `internal/approval`. `status` and `by` are the rows
(`sqlite.go`), `registry` the closures (`registry.go`), `chan` the waiter map of
the manager, `sub` and `told` the goroutine that submits each request, `thr` the
deciding goroutines, with a program counter for each SQL statement, pop,
notification and sweep step of `manager.go`; the three rule variables are the
scopes of `autoapprove.go`. Submitters: `Consult`, `EnrollFirst`, `CreateRow`,
`RegisterClosure`, `EnrollAfter`, `Receive`, `GiveUp`. Deciders begin with
`StartResolve`, `StartCallback`, `StartAbort`, `StartAddRule` or
`SetConfigRules`, and go on with `Select`, `Update`, `Get`, `Settle`,
`RunAction`, `StoreRule`, `List`, `SweepNext`, `Notify`. The environment:
`ExpireBefore`, `DropSessionRules`, `RemoveAutoApproveRule`, `Restart`. Store
calls may fail, each failure taking the code's error path.

**`ApprovalContract`** is what the manager promises with the threads, channels
and rules taken away: a row is opened once, decided at most once, acted on at
most once and only when approved, and its submitter gets at most one answer,
which never contradicts the row. `ApprovalProps!ContractKept` says that
`Approval` implements it (row <- status, acted <- ran, answer <- told).

**`ApprovalChain`** extends `Approval` with the engine's side of one supervised
call: `resolveSupervisedApproval` and `awaitToolApproval`. Attempt *a* submits
request *a*; the engine is one of `Approval`'s threads when it withdraws or
aborts its own row; the wait's context may pass its deadline, the turn's may be
cancelled (the hard kill), and the turn may be stopped, at any step.

**`Turn`** is the tool loop with the cooperative stop. Messages, prompts, costs
and streaming are data: a completion returns any of a small set of responses, or
an error; a tool call and an approval end as they like. What is kept is what
decides the next step: stop generation and handle, rounds, the calls of the
round that still need a result (`owed`), the repeat detector, denied calls and
cached results, records and whether they were saved. Policy turns (a message
sent by an execution policy) and eval runs share the loop but not its entry, and
are left out.

**`Scheduler`** is `scheduler.go`: the entries map and each entry's context,
the goroutines of `runInterval` and `runCron`, the WaitGroup with Go's rule that
adding to a group whose `Wait` is waking panics, and Pause, Resume,
RegisterAndStart, Unregister, update and Stop in the sections their locks make.

**`Dispatcher`** is `dispatcher.go` with what it reaches: the engines' stop generation
and handles, and the scheduler's pause. `inFlight` and `cancels` are its two tables,
`timers` the hard kills armed by StopChat, `dead` the turns whose context is cancelled.
A turn is a program counter: a message passes the check for a panic (`Dispatch`), is
routed (`Spawn`) and enters the table (`Enter`); an API turn registers its cancel
instead (`RegisterChatCancel`); a scheduled one runs on the goroutine of its entry but,
since a job is given the entry and not its context, under the context of the process,
which nobody here cancels (`Tick`); each then captures the generation, registers its
handle, runs and leaves. The callers are the run loop and API goroutines: `StopChat`
asks one engine after the other and then arms, in two critical sections; `Panic` raises
the flag, stops each engine in two steps, sweeps the table and pauses the scheduler,
which cancels no turn but waits for the scheduled one; `Resume` undoes it. `fresh`,
`swept`, `seen` and `raced` are history. What a turn does while it runs is `Turn`; what
happens inside Pause and Resume is `Scheduler`; each is one step here, but for the wait.

**`ToolIndex`** is `toolindex.go`: which names a list of servers advertises and
where each leads. A name is the sequence of its parts between double
underscores, so that qualifying is appending and a tool may itself be named like
another's qualified form.

**`Tools`** is `manager.go`, `lifecycle.go`, `config_writer.go`, the registration of
tools in `main.go` and the reconnect of `oauth_handlers.go`. `conns` are the serverConn
objects, each with its session, its drain state and the calls in flight; `servers`,
`index`, `order` and `count` are the manager's maps and its running sum of withheld
tools; `file`, `sections` and `plugins` the TOML file and the lifecycle manager's own
table. An operation is a list of steps (`todo`): one critical section of the manager,
one wait, one exchange with the server, one rewrite of the file; an error of a step
replaces what is left (`RegisterFailed`, `WriteFailed`). When a drain window expires
(`Expire`) the session is closing: Close is called and blocks, and with it the operation
and its lock, until the calls have returned (`Drained`, `Reap`). `startedOff` is
history. Four actors have such a list: the operations, which exclude each other, and
three that do not take their lock: the health checker (`Probe` to `Healed`), the startup
retries (`BootTool`, `Pending`, `Retry`, `GiveUp`) and the OAuth reconnect. Calls
(`Call`, `Return`) come at any time.

**`EvalRunner`** is `runner.go`, `pairing.go` and the statements of `store.go`
they make: a run from the request that creates it (`Create`, `Refuse`, `Enter`,
`Launch`) over the walk of its grid (`Check`, `Dispatch`, `Wait`), each sample in
a goroutine with its two writes, to pairs and terminal row; Stop, the two steps of
StopAll, Shutdown and a crash. **`EvalJudge`** extends it with `judge.go` and
`judging.go`: a pass takes a queue from a run with a terminal row (`Look`),
registers (`EnterPass`), and asks its backends item by item within its own slots
and cap. Rows survive, memory does not.

**`PendingAuth`** is `pending.go` for one tool. A flow is one authorization: its entry
in `pending`, its state in `byState`, its channel (`done`: a code is in it, it is
closed), and where `fetchAuthorizationCode` is with it (`Create`, `SetAuthURL`, `Wait`,
then `Receive`, or `TimeOut` and `Forget`). The callback takes the flow under the lock
(`Find`) and sends without it (`Send`); `Cleanup` removes what is old. **`OAuth`**
extends it with `handler.go`, `store.go`, `oauth_handlers.go` and the parts of
`manager.go` and `lifecycle.go` that touch a token. A token is the flow that obtained it
and how often it was rotated; the provider (external) knows the newest of each grant and
revokes one of which an older token comes back. Connects, the revoke request, a tool
call answered with 401 and the lifecycle operations are lists of steps, as in `Tools`; a
source refreshes (`Refresh`) and then saves (`Save`) at any time; a restart keeps the
row and the file. `gone`, `late` and `stale` are history: the grants thrown away, the
actors who were at work before that was over, and the handlers they or earlier ones
left. What sessions and drains do besides is `Tools`.

**`ReplayStore`** is `wsreplay.go`: the ring with head and count, the map with its
eviction and cleanup. **`Socket`** extends it with `websocket.go`: hub, connections
with `reader`, `writer`, `net` and `done`, the send channel as a queue, the chats
of a connection with the frame each is about to send. `SendJSON` is the
code's: a done or error frame waits for room or for the connection to close, any
other is dropped when the channel is full. A reconnect names the last frame the
client has (`Reconnect`). Loops that keep some elements of a list are `Picked`, a
recursive function; connections are numbered from 1 in the order they are made, and 0
is none.

**`Skills`** is the skills of one agent. `flat` and `sub` are its files, `mem` the
list of the engine, `journal` the table of revisions, `lock` LockSkillCreate, `thr`
the calls. A call is a kind and a program counter: a create locks, checks (`Lock`,
`Refuse`), journals (`Journal`), checks again, writes (`Write`) and is appended to the list
(`AppendSkill`); an update and a rename read what they replace (`Prior`) and journal
it before they write and remove (`Unlink`, `Forget`, `Replace`); write_file goes past the
journal (`Convert`, `Register`); a revert takes a revision from the journal (`Claim`)
and becomes the inverse call (`Undoing`), which is journaled in turn. Statements and
system calls may fail, and `Restart` reads the files again. A text is a number; it stands
for a file's content up to the newline with which every writer ends a file. `by`,
`left`, `mixed`, `late` and the fields `goal`, `was` and `undone` are history.

`Tools`, `EvalRunner`, `OAuth` and `Socket` have a variable `setting`, chosen at the
start among the constant `Settings` and never changed: it says what this behaviour
explores (who takes part, what may happen, how often something fails), so that one
run covers several small instances.

## 3. The runs

| Run | Instance | States |
|---|---|---|
| `approval` | two requests for one tool, two deciders, two calls, session rules; one request also with permanent rules, a store failure, an expiry or a restart | 1.08 million |
| `approval_chain` | two attempts, engine and operator, one failure, one expiry | 566 thousand |
| `scheduler` | one name, two entry objects, three goroutines, two callers, four calls | 50 thousand |
| `turn` | one turn, two rounds of two calls, three tiers, two stoppers | 2.6 million |
| `dispatcher` | two messages of one chat, two agents, run loop and API caller, two calls | 1.9 million (agents symmetric) |
| `dispatcher_wait` | a message and a scheduled turn, or a WebSocket turn; the same callers and calls | 138 thousand |
| `tools` | one server beside a settled one, six settings | 53 thousand |
| `tools_withheld` | the same | violation |
| `oauth` | one tool, up to three flows, five handlers, two callbacks, eight settings | 358 thousand |
| `eval` | two runs or two passes, ten settings | 148 thousand |
| `socket` | two connections, two turns, two sessions, channel and ring of two, eight settings | 205 thousand |
| `skills` | two names, a file or a directory to begin with, two goroutines, four calls, one failing write, one crash | 4.1 million |

Two properties of one component that a single run checks are sometimes stated as
one conjunction; each conjunct then has a mutant of its own.

### Approval manager

`DecisionIsReported`: a submitter is told what
the row says, a failed action is not reported as a clean approval
(`WaiterToldTheRow`), and there is one audit event per decision, after the action,
and true (`AuditTrail`). `ContractKept`: refinement; the action of a request
runs at most once, and only under an approved row, whoever raced.
`NoLostWakeup`: while a decided row's waiter sleeps, some goroutine is on its
way to wake it, and one woken by an approve-and-remember button finds the rule
stored. `SweepLeavesNothingQueued`: a sweep goes on past rows that others decide.

Two deciders are enough for every race over one row, because a step of the
manager touches one row and the goroutines are alike; a third would only repeat
what the first two do. Two requests let a sweep meet a row that another
goroutine decides; permanent rules, failures, expiry and restart, which act on one
row, are explored while the other request is not submitted (the constraint `Focus`).
One failure, one expiry and one restart suffice because each
is a disjunct of its own and their counters only bound them. The proofs of
section 5 remove the bounds for the main properties.

When a store failure is part of the history some promises end, by what the code
does: after a button's UPDATE, a failing read of the row
(`ResolveByCallbackPrefix`, sqlite.go:222) leaves an approved row whose action
never runs and whose waiter sleeps to its deadline. The properties that speak
of waking, sweeping and auditing therefore say "unless the store failed"; those
that say an action must not run, or a decision not change, hold with failures.

### Approval chain

`RunsOnlyWhenGranted`: a call runs only on a rule, an enforcing decider, the
supervisor, or the approved row of its last attempt; a reviewer that failed
approves nothing. `OneOpenRow`: a retry withdraws the old row first, and a
stopped call leaves no row that could still be approved.
`AnswerStands`: a human's denial is never reported as a reviewer's failure.
`CallEnds` (liveness).

### Turn

`RequestsAnswered`: what is sent to the model has a result for every call, also
after a round cut short. `StopWithinOneCall`: after a stop reached a turn, one
call at most still starts. `StopIsSelfScoping`: a stop reaches the turns it was
raised for, one parked in an approval too, though that wait watches only the
handle, and no other turn. `SpendIsBounded`, `SavedAsApplied`,
`StoppedTurnAnswers`. Two rounds of two calls reach every path through the loop:
a stop in the first, between, and in the last call of a round, the budget, the
repeat detector (threshold three, reached over two rounds), and the wrap-up;
two stoppers give /panic after /stop and two overlapping panics.

### Scheduler

`OneGoroutineEach`: an entry is never run twice at once, and after Pause nothing
runs. `EnabledRuns`: no enabled entry is silently dead.
`CancelledEnds` (liveness): the goroutine of a removed entry ends (`RemovedStops`)
and Pause and Stop return (`PauseReturns`). Four calls are pause, resume, and an
update (two) or any other mix; three goroutines let an old one linger while a new
one of the same entry starts.

These hold when no Resume or registration overlaps a Pause (`raced`) and, of one
entry, when it was not registered while paused (`early`). Nothing in the code
excludes the overlap, and TLC finds what it does when the exception is removed:
a Resume between the two sections of Pause lets Pause cancel the contexts Resume
has just made, so that the scheduler is not paused and runs nothing; a
registration during Pause's wait keeps the wait from ending or, when it comes as
the wait wakes, panics in the WaitGroup; and an entry registered while paused
runs twice after Resume. REST and MCP callers update schedules concurrently with
/panic, so the overlap can happen; the runs keep the exception to show that
nothing else breaks the promises.

### Dispatcher

`KilledForAReason`: no timer and no panic cancels a turn that began after it, also when
that turn has taken over the chat's key, and a turn whose context a panic's sweep
cancels finds the stop requested, whichever of the generation and the handle reached it.
`StopReachesChat`: once /stop has asked the engines, no turn that ran for the chat goes
on unaware. `StopsTakeEffect` (liveness) is two: `StoppedTurnDies`, a stopped turn ends
or is cancelled although it never reaches a boundary. It speaks of API turns, and of a
message alone in its chat: with two messages of a chat the table loses one of them (see
the demonstrations). `PanicReturns`: the run loop is not blocked for ever by the pause.
Nobody cancels the scheduled turn the pause waits for; the panic returns because that
turn has heard of the stop, by its generation or by its handle, makes no further call,
and the call under way ends by the engine's time limit. Two cases are excepted: a
/resume that overlaps the panic (`raced`), as in the scheduler's runs, and a turn that
the schedule began so late that no stop reached it (`Belated`): the panic waits for it
as long as it takes, which `PanicRefusesSchedules`, among the demonstrations, shows.

The key of the in-flight table is the chat, so two messages of one chat are the
smallest instance in which an entry is overwritten, deleted by another turn, or
found by another turn's timer; with two agents /stop finds the chat's turns on
different engines. Two calls are the pairs that matter (stop and panic, panic and
resume, two stops, two panics), nested or in turn. The liveness run keeps the
WebSocket turn apart because no step relates it to a message but the engine's
stop, which the first run covers.

### Tool servers

`CallsDrainFirst`: whoever takes a server out, its session is not closed under a
running call, but by the forced close at the end of the drain window.
`NothingLeaks`: an open session belongs to a listed server or to a goroutine that
will close it, and whatever is draining has such a goroutine.
`RoutesAsAdvertised`: an advertised name leads to the tool it names, a bare name
two servers offer leads nowhere, and between operations the index is the one of
the servers that are listed. `SavedAsRunning`: while nothing failed, the
file describes the servers there are, and a server has its session, or waits for
authorization, exactly when its section says enabled (`Described`, `Runs`). One thing is
excepted, and kept in `startedOff`: AddTool and RestartTool start a tool whose section
says disabled, since neither looks (lifecycle.go:74, 236; the request handlers do not
either), and it runs until the next start of the process or the next operation that
looks. `ServersComeBack` (liveness): the
operations' lock is never held for good (`OperationsReturn`), and a server that
comes back is connected again however often its restarts failed (`ServerRecovers`).
`OperationsReturn` is about who releases whom: an operation holds the lock through the
drain and through a Close that waits for the calls left, and whoever leaves last has to
release it. That a call ends is the engine's doing (section 4); without it TLC
refutes the property with an operation stuck behind an expired window.

The settled server offers the tool `t`; the one operated on may offer `t` too,
and one named like the other's qualified `t`: collisions of both kinds appear and
disappear. It starts absent, as a plugin would, disabled, with a withheld tool, or
asking for OAuth. Two operations are every pair of them (add and disable, disable
and enable, update and remove, ...); a third begins in a state two can reach.
One failing write or connection takes each error path. A rival runs next to one
operation, and the rivals one at a time. Five conns are enough: no
step that needs one ever finds none (`Unused`), and six give the same states.

With a rival, less holds, and the properties say so (`Alone`): neither the health
checker nor the retries nor the reconnect take the operations' lock. A server
removed while a retry of its startup connects comes back, without a section in
the file; one disabled while the health checker is between UnregisterServer and
re-insertion is listed again; `setupOAuth` overwrites a live conn, whose session
stays open. What the rivals cannot break is `CallsDrainFirst`, `RoutesAsAdvertised`
but for its last part, the draining half of `NothingLeaks`, and the liveness.
After a failed write the file may lack what runs, and repeating the operation does
not always repair it: EnableTool returns early for a server that already runs.

### Eval

`PanicReachesAll`: when the emergency stop has been through, every run and pass
that could still spend is cancelled. `CapOvershoot`: one sample, or one item of a
pass, may begin after the cap was reached, because the cap is read before a slot
is waited for, and the spending passes the cap by no more than what was in flight
and that one. `TerminalIsLast`: nothing changes the row of a run that has ended.
`RunAddsUp`: an ended run, also a stopped or capped one, has exactly the pairs of
its completed samples, over the tasks that still exist (`PairsComplete`), and at
every moment, a crash included, the row's cost covers its samples (`HonestCost`). `EvalEnds`
(liveness): a started run ends with a terminal row, a pass ends.

Two runs or two passes compete for two slots; a grid of one task, two repetitions
and two variants has a second sample to start while the first is in flight, and
reaches the cap of two; two tasks let one be deleted. The settings combine each
event (stop, emergency stop, shutdown, crash, deletion, a failing write) with a
run or a pass it can meet. A run whose process dies keeps the status "running":
nothing at the next start looks for it, and no property claims otherwise.

### OAuth

`StoreKeepsUp`: the token in the row is the one the provider accepts next, or a
goroutine is about to store that one; otherwise a restart or the next registration would
present a used token and lose the grant. `ClearedStaysCleared`: a revoke, a removal, an
update that changes the tool's identity, and an addition under a name used before throw
away every token there is by then. When it is over the row has none of them, and none is
in a handler that was made since, or that was cleared, whatever is registered, added or
restarted later. What each of them clears, whether it has a handler or only a row, and
the second attempt after a failed one are what it rests on. `CallbackDelivers`: a
callback that has found its flow never finds a code in the channel, no state leads two
callbacks to one flow, and at most one flow is waited for. `AuthorizationEnds`
(liveness): although no user answers, every wait ends and every entry goes.

Three exceptions are what the code does. A rotation is not stored when the answer,
the write or the process is lost (`<<g, "fault">>` in `lossy`), or when the source
is the one an interactive authorization left in its handler, which is the SDK's own
and saves nothing (`<<g, "plain">>`; `PersistedOnEveryRefresh`, among the
demonstrations, does not make this exception). And a token thrown away does come
back through those who were using it, so `ClearedStaysCleared` excepts a grant that is
stored again (by an authorization under way, or by a refresh that was being saved, which
may be that of a replaced server's session), handlers made by an actor that was at work before the
clearing was over (`late`), handlers nobody cleared, of sessions that still drain
(`stale`), and the row when its deletion failed or a crash came before it.

Two operations or requests on one tool are every pair of them, three with a
challenged call let a tool be removed, added and authorized again. One authorization
on top of the one an earlier process left gives an old and a new grant; two for a
call next to a connect let one take the other's place. Two rotations make a used
token distinct from the first. Handlers that nothing refers to are reused, and five
are always enough (`Fresh` is defined in every state, or TLC would stop).
Not followed: the background retries of a startup whose first connection failed.

### WebSocket

`AnsweredOnce`: a chat request ends with exactly one done or error frame, the last
of its frames, however full the channel was, unless the turn was cancelled.
`ReplayCompletes` (an action property of `Reconnect`): what a reconnecting client is
sent, with what it had, is everything still in the ring and not expired, but for
frames that a full channel had lost; nothing comes twice, and in order.
`LostIsReleasedOrStuck` (liveness): a connection whose network is gone ends its
pumps and turns and leaves the hub.

The exceptions: replay is promised for a session used on one connection
(`OneSource`) by one turn at a time (`crossed`), because frames are numbered by the
connection, not the session, and two turns may record and send in different orders.
And one state is not released (`Stuck`): the read pump waits in an error reply on a
full channel when the write pump gives up, so nobody closes `done`.

A channel and a ring of two frames are full, overwrite and wrap with the three or
four frames of a turn. Two connections are a reconnect, two turns share a channel,
two sessions make one evict the other. The settings take each event (lost network,
kill, refused request, broadcast, shutdown, expiry, cleanup) to a connection with a
turn it can meet.

### Skills

`NothingLost`: whatever fails, a text that leaves a file is in the journal
(`TextsKept`), and when the calls on a skill are over the engine serves what a
restart would load (`ServedIsStored`). `RevertRestores`: an undo that runs to its end
brings back the files the change found, after any crashes and failed calls, up to the
newline the writer appends (configmcp/handlers.go:2006: a file made by hand that has none
comes back with one; the model takes the two for one text), and but for
files that a rename could not remove (`left`). Its proof found why: a rename whose
`Unlink` failed leaves a file behind, a second rename overwrites that one, and the undo of
the second restores the file; where the undo's own delete then fails, the restored file
is there and not served. It takes three names and three faults, which no run has.
`CreatesExclude`: a create's check that its name is free holds through its write
against every other create and against the undo of a delete.

Two names are a rename and what comes under either name meanwhile; four calls are a
change, its undo, the undo of that and one more, and the last of them begins only
when the others are over (the constraint `LastAlone`), since two goroutines of three
calls are already every pair of calls at every step.

The first two speak of skills on which no two calls worked at a time (`mixed`) and
whose changes were undone last first (`late`): concurrent updates journal a prior
text that another of them has replaced, and the undo of an older update writes a
file that the engine does not serve. A rename that cannot remove the old file only
logs it (`left`). A skill that is a directory is outside them: readPrior, update and
delete look for `n.md` only, and write_file converts a skill without the journal
and over a SKILL.md that is there. A rename that failed between journal and write may still
be reverted; undoing that revert then deletes the skill, whose prior state it
found empty.

### Disagreements between code and comments

One run expects a violation (PROJECT.json, "findings"). `tools_withheld`:
`disabledCount` drifts when the health checker takes an unreachable server out and
puts it back; the reconnection subtracts what the sum no longer holds, it becomes 0,
and withheld tools are offered.

Demonstrations that are not among the listed runs: TLC refutes each formula, in the
configuration named or, where a run's configuration is named, with the formula in
the place of the run's properties:

| Configuration | Module | Shows |
|---|---|---|
| `ApprovalScope.cfg` | `MCApproval` | the sweep of a session rule approves requests of other conversations (autoapprove.go, "scoped to a conversation"; the sweep lists by agent and tool) |
| `ApprovalTimeout.cfg` | `MCApprovalChain` | an approval that arrives as the deadline passes, or before the engine waits, is reported to the model as "no operator answered" (engine.go:3668, 3703) |
| `Scheduler.cfg`, `NothingStartsWhilePaused` | `MCScheduler` | an entry registered while the scheduler is paused starts at once (scheduler.go:266; the comment at 307 says it does not) |
| `Turn.cfg`, `EmergencyStopSpendsNothing` | `MCTurn` | a /panic raised while the last call of a round runs is followed by one more completion (engine.go:2639; the comment at 133 says it must not spend) |
| `Dispatcher.cfg`, `PanicCancelsInFlight` | `MCDispatcher` | with two messages of a chat in their engine a panic cancels one of them, the in-flight table having one entry for a chat (dispatcher.go:798) |
| `DispatcherWait.cfg`, `PanicRefusesSchedules` as an invariant | `MCDispatcher` | a schedule that is due while a panic is raised begins a turn that no stop reaches, and the panic waits for it (scheduler.go:499; engine.go:567 says that the dispatcher's panic state is what refuses new work) |
| `EvalDemo.cfg` | `MCEval` | a pass cancelled while a slot is free may take the slot and leave without giving it back (judge.go:482); two items that read the session's total before they lock bill the difference twice (judge.go:675, whose comment says they cannot) |
| `Socket.cfg`, `TurnsEndWithClient` | `MCSocket` | the connection that is never released, and its turn that never ends (websocket.go:286; the comment at 182 says the turns stop when the client disconnects) |
| `Socket.cfg`, `NumbersGrow` and `LiveTurnIsKept` | `MCSocket` | numbers that start anew on the next connection (wsframes.go:55 says "monotonically increasing per session"); the buffer of a silent turn dropped by cleanup or eviction (wsreplay.go:192) |
| `OAuth.cfg`, `PersistedOnEveryRefresh` | `MCOAuth` | a rotation that is not stored, after an interactive authorization (handler.go:20 says a rotating token "must be persisted on every refresh") |
| `OAuth.cfg`, `ListedIsActive` | `MCOAuth` | the entry of a completed flow, listed as active and given as the answer to connect requests until the cleanup (oauth_handlers.go:306) |
| `Skills.cfg`, one at a time | `MCSkills` | the undo of a rename writes over a skill created meanwhile under the old name (`UndoLosesNothing`; website/content/docs/concepts/skills.md:82 says that every entry holds the prior bytes); a create writes over the file of a rename that came after its check (`CreateFindsNone`, configmcp/handlers.go:2014); an updated or deleted skill that is a directory has its old text back after a restart (`DirectoriesToo`) |

## 4. Fairness

In the chain (`ChainFairness`), weak fairness on the submitter, the engine and each
deciding goroutine that is inside a call: Go runs every runnable goroutine, and a step
of a call is either enabled until taken or blocked on a send that never blocks. Nobody
has to begin a call; the wait's deadline passes, because a timer fires it. In the
scheduler, tickers tick, jobs return, and a `select` whose context stays cancelled takes
that case sooner or later although the ticker may be ready too: Go picks among ready
cases at random, which is strong fairness of `Exit`. In the dispatcher, goroutines go on
and timers expire, the entry's goroutine leaves its `select` (strong fairness of
`TickerEnds`, for the same reason), and a turn whose context is cancelled ends; a turn
that was only asked to stop need not, but for the scheduled one: at its next boundary it
stops (engine.go:555), and what lies before that boundary is bounded by the time limit
of a call (`toolExecTimeout`, 30 seconds, engine.go:3263) and of a completion. Tool
servers: the actors go on with what they have begun, a drain window expires, a replaced
conn is reaped, a call in flight returns, since the engine, the only caller of Execute,
gives each the same time limit, startup goes through its list, a rest after a failed
restart passes, and the health checker, which ticks for every server, comes to each that
is a candidate again and again (strong fairness of `Probe`, because an operation may
keep making it none). Nobody has to begin an operation and no server to come back. Eval:
goroutines of runs, samples, passes and items go on, since a sample and a question end
by their providers' timeouts; nothing has to stop, crash or be resumed. OAuth:
goroutines go on with what they have begun, a wait ends at the latest by its timeout,
the cleanup, which ticks every minute, finds every entry old in the end, and a save is
finished; no user has to answer and no call to return. WebSocket: pumps and turns go on,
an engine's turn ends, a read fails at the latest when its deadline passes without a
pong, and a write by its own; nobody has to send a request, and no network to last.

## 5. The proofs

`ApprovalProofs` proves for `Approval`, for any sets of requests, goroutines,
conversations and tools and any bounds, under the assumptions of that module
only:

- `TypeCorrect`: `Spec => []TypeOK`;
- `ActionSafe`: `Spec => []ActionOnceApproved`;
- `DecisionsFinal`: `Spec => DecisionIsFinal`;
- `ManagerKeepsContract`: `Spec => ContractKept`;
- `SweepsFinish`: `Spec => []SweepLeavesNothingQueued`;
- `DecisionsReported`: `Spec => []DecisionIsReported`;
- `WaitersWoken`: `Spec => []NoLostWakeup`.

`TInv` is the type invariant, `TypeOK` with the facts about program counters
that the types of a thread's fields need. `ActionOnceApproved` is not inductive:
a goroutine that already holds a closure could run it again. `ActionInv` adds
why it cannot: a closure is in one place (`ClosureInOnePlace`: not yet
registered, in the registry, held by one goroutine, or used), a row exists
before any of this (`RowsFollowSubmit`), and whoever is about to run a closure
runs it for an approved row on which nothing ran (`RunnersHoldApproved`).
The refinement needs that an answer agrees with the row. `AnswerInv` adds that
a decided verdict in a goroutine's hands is the one in its row
(`VerdictsApplied`); the difficult case is the chat button, which comes back to
its own row after the sweep of its rule, and must not find that the sweep has
touched it. Each invariant is also checked by TLC before it is proved. The
steps are one lemma per action; `ManagerKeepsContract` maps every action to a
step of the contract or to a stutter. The sweeps need `CallsOK`: what each kind of
call may do (`KindOK`), and that a listed row is decided, queued, or the one about to
be decided (`SweepOK`). The reports need `ReportInv`, which says of each row whose
hands it is in. A decided row is in one goroutine's hands at most (`HeldOnce`): it
acts on the row, is about to tell the waiter, or is a callback that still stores its
rule and sweeps. Until it lets go nobody has been told, no event is recorded before
the action is done, and the rule is stored before the waiter is told (`HandOK`);
what was told is then true (`Answered`), and as long as the event or the waking is
missing the row is still held (`Audited`, `Woken`). `GoesOn` and `SameRow` say of a
step that it keeps a row in the hand it was in, so that only the six steps that
take a row, act on it or let it go need an argument of their own.

Its last part proves of `ApprovalChain`, for any number of attempts, operators, faults and rules,
`GrantedToRun` (`ChainSpec => []RunsOnlyWhenGranted`), `RowsClosed`
(`ChainSpec => []OneOpenRow`), `DenialReported` (`ChainSpec => []AnswerStands`) and
`ChainKeepsContract` (`ChainSpec => ContractKept`). It rests on the rest of the module: all
but three of the chain's steps are steps the manager knows (`ChainActions`), so
`BaseInv`, what was proved of the manager, has to be shown again for those three only
(the rules read for all attempts at once, a wait that ends without the bound on such
ends, the engine's own Resolve or Abort). `ChainInv` adds what the call knows: attempts
to come have neither row nor answer, past ones no open row unless the store failed
(`RowsOK`); the turn's goroutine is in the manager only to close the row of the
attempt, and that row is decided once it is past the store (`EngineOK`); who can have
approved a row (`ByOK`); and how the call may end (`EndingOK`). The two properties about
rows are not inductive: nothing in them says that the next attempt waits for the
goroutine that closes the last one.

`EvalProofs` proves, for any runs, passes, grids, slots, caps and faults,
`StopReachesAll` (`Spec => []PanicReachesAll`) and `TerminalRowsAreFinal`
(`Spec => TerminalIsLast`). `EvalInv` is `Shapes` (the fields of the records and
whose samples and items there are), `Reached` (what the two steps of StopAll have
caught or cancelled by each point of the stop; nothing enters behind it, because
entering reads the flag under the lock StopAll takes) and `RowFollows` (a run with
a terminal row has no goroutine that writes, and no sample in flight).

`CapsAreSoftByOne` (`Spec => []CapOvershoot`) and `RowsAddUp` (`Spec => []RunAddsUp`)
are about sums. `RunSpend` and `PassSpend` keep a budget: what was spent, and the most
that what is in flight may still cost, is within the cap and the slots, and within one
dispatch more once a dispatch has passed its check of the cap before another's bill came
in (`late`). `Ledger` follows a cell of the grid: it is left to dispatch, in flight or
recorded (`CellsOnce`), and the row's cost is the sum over what is recorded and what is
billed and about to be (`Books`), for between its bill and its row a sample is in the
cost and in no sample of the row; a crash between the two leaves the cost of that run
above the sum. Neither property says anything of samples in flight, so neither is
inductive. What a sum over a finite set does when one term comes or goes is shown by a
least counterexample on the cardinality of the set, since the library's induction takes
an operator.

`TurnProofs` proves, for any turns, chats, calls, stoppers and every budget of
rounds, that `TurnInv` is an invariant, and from it the six properties of the run
`turn`: `RequestsAreValid`, `OneCallAfterAStop`, `StopsAreScoped`,
`SpendingIsBounded`, `RecordsAreComplete`, `StoppedTurnsAnswer`. `TurnInv` says of
each turn's record that its fields fit (`Shape`), that the calls still owed a result
are those of the round not yet taken (`Answered`), how many completions were spent
at each program point (`Counted`), that there is a record for each call that ran
(`Booked`), that the reason of a stop is known where its end is decided
(`Reasoned`); and of its stops that it has heard of those raised for it and no other
(`Hears`) and what it has done since (`Obeys`). One lemma says what each step does to
the turn's own record; a second layer, that a step of a turn or a stopper keeps the
relation to the stops. `StoppedTurnsAnswer` needs a budget that is not 0: with 0 the
budget ends a turn that has no call to show.

`SkillsProofs` proves, for any names, goroutines, directories, faults and crashes,
`CreatesAreExclusive` (`Spec => []CreatesExclude`) and `NoChangeUndoneTwice`
(`Spec => []UndoneOnce`: no revision is undone twice, since claiming it disarms it).
`SkillInv` is the types (`SkillTypeOK`, with the steps each kind of call has),
`CreatesHoldLock` (a create behind its lock step holds the lock, so there is one) and
the property itself.

`SkillTextsKept` (`Spec => NothingLost`) and `RevertsRestore` (`Spec => RevertRestores`) need
one invariant, `KeepInv`, for an undo restores what the journal kept and the journal keeps
what calls that may be undos found. `RestOK`: a skill no call is changing is served as
it is stored, and its text is in the journal or safe in the file it came from (`Kept`, `Safe`).
`CallOK` says of a call under way what it has done of its list of steps (`ShapeOK`), that
past its journal step it owns the last revision of its skills (`OwnOK`), which names it may
touch (`NameOK`), where the text it takes away still is (`SourceOK`) and what its files
will be (`GoalOK`). `RevOK` says what a revision can hold, and that the last one of
a skill tells its files (`LastOK`). `Alone` says that calls which overlap on a skill make it
`mixed`, `Short` that a skill without a directory is served once at most. Neither property
alone is inductive: nothing in them says that the revision an undo claims is the last word on
its skill.

`SchedulerProofs` proves, for any names, entries, callers and calls,
`SchedulesRunOnce` (`Spec => []OneGoroutineEach`) and `EnabledSchedulesRun`
(`Spec => []EnabledRuns`). `SchedInv` says what every run keeps (`ObjectsOK`: an object
is made before a goroutine or a call refers to it, a name holds its own, a cancelled
context is the entry's or an older one) and what a run without a race keeps
(`CallsOK`: a pause, a resume and the rest of a registration exclude each other, the
rest of a registration finds its object without a goroutine, a resume finds none at
all; `AtMostOne`; `LiveOK`: what is listed holds a live context, and a goroutine waits
on that one or is about to be launched). `OneGoroutineEach` alone is not inductive: a
resume that found a goroutine left would launch a second. `RunnersAssumption`
bounds the names by the goroutines, which Go has without bound, so that a launch finds
one for each; that it does is proved from the library's facts about injections.

`ChatProofs` proves, of the dispatcher, for any messages, chats, agents, callers and calls,
`NoStrayKill` (`Spec => []KilledForAReason`) and `StopHeardByAll`
(`Spec => []StopReachesChat`). `DispInv` needs, beside types: whatever a table, a
timer or a history names is under way, and a table's entry is of its chat
(`TurnsOK`, `TablesOK`); no untouched turn is cancelled or has a timer, and none exists
of a chat under a stop, or at all under a panic (`FreshOK`); a turn that was in its
engine when a panic began never captures a generation again, so that once the panic
has raised its engine's it stays outdated (`PanicOK`); what ran for a chat is of an
agent not yet asked, or was fired and observed (`StopOK`). The hazard is that timers
and sweeps work by key while turns replace each other under it: `FreshOK` is where
a lookup at the wrong time would show.

Of the WebSocket it proves, for any connections, requests, sessions, capacities and settings,
`ChatsAnsweredOnce` (`SocketSpec => []AnsweredOnce`). `SocketInv` is the shapes of the
records and lists (`SocketShape`) and `SaidOK`: a turn that is leaving has said its last frame,
or is cancelled, and any other has said none that is final. `AnsweredOnce` speaks of turns that
are gone only, so a turn that had answered and was still to send is what it does not exclude.

And `ReplaysComplete` (`SocketSpec => ReplayCompletes`). The property speaks of one step,
the reconnect, and compares there what a ring has, what the client has and what is sent; that
these fit is the work of every step before, and `ReplayInv` says so: `SocketInv` and, up to
the one reconnect a behaviour has, `Flow`. Its parts follow a frame. It gets its
number and its place in the ring in one step and is sent in another, so `SendingOK` says
that what a turn is about to send comes after everything its session has in the channel or at
the client, `LineOK` that channel and client are in order, and `TurnOK` that only a
`crossed` session has two turns that could break this. `Delivered` is the reason why nothing
is missing: a frame that a ring took reached the client, or was dropped, or comes
after everything the client has, in which case the client's last number is below its own
and the replay includes it. `Recorded` keeps each ring's numbers growing for each connection and
its frames of one session, `StoreOK` and `HasBuffer` that two sessions never share a buffer, even
after an eviction under a running turn. `Holds` says what a ring of any capacity has: the
last entries of all it took (`HoldsMore` appends one, wrapped around or not; `EntriesAre`
reads them, oldest first). What `Picked` keeps, from a list of any length, is `PickedTraces`:
a strictly growing map of places onto those wanted. This is an induction over data, which
the provers cannot do by a theorem with an operator; the least bad prefix exists by
well-foundedness of the numbers (`Least`), and a prefix one shorter contradicts it.
Replayed frames carry numbers of an older connection than the one they are sent on, which
`FrameOK` excludes, so `Flow` ends with the reconnect; a behaviour has one.

`OAuthProofs` proves, for any handlers, flows, callbacks, requests, operations, faults
and restarts, `StoreIsCurrent` (`Spec => []StoreKeepsUp`), `ClearedIsGone`
(`Spec => []ClearedStaysCleared`) and `CallbacksDeliver`
(`Spec => []CallbackDelivers`). `IInv` is the types and four parts. `RegistryOK`: a
flow is answered once, since its state leads to it, or a callback holds it, or its
code is on its way. `JobsOK`: what an actor has still to do is well ordered
(`Planned`: which step precedes and follows which, so that only the next two need be
known), and a flow under authorization is its actor's own, has no grant before the
exchange and no token anywhere before it is stored (`FlowOK`). `KeepOK`: no token is
ahead of the provider, and one being saved is the last of its grant and nowhere but in
the handler it came from (`LastOfGrant`), for two handlers that saved tokens of one grant
could overwrite the newer with the older. `ClearedInv` is inductive given `IInv`: it is
`ClearedStaysCleared` and, what the property does not say, that while somebody clears
whoever else is at work is `late`. `Onward` says what a step may do to a row and a handler that
are clean: nothing gone enters the row but by who stores it anew, and a handler made of a
row with something gone in it is made by a late actor, for otherwise the row is being
cleared. `Operated` and `UncacheClears` are where the proof meets the code: an operation that
throws a token away begins with the clearing, and the clearing goes on to the row
with a handler or without.
The assumption that there is a handler and a flow is what startup needs to load the row.

`ToolsProofs` proves, for any names, conns, configurations, callers and settings,
`NothingIsForgotten` (`Spec => []NothingLeaks`), `FileFollowsServers` (`Spec =>
[]SavedAsRunning`), `NamesLeadToTheirTools` (`Spec => []RoutesAsAdvertised`) and
`SessionsDrainFirst` (`Spec => CallsDrainFirst`). An operation is a list of steps, and
the number of lists is unbounded, so the invariant describes them by what may follow
what: `Linked` says that each step of a list is one of the `Follower`s of the one before
it, and `Planned` that the last one ends the operation. `TailPlanned` and `Joined` carry
this over to the rest of a list and to two lists joined; `Programs` shows it of every
list the model begins with, and `Jobs` of what every actor has still to do. `LeakInv`
adds who finishes each teardown (`Teardown`), that without rivals one goroutine at a
time has work, on a name of its own (`OneAtATime`), and that what it is about to enter
under its name replaces no open session (`Replacing`): `NothingLeaks` alone is not
inductive, since a `publish` step may put a conn over any other. `SaveInv` adds what an
operation has done by each of its steps, while nothing has failed: to the file
(`Written`), to the server (`Placed`) and to the table of plugins (`Listing`); names
without an operation are `Saved`. That a server runs exactly when its section says so is
a layer of its own, `RunInv`: what an operation has left to do is meant either for a
server that shall run or for one that shall not (`Fits`), and once the server is entered
it runs accordingly (`Reached`); whatever no operation works on is `Right`. A list of
steps that starts a disabled server would otherwise show at its end only.
`ConfigsAssumption` says that every configuration the constants offer has the fields of
one. The step that writes the file is then the one that makes both agree, and an
operation that fails says so in `failed` before it ends. `SettledAssumption` says that
startup connects distinct names to distinct conns and leaves the names it operates on to
later, which is how the model begins.

`RouteInv` is the invariant behind the last two. It says where names lead between the
step that changes a server and the one that rebuilds the index: a conn has the name of
whoever refers to it (`Titled`); one whose tools are still being listed has none, takes no
calls, is reached by no name and is filled by one goroutine only (`Unfilled`), so that the
entry of its tools cannot leave an older name leading astray; every name in the index leads
to a conn that offers the tool it stands for, unless that conn is being torn down
(`Routed`). Without rivals the index is at every step the one of the servers that are
listed (`Settles`): an operation puts a conn under its name only after it has taken out
whatever offered tools there. What `Rebuild` computes is stated by lemmas on its set
of offers: `RebuildRoutes` says that a name of a new index comes from a server in discovery
order and that a bare name has one owner there, `RebuildSame` that the index depends on
the lists of tools alone; `Left` and `Entered` say what leaving and entering does to the
order of discovery, which names a server once at most (`Once`). `NamesAssumption` says
that a server's name has a part at least and that tools are named by sequences of parts:
a qualified name is then never the bare name it qualifies. `SessionsDrainFirst` goes
through the steps that change a session: `ListTools` closes one without waiting, and
`Unfilled` says that no call can be running there.

Only model-checked: all liveness (`CallEnds`, `CancelledEnds`,
`StopsTakeEffect`, `ServersComeBack`, `EvalEnds`,
`AuthorizationEnds`, `LostIsReleasedOrStuck`), which is out of the prover's reach.
Every safety invariant and every action property of a passing run is a theorem.

## 6. Not modelled

- Formatting of messages, buttons, prompts; parsing of callback data and
  schedule expressions; costs: data the properties do not tell apart.
- `SubmitAndWait`'s callers: the manager offers it and its tests use it; the
  engine itself submits and waits in two calls. Both are modelled.
- SQLite: a statement is atomic and may fail. Durability is SQLite's.
- In the dispatcher: which agent a channel or binding selects (any agent is
  chosen), /session, /clear and /compact, agents added and removed at runtime,
  shutdown of the loop, and turns from the MCP server, which register no cancel.
- In the tool manager: `Close` at shutdown, the parent manager of in-process
  sessions, changes to a plugin made through the tool operations, classification
  and guidance texts; the transport a remote server fell back to, which RestartServer
  keeps in the server's configuration in memory and nobody writes to the file
  (manager.go:1401). `ToolIndex` models names, not schemas.
- In eval: task sets and their editing, statistics, summaries and blinding, the
  tools through which an MCP client judges.
- In OAuth: encryption of the row, client registration and the round tripper that
  captures it, providers whose tokens do not rotate (their source never changes),
  `Cancel`, which only tests call.
- In the WebSocket: authentication, scopes and the parsing of frames; what an
  approval, cancel or panic frame does beyond its reply is in `Approval` and
  `Dispatcher`.
- In skills: which skill a message or a trigger selects, the global directory,
  files that declare another name than theirs, linting, the approval asked before a
  writer is called (`ApprovalChain`), failing reads, usage counters, personas.
- Everything PROJECT.json lists as not modelled, with its reason: pure functions
  (schedule expressions, policies, guards), wrappers of external programs and
  services (adapters, plugins, browser, voice, web), CRUD whose atomicity is one SQL
  statement (kv, tasks), parsing and rewriting of configuration, REST handlers that
  only call the modelled operations.

## 7. Plan

1. **Conversation memory** against a running turn: compaction, clearing and
   deletion in several statements; **audit emitter** (Emit, Flush and Close).
2. **Dispatcher**, the rest: agents removed while their turns run (a panic
   iterates over the agents that are left), shutdown of the loop.
3. **LLM router**: the fallback chain and the cost tracker.
4. **Proofs**: replay after more than one reconnect, with an order of the frames
   that counts connections before numbers.
