----------------------------- MODULE Scheduler -----------------------------
(***************************************************************************)
(* The scheduler (internal/scheduler): named entries, one goroutine per    *)
(* enabled entry that waits for its ticker or its context, and the calls   *)
(* that pause, resume, register, update and remove entries while those     *)
(* goroutines run.  REST, MCP and configuration tools call it from any     *)
(* goroutine; /panic and /resume reach it through the dispatcher.          *)
(*                                                                         *)
(* A step is what a goroutine does between two points where another may    *)
(* run: a critical section of mu or pausedMu, one select, one job.         *)
(***************************************************************************)
EXTENDS Naturals, FiniteSets

CONSTANTS
    Names,      \* schedule names
    Entries,    \* internalEntry objects; every registration makes a new one
    NoEntry,    \* "no object under that name"
    Boot,       \* the entry of each name when Start has run, or NoEntry
    Runners,    \* goroutines that run an entry
    Callers,    \* goroutines that call the scheduler
    MaxCalls    \* bound: calls made

ASSUME EntriesAssumption == NoEntry \notin Entries
ASSUME BootAssumption ==
    /\ Boot \in [Names -> Entries \union {NoEntry}]
    /\ \A n, m \in Names : Boot[n] = Boot[m] /\ Boot[n] # NoEntry => n = m
ASSUME CallsAssumption == MaxCalls \in Nat
(* Start launches a goroutine for every name.                              *)
ASSUME RunnersAssumption ==
    IsFiniteSet(Names) /\ IsFiniteSet(Runners) /\ Cardinality(Names) <= Cardinality(Runners)

VARIABLES
    entries,    \* the entries map
    enabled,    \* objects registered with Enabled
    made,       \* objects made so far
    ctx,        \* number of the context an object holds; Resume gives it a new one
    cancelled,  \* contexts cancelled: <<object, number>>
    stopped,    \* the root context is cancelled
    paused,
    run,        \* goroutines: where they are, their object, the context they wait on
    call,       \* callers: where they are, and the name and object they work on
    calls,
    early,      \* history: objects registered while the scheduler was paused
    raced       \* history: a Resume, or a registration, overlapped a Pause, a Stop or a Resume

vars == <<entries, enabled, made, ctx, cancelled, stopped, paused, run, call, calls, early, raced>>

-----------------------------------------------------------------------------

RunPcs  == {"off", "go", "select", "job"}
CallPcs == {"idle", "cancel", "join", "wait", "woken", "relaunch", "register", "spawn", "crashed"}

OffRunner == [pc |-> "off", obj |-> NoEntry, ctx |-> 0]
IdleCall  == [pc |-> "idle", name |-> "none", obj |-> NoEntry]

Listed    == {entries[n] : n \in Names} \ {NoEntry}
On        == {r \in Runners : run[r].pc # "off"}          \* what wg counts
Off       == Runners \ On
Cancelled(e, n) == stopped \/ <<e, n>> \in cancelled
Crashed   == \E c \in Callers : call[c].pc = "crashed"
PausePcs  == {"cancel", "join", "wait", "woken"}           \* Pause and Stop in progress
Under(pcs) == \E c \in Callers : call[c].pc \in pcs

(* After registerSchedules and Start.                                      *)
Started == {Boot[n] : n \in Names} \ {NoEntry}
Launch(objs, free) ==
    CHOOSE f \in [objs -> free] : \A a, b \in objs : f[a] = f[b] => a = b

Init ==
    /\ entries = Boot
    /\ enabled = Started
    /\ made = Started
    /\ ctx = [e \in Entries |-> 0]
    /\ cancelled = {}
    /\ stopped = FALSE
    /\ paused = FALSE
    /\ LET f == Launch(Started, Runners)
       IN  run = [r \in Runners |->
                    IF \E e \in Started : f[e] = r
                    THEN [pc |-> "go", obj |-> CHOOSE e \in Started : f[e] = r, ctx |-> 0]
                    ELSE OffRunner]
    /\ call = [c \in Callers |-> IdleCall]
    /\ calls = 0
    /\ early = {}
    /\ raced = FALSE

-----------------------------------------------------------------------------
(* The goroutine of an entry: runInterval and runCron.                     *)

(* Mutant: the context is read once, not in every round.                   *)
WaitOnOnce(r) == [run[r] EXCEPT !.pc = "select"]

(* The top of the loop: select waits on the context the object holds now.  *)
WaitOn(r) == [run[r] EXCEPT !.pc = "select", !.ctx = ctx[run[r].obj]]

(* wg.Done: the last goroutine to end wakes whoever is blocked in Wait.    *)
Done(r) ==
    /\ run' = [run EXCEPT ![r] = OffRunner]
    /\ call' = [c \in Callers |->
                  IF On = {r} /\ call[c].pc = "wait"
                  THEN [call[c] EXCEPT !.pc = "woken"] ELSE call[c]]

(* A goroutine begins.  Its ticker has not ticked yet, so a context that   *)
(* is already cancelled ends it without a job.                             *)
Enter(r) ==
    /\ run[r].pc = "go"
    /\ IF Cancelled(run[r].obj, ctx[run[r].obj])
       THEN Done(r)
       ELSE run' = [run EXCEPT ![r] = WaitOn(r)] /\ UNCHANGED call
    /\ UNCHANGED <<entries, enabled, made, ctx, cancelled, stopped, paused, calls, early, raced>>

(* <-e.ctx.Done().  When the ticker is ready too, either case may win.     *)
Exit(r) ==
    /\ run[r].pc = "select"
    /\ Cancelled(run[r].obj, run[r].ctx)
    /\ Done(r)
    /\ UNCHANGED <<entries, enabled, made, ctx, cancelled, stopped, paused, calls, early, raced>>

(* <-ticker.C, and the entry is due: LastRun and NextRun move, the job     *)
(* starts on a snapshot of the entry.                                      *)
Fire(r) ==
    /\ run[r].pc = "select"
    /\ run' = [run EXCEPT ![r] = [run[r] EXCEPT !.pc = "job"]]
    /\ UNCHANGED <<entries, enabled, made, ctx, cancelled, stopped, paused, call, calls,
                   early, raced>>

(* The job returns; or a cron tick found nothing due: back to the top.     *)
NextRound(r) ==
    /\ run[r].pc \in {"job", "select"}
    /\ run' = [run EXCEPT ![r] = WaitOn(r)]
    /\ UNCHANGED <<entries, enabled, made, ctx, cancelled, stopped, paused, call, calls,
                   early, raced>>

-----------------------------------------------------------------------------
(* Calls.                                                                  *)

Begin(c, record) ==
    /\ call[c].pc = "idle"
    /\ calls < MaxCalls /\ calls' = calls + 1
    /\ call' = [call EXCEPT ![c] = record]

(* Pause, first section: a scheduler that is paused already returns.       *)
Pause(c) ==
    /\ ~paused
    /\ paused' = TRUE
    /\ Begin(c, [IdleCall EXCEPT !.pc = "cancel"])
    /\ raced' = (raced \/ Under({"relaunch", "spawn"}))
    /\ UNCHANGED <<entries, enabled, made, ctx, cancelled, stopped, run, early>>

(* Mutant: only the entries that are enabled now and have a goroutine that *)
(* is waiting are cancelled.                                               *)
CancelsIdle ==
    {<<e, ctx[e]>> : e \in {x \in Listed : \E r \in Runners : run[r].obj = x /\ run[r].pc = "select"}}

(* The contexts Pause cancels: that of every entry in the map.             *)
Cancels == {<<e, ctx[e]>> : e \in Listed}

(* Pause, second section.                                                  *)
CancelAll(c) ==
    /\ call[c].pc = "cancel"
    /\ cancelled' = cancelled \union Cancels
    /\ call' = [call EXCEPT ![c].pc = "join"]
    /\ UNCHANGED <<entries, enabled, made, ctx, stopped, paused, run, calls, early, raced>>

(* Mutant: the call returns without waiting.                               *)
WaitsNever == FALSE

(* wg.Wait has something to wait for.                                      *)
Waits == On # {}

(* wg.Wait: returns at once when nothing runs, else sleeps.                *)
Join(c) ==
    /\ call[c].pc = "join"
    /\ call' = [call EXCEPT ![c] = IF Waits THEN [@ EXCEPT !.pc = "wait"] ELSE IdleCall]
    /\ UNCHANGED <<entries, enabled, made, ctx, cancelled, stopped, paused, run, calls,
                   early, raced>>

(* Wait wakes, and panics when the group was added to in the meantime.     *)
Joined(c) ==
    /\ call[c].pc = "woken"
    /\ call' = [call EXCEPT ![c] = IF On = {} THEN IdleCall ELSE [@ EXCEPT !.pc = "crashed"]]
    /\ UNCHANGED <<entries, enabled, made, ctx, cancelled, stopped, paused, run, calls,
                   early, raced>>

(* Resume, first section.                                                  *)
Resume(c) ==
    /\ paused
    /\ paused' = FALSE
    /\ Begin(c, [IdleCall EXCEPT !.pc = "relaunch"])
    /\ raced' = (raced \/ Under(PausePcs \union {"relaunch", "spawn"}))
    /\ UNCHANGED <<entries, enabled, made, ctx, cancelled, stopped, run, early>>

(* Mutant: disabled entries are launched too.                              *)
RelaunchedAll == Listed

(* The entries Resume launches.                                            *)
Relaunched == Listed \intersect enabled

(* Mutant: the entries keep the contexts that Pause cancelled.             *)
RenewedNot == ctx

(* The contexts the entries hold after Resume.                             *)
Renewed == [e \in Entries |-> IF e \in Listed THEN ctx[e] + 1 ELSE ctx[e]]

(* Resume, second section: a new context for every entry, a goroutine for  *)
(* every enabled one.                                                      *)
Relaunch(c) ==
    /\ call[c].pc = "relaunch"
    /\ Cardinality(Relaunched) <= Cardinality(Off)
    /\ ctx' = Renewed
    /\ LET f == Launch(Relaunched, Off)
       IN  run' = [r \in Runners |->
                     IF \E e \in Relaunched : f[e] = r
                     THEN [pc |-> "go", obj |-> CHOOSE e \in Relaunched : f[e] = r, ctx |-> 0]
                     ELSE run[r]]
    /\ call' = [call EXCEPT ![c] = IdleCall]
    /\ UNCHANGED <<entries, enabled, made, cancelled, stopped, paused, calls, early, raced>>

(* RegisterAndStart, the section under mu: a name that is taken is refused. *)
Enlist(c, n) ==
    \E e \in Entries \ made, on \in BOOLEAN :
        /\ entries' = [entries EXCEPT ![n] = e]
        /\ made' = made \union {e}
        /\ enabled' = IF on THEN enabled \union {e} ELSE enabled
        /\ early' = IF paused THEN early \union {e} ELSE early
        /\ raced' = (raced \/ Under(PausePcs \union {"relaunch"}))
        /\ call' = [call EXCEPT ![c] = IF on THEN [pc |-> "spawn", name |-> n, obj |-> e]
                                       ELSE IdleCall]

RegisterAndStart(c) ==
    /\ call[c].pc = "idle"
    /\ calls < MaxCalls /\ calls' = calls + 1
    /\ \E n \in Names : entries[n] = NoEntry /\ Enlist(c, n)
    /\ UNCHANGED <<ctx, cancelled, stopped, paused, run>>

(* RegisterAndStart, after mu: wg.Add and go runEntry.                     *)
Spawn(c) ==
    /\ call[c].pc = "spawn"
    /\ Off # {}
    /\ LET r == CHOOSE x \in Off : TRUE
       IN  run' = [run EXCEPT ![r] = [pc |-> "go", obj |-> call[c].obj, ctx |-> 0]]
    /\ call' = [call EXCEPT ![c] = IdleCall]
    /\ UNCHANGED <<entries, enabled, made, ctx, cancelled, stopped, paused, calls, early, raced>>

(* Mutant: the entry is dropped from the map, its context is not.          *)
DropOnly(n) == entries' = [entries EXCEPT ![n] = NoEntry] /\ UNCHANGED cancelled

(* Unregister's section under mu.                                          *)
Drop(n) ==
    /\ entries' = [entries EXCEPT ![n] = NoEntry]
    /\ cancelled' = cancelled \union {<<entries[n], ctx[entries[n]]>>}

(* Unregister on its own, or as the first half of an update, which then    *)
(* registers the name again.                                               *)
Unregister(c) ==
    \E n \in Names, next \in {"idle", "register"} :
        /\ entries[n] # NoEntry
        /\ Drop(n)
        /\ Begin(c, [IdleCall EXCEPT !.pc = next, !.name = IF next = "idle" THEN "none" ELSE n])
        /\ UNCHANGED <<enabled, made, ctx, stopped, paused, run, early, raced>>

(* The second half of an update: someone else may have taken the name.     *)
Reregister(c) ==
    /\ call[c].pc = "register"
    /\ \/ /\ entries[call[c].name] = NoEntry
          /\ Enlist(c, call[c].name)
       \/ /\ entries[call[c].name] # NoEntry
          /\ call' = [call EXCEPT ![c] = IdleCall]
          /\ UNCHANGED <<entries, enabled, made, early, raced>>
    /\ UNCHANGED <<ctx, cancelled, stopped, paused, run, calls>>

(* Stop, at the end of the process: the root context, then wg.Wait.        *)
Stop(c) ==
    /\ ~stopped
    /\ stopped' = TRUE
    /\ Begin(c, [IdleCall EXCEPT !.pc = "join"])
    /\ raced' = (raced \/ Under({"relaunch", "spawn"}))
    /\ UNCHANGED <<entries, enabled, made, ctx, cancelled, paused, run, early>>

-----------------------------------------------------------------------------

Work(c)  == \/ CancelAll(c) \/ Join(c) \/ Joined(c) \/ Relaunch(c) \/ Spawn(c) \/ Reregister(c)
Start(c) == Pause(c) \/ Resume(c) \/ RegisterAndStart(c) \/ Unregister(c) \/ Stop(c)
Runner(r) == Enter(r) \/ Exit(r) \/ Fire(r) \/ NextRound(r)

Next == /\ ~Crashed
        /\ \/ \E c \in Callers : Start(c) \/ Work(c)
           \/ \E r \in Runners : Runner(r)

(* Calls proceed, jobs return, tickers tick, and a select whose context    *)
(* stays cancelled takes that case sooner or later: Go picks among the     *)
(* ready cases at random.                                                  *)
Fairness == /\ \A c \in Callers : WF_vars(~Crashed /\ Work(c))
            /\ \A r \in Runners : /\ WF_vars(~Crashed /\ (Enter(r) \/ NextRound(r)))
                                  /\ SF_vars(~Crashed /\ Exit(r))

Spec     == Init /\ [][Next]_vars
FairSpec == Spec /\ Fairness
=============================================================================
