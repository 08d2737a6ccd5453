------------------------------ MODULE EvalRunner ------------------------------
(***************************************************************************)
(* Eval runs (internal/eval/runner.go) over their tables (store.go,        *)
(* pairing.go): a run is a grid of samples, task by repetition by variant, *)
(* executed in the background under a process-wide semaphore and a cost    *)
(* cap, and its completed samples are paired for blind judgment.           *)
(*                                                                         *)
(* Memory dies with the process; the rows stay.  Costs are whole units.    *)
(***************************************************************************)
EXTENDS Integers, FiniteSetsExt

CONSTANTS
    Runs,           \* runs that may be created
    Variants,       \* variants of a run, 1 .. v; the first is the baseline
    Slots,          \* [eval] max_concurrent
    Cap,            \* the run's cost cap
    MostCost,       \* what one sample, or one question to a judge, may cost
    Settings        \* what a behaviour explores: which runs, over how many tasks and
                    \* repetitions, at what costs; what may happen to them ("stop",
                    \* "panic", "shutdown", "crash", "delete"); how many writes fail;
                    \* and what the judge is given (see EvalJudge)

Baseline == 1
Happenings == {"stop", "panic", "shutdown", "crash", "delete"}

ASSUME RunnerAssumption ==
    /\ Variants \in Nat \ {0, 1} /\ Slots \in Nat \ {0} /\ Cap \in Nat /\ MostCost \in Nat
    /\ \A s \in Settings :
          /\ s.runs \subseteq Runs /\ s.happens \subseteq Happenings
          /\ s.tasks \in Nat \ {0} /\ s.k \in Nat \ {0}
          /\ s.costs \subseteq 0 .. MostCost /\ s.faults \in Nat

Terminal == {"done", "capped", "stopped", "failed"}

VARIABLES
    row,            \* eval_runs, eval_samples and eval_pairs of each run
    tasks,          \* eval_tasks that exist
    run,            \* what StartRun and its goroutine are doing
    flying,         \* sample goroutines; each holds a slot of Runner.sem
    active,         \* Runner.active
    cancelled,      \* runs whose context is cancelled
    halt,           \* the emergency stop: panicked, and how far StopAll is
    process,        \* "up", "closing" and "stopping" (judge and runner shut down), "down"
    faults,         \* writes that have failed
    setting         \* the setting this process runs in

memory     == <<run, flying, active, cancelled>>
runnerVars == <<row, tasks, memory, halt, process, faults, setting>>

NoRow == [status |-> "none", cost |-> 0, samples |-> {}, pairs |-> {}]
Asleep == [at |-> "idle", cells |-> {}, spent |-> 0, outcome |-> "", late |-> 0]

Cells == (1 .. setting.tasks) \X (0 .. setting.k - 1) \X (1 .. Variants)

(* The grid is walked task by task, a task's variants next to each other.  *)
Before(c, d) == \/ c[1] < d[1]
                \/ c[1] = d[1] /\ c[2] < d[2]
                \/ c[1] = d[1] /\ c[2] = d[2] /\ c[3] < d[3]
First(cells) == CHOOSE c \in cells : \A d \in cells : c = d \/ Before(c, d)

Flying(r) == {s \in flying : s.run = r}
Goto(r, at) == run' = [run EXCEPT ![r].at = at]
Alive == process # "down"

(* A write to the store happens, or fails and is logged.                   *)
Fault == faults < setting.faults /\ faults' = faults + 1

Written(change) ==
    \/ row' = change /\ UNCHANGED faults
    \/ Fault /\ UNCHANGED row

-----------------------------------------------------------------------------
(* StartRun.                                                               *)

(* handleCreateEvalRun inserts the run, then starts it.                    *)
Create(r) ==
    /\ Alive /\ r \in setting.runs /\ row[r].status = "none" /\ tasks # {}
    /\ row' = [row EXCEPT ![r].status = "pending"]
    /\ Goto(r, "created")
    /\ UNCHANGED <<tasks, flying, active, cancelled, halt, process, faults, setting>>

(* GetRun, and under the runner's lock: a halted runner refuses and stops  *)
(* the row.  Both use the request's context, which may be gone: the row    *)
(* then stays pending.                                                     *)
Refuse(r) ==
    /\ run[r].at = "created"
    /\ \/ UNCHANGED <<row, faults>>
       \/ halt.panicked /\ Written([row EXCEPT ![r].status = "stopped"])
    /\ Goto(r, "idle")
    /\ UNCHANGED <<tasks, flying, active, cancelled, halt, process, setting>>

(* Mutant: the halted flag is not read under the lock. *)
EnterUnchecked(r) ==
    /\ run[r].at = "created"
    /\ active' = active \union {r}
    /\ Goto(r, "entered")
    /\ UNCHANGED <<row, tasks, flying, cancelled, halt, process, faults, setting>>

Enter(r) ==
    /\ run[r].at = "created" /\ ~halt.panicked
    /\ active' = active \union {r}
    /\ Goto(r, "entered")
    /\ UNCHANGED <<row, tasks, flying, cancelled, halt, process, faults, setting>>

(* wg.Add, and the goroutine.                                              *)
Launch(r) ==
    /\ run[r].at = "entered"
    /\ Goto(r, "prepare")
    /\ UNCHANGED <<row, tasks, flying, active, cancelled, halt, process, faults, setting>>

-----------------------------------------------------------------------------
(* execute.                                                                *)

(* prepare reads the tasks and the agent.  A run cancelled here is stopped *)
(* before its first sample, one that lacks something has failed.           *)
Prepare(r) ==
    /\ run[r].at = "prepare"
    /\ \/ /\ tasks # {}
          /\ run' = [run EXCEPT ![r].at = "begin",
                                ![r].cells = {c \in Cells : c[1] \in tasks}]
       \/ run' = [run EXCEPT ![r].at = "finish",
                             ![r].outcome = IF r \in cancelled THEN "stopped" ELSE "failed"]
    /\ UNCHANGED <<row, tasks, flying, active, cancelled, halt, process, faults, setting>>

Begin(r) ==
    /\ run[r].at = "begin"
    /\ Written([row EXCEPT ![r].status = "running"])
    /\ Goto(r, "check")
    /\ UNCHANGED <<tasks, flying, active, cancelled, halt, process, setting>>

(* Mutant: spending up to the cap is within it. *)
CheckOver(r) ==
    /\ run[r].at = "check"
    /\ run' = [run EXCEPT ![r].at = IF r \in cancelled \/ run[r].spent > Cap \/ run[r].cells = {}
                                    THEN "wait" ELSE "acquire",
                          ![r].outcome = IF r \in cancelled THEN "stopped"
                                         ELSE IF run[r].cells = {} THEN "done" ELSE "capped"]
    /\ UNCHANGED <<row, tasks, flying, active, cancelled, halt, process, faults, setting>>

(* dispatch, before each sample: cancelled, over the cap, or on to a slot. *)
Check(r) ==
    /\ run[r].at = "check"
    /\ run' = [run EXCEPT ![r].at = IF r \in cancelled \/ run[r].spent >= Cap \/ run[r].cells = {}
                                    THEN "wait" ELSE "acquire",
                          ![r].outcome = IF r \in cancelled THEN "stopped"
                                         ELSE IF run[r].cells = {} THEN "done" ELSE "capped"]
    /\ UNCHANGED <<row, tasks, flying, active, cancelled, halt, process, faults, setting>>

(* acquire: a slot, or the cancellation, whichever the select picks.       *)
Dispatch(r) ==
    /\ run[r].at = "acquire"
    /\ Cardinality(flying) < Slots
    /\ LET c == First(run[r].cells) IN
       /\ flying' = flying \union {[run |-> r, cell |-> c, at |-> "ask", ok |-> FALSE, cost |-> 0]}
       /\ run' = [run EXCEPT ![r].at = "check", ![r].cells = @ \ {c},
                             ![r].late = IF run[r].spent >= Cap THEN @ + 1 ELSE @]
    /\ UNCHANGED <<row, tasks, active, cancelled, halt, process, faults, setting>>

Abandon(r) ==
    /\ run[r].at = "acquire" /\ r \in cancelled
    /\ run' = [run EXCEPT ![r].at = "wait", ![r].outcome = "stopped"]
    /\ UNCHANGED <<row, tasks, flying, active, cancelled, halt, process, faults, setting>>

(* Mutant: the samples in flight are not waited for. *)
WaitNot(r) ==
    /\ run[r].at = "wait"
    /\ run' = [run EXCEPT ![r].at = "pair",
                          ![r].outcome = IF @ = "done" /\ r \in cancelled THEN "stopped" ELSE @]
    /\ UNCHANGED <<row, tasks, flying, active, cancelled, halt, process, faults, setting>>

(* wg.Wait; a run whose grid is done is stopped if it was cancelled since. *)
Wait(r) ==
    /\ run[r].at = "wait" /\ Flying(r) = {}
    /\ run' = [run EXCEPT ![r].at = "pair",
                          ![r].outcome = IF @ = "done" /\ r \in cancelled THEN "stopped" ELSE @]
    /\ UNCHANGED <<row, tasks, flying, active, cancelled, halt, process, faults, setting>>

(* CreatePairs: every repetition of a task that still exists and completed *)
(* on the baseline and on a candidate.                                     *)
Done(r, c) == \E s \in row[r].samples : s.cell = c /\ s.ok
Pairs(r) == {c \in Cells : /\ c[1] \in tasks /\ c[3] # Baseline
                           /\ Done(r, c) /\ Done(r, <<c[1], c[2], Baseline>>)}

(* Mutant: only a run that is done is paired. *)
FinalizePairsOfDone(r) ==
    /\ run[r].at = "pair"
    /\ Written(IF run[r].outcome = "done" THEN [row EXCEPT ![r].pairs = Pairs(r)] ELSE row)
    /\ Goto(r, "finish")
    /\ UNCHANGED <<tasks, flying, active, cancelled, halt, process, setting>>

FinalizePairs(r) ==
    /\ run[r].at = "pair"
    /\ Written([row EXCEPT ![r].pairs = Pairs(r)])
    /\ Goto(r, "finish")
    /\ UNCHANGED <<tasks, flying, active, cancelled, halt, process, setting>>

(* Mutant: the row is written under the run's own context. *)
FinishRunCancelled(r) ==
    /\ run[r].at = "finish"
    /\ Written(IF r \in cancelled THEN row ELSE [row EXCEPT ![r].status = run[r].outcome])
    /\ Goto(r, "leave")
    /\ UNCHANGED <<tasks, flying, active, cancelled, halt, process, setting>>

FinishRun(r) ==
    /\ run[r].at = "finish"
    /\ Written([row EXCEPT ![r].status = run[r].outcome])
    /\ Goto(r, "leave")
    /\ UNCHANGED <<tasks, flying, active, cancelled, halt, process, setting>>

(* The goroutine's deferred calls.                                         *)
Leave(r) ==
    /\ run[r].at = "leave"
    /\ active' = active \ {r}
    /\ Goto(r, "idle")
    /\ UNCHANGED <<row, tasks, flying, cancelled, halt, process, faults, setting>>

-----------------------------------------------------------------------------
(* runSample, recordSample.                                                *)

Step(s, t) == flying' = (flying \ {s}) \union {t}

(* DryRun returns an answer or an error; the tracker has its cost.         *)
Ask(s) ==
    /\ s \in flying /\ s.at = "ask"
    /\ \E ok \in BOOLEAN, cost \in setting.costs :
          Step(s, [s EXCEPT !.at = "bill", !.ok = ok, !.cost = cost])
    /\ UNCHANGED <<row, tasks, run, active, cancelled, halt, process, faults, setting>>

(* Mutant: a failed sample is not billed. *)
AddRunCostOfOK(s) ==
    /\ s \in flying /\ s.at = "bill"
    /\ Written([row EXCEPT ![s.run].cost = @ + IF s.ok THEN s.cost ELSE 0])
    /\ Step(s, [s EXCEPT !.at = "save"])
    /\ UNCHANGED <<tasks, run, active, cancelled, halt, process, setting>>

AddRunCost(s) ==
    /\ s \in flying /\ s.at = "bill"
    /\ Written([row EXCEPT ![s.run].cost = @ + s.cost])
    /\ Step(s, [s EXCEPT !.at = "save"])
    /\ UNCHANGED <<tasks, run, active, cancelled, halt, process, setting>>

AddSample(s) ==
    /\ s \in flying /\ s.at = "save"
    /\ Written([row EXCEPT ![s.run].samples = @ \union {[cell |-> s.cell, ok |-> s.ok, cost |-> s.cost]}])
    /\ Step(s, [s EXCEPT !.at = "fold"])
    /\ UNCHANGED <<tasks, run, active, cancelled, halt, process, setting>>

(* The spend is folded in before the slot is given back.                   *)
Fold(s) ==
    /\ s \in flying /\ s.at = "fold"
    /\ run' = [run EXCEPT ![s.run].spent = @ + s.cost]
    /\ flying' = flying \ {s}
    /\ UNCHANGED <<row, tasks, active, cancelled, halt, process, faults, setting>>

(* Whatever a run's goroutine, or a sample's, does next.                   *)
RunStep(r) ==
    \/ Refuse(r) \/ Enter(r) \/ Launch(r) \/ Prepare(r) \/ Begin(r) \/ Check(r)
    \/ Dispatch(r) \/ Abandon(r) \/ Wait(r) \/ FinalizePairs(r) \/ FinishRun(r) \/ Leave(r)

SampleStep(s) == Ask(s) \/ AddRunCost(s) \/ AddSample(s) \/ Fold(s)

-----------------------------------------------------------------------------
(* Stop, the emergency stop, shutdown, crash; tasks deleted meanwhile.     *)

Stop(r) ==
    /\ "stop" \in setting.happens /\ r \in active \ cancelled
    /\ cancelled' = cancelled \union {r}
    /\ UNCHANGED <<row, tasks, run, flying, active, halt, process, faults, setting>>

(* The dispatcher's flag is up before its OnPanic calls StopAll.           *)
Panic ==
    /\ "panic" \in setting.happens /\ Alive /\ halt.at = "none"
    /\ halt' = [halt EXCEPT !.panicked = TRUE, !.at = "flagged"]
    /\ UNCHANGED <<row, tasks, memory, process, faults, setting>>

(* StopAll takes the active runs under the lock, then cancels them.        *)
Catch ==
    /\ halt.at = "flagged"
    /\ halt' = [halt EXCEPT !.at = "caught", !.caught = active]
    /\ UNCHANGED <<row, tasks, memory, process, faults, setting>>

StopAll ==
    /\ halt.at = "caught"
    /\ cancelled' = cancelled \union halt.caught
    /\ halt' = [halt EXCEPT !.at = "stopped", !.caught = {}]
    /\ UNCHANGED <<row, tasks, run, flying, active, process, faults, setting>>

Resume ==
    /\ Alive /\ halt.panicked
    /\ halt' = [halt EXCEPT !.panicked = FALSE]
    /\ UNCHANGED <<row, tasks, memory, process, faults, setting>>

(* Shutdown, once the judge's is over: StopAll, then wg.Wait, which misses *)
(* what has not reached wg.Add.                                            *)
Shutdown ==
    /\ process = "closing"
    /\ process' = "stopping"
    /\ cancelled' = cancelled \union active
    /\ UNCHANGED <<row, tasks, run, flying, active, halt, faults, setting>>

Counted(r) == run[r].at \notin {"idle", "created", "entered"}

Down ==
    /\ process' = "down"
    /\ run' = [r \in Runs |-> Asleep]
    /\ flying' = {} /\ active' = {} /\ cancelled' = {}
    /\ halt' = [halt EXCEPT !.at = "over", !.caught = {}]
    /\ UNCHANGED <<row, tasks, faults, setting>>

Exit  == process = "stopping" /\ (\A r \in Runs : ~Counted(r)) /\ Down
Crash == Alive /\ "crash" \in setting.happens /\ Down

DeleteTask(t) ==
    /\ Alive /\ "delete" \in setting.happens /\ t \in tasks
    /\ tasks' = tasks \ {t}
    /\ UNCHANGED <<row, memory, halt, process, faults, setting>>

RunnerInit ==
    /\ setting \in Settings
    /\ row = [r \in Runs |-> NoRow]
    /\ tasks = 1 .. setting.tasks
    /\ run = [r \in Runs |-> Asleep]
    /\ flying = {} /\ active = {} /\ cancelled = {}
    /\ halt = [panicked |-> FALSE, at |-> "none", caught |-> {}]
    /\ process = "up"
    /\ faults = 0
=============================================================================
