------------------------------ MODULE EvalJudge ------------------------------
(***************************************************************************)
(* The internal judge (internal/eval/judge.go) beside the runner, over the *)
(* same tables (judging.go).  A pass takes the pending items of a finished *)
(* run, two presentations of each pair, and asks a decider, a model or     *)
(* both about each; MCP clients and the operator record verdicts of their  *)
(* own.                                                                    *)
(***************************************************************************)
EXTENDS EvalRunner

CONSTANTS
    Passes,         \* calls of Judge.Start
    JudgeSlots,     \* the size of Judge.sem
    JudgeCap        \* [eval] judge_max_cost_per_run

Backends == {"decider", "model"}
Operator == "operator"

ASSUME JudgeAssumption ==
    /\ JudgeSlots \in Nat \ {0} /\ JudgeCap \in Nat
    /\ \A s \in Settings : s.passes \subseteq Passes /\ s.backends \in (SUBSET Backends) \ {{}}
                           /\ s.marks \in Nat

VARIABLES
    verdicts,       \* eval_verdicts: who has called which item
    judged,         \* eval_judgment_items that are no longer pending
    judgeCost,      \* eval_runs.judge_cost
    pass,           \* what Start and its goroutine are doing
    grading,        \* item goroutines
    tokens,         \* how much of Judge.sem is taken
    marks           \* verdicts that came over MCP

judgeMemory == <<pass, grading, tokens>>
judgeVars   == <<verdicts, judged, judgeCost, judgeMemory, marks>>
vars        == <<runnerVars, judgeVars>>

(* Two items for each pair, one for each order of presentation.            *)
Items(r) == {<<r, c, order>> : c \in row[r].pairs, order \in {"ab", "ba"}}
AllItems == UNION {Items(r) : r \in Runs}

(* ListPending joins the task.                                             *)
Pending(r) == {i \in Items(r) \ judged : i[2][1] \in tasks}

Unstarted == [at |-> "none", run |-> 0, queue |-> {}, cancelled |-> FALSE, spend |-> 0,
              wrote |-> 0, capped |-> FALSE, late |-> 0]

Under(p) == {g \in grading : g.pass = p}
Judging == {p \in Passes : pass[p].at \in {"entered", "loop", "slot", "drain"}}     \* Judge.active
PassGoto(p, at) == pass' = [pass EXCEPT ![p].at = at]

-----------------------------------------------------------------------------
(* Start.                                                                  *)

(* The run is finished; the queue is what is pending now, or some of it.   *)
(* An empty queue starts nothing.                                          *)
Look(p, r) ==
    /\ Alive /\ p \in setting.passes /\ pass[p].at = "none"
    /\ row[r].status \in Terminal
    /\ \E queue \in (SUBSET Pending(r)) \ {{}} :
          pass' = [pass EXCEPT ![p].at = "looked", ![p].run = r, ![p].queue = queue]
    /\ UNCHANGED <<runnerVars, verdicts, judged, judgeCost, grading, tokens, marks>>

(* Under the judge's lock.                                                 *)
EnterPass(p) ==
    /\ pass[p].at = "looked"
    /\ PassGoto(p, IF halt.panicked \/ \E q \in Judging : pass[q].run = pass[p].run
                   THEN "refused" ELSE "entered")
    /\ UNCHANGED <<runnerVars, verdicts, judged, judgeCost, grading, tokens, marks>>

LaunchPass(p) ==
    /\ pass[p].at = "entered"
    /\ PassGoto(p, "loop")
    /\ UNCHANGED <<runnerVars, verdicts, judged, judgeCost, grading, tokens, marks>>

-----------------------------------------------------------------------------
(* run: the queue.  It is in the order of the items' ids, or drawn at      *)
(* random; the order is fixed here.                                        *)

OverCap(p) == pass[p].spend >= JudgeCap

NextItem(p) ==
    /\ pass[p].at = "loop"
    /\ LET over == pass[p].queue # {} /\ ~pass[p].cancelled /\ OverCap(p)
           ends == pass[p].queue = {} \/ pass[p].cancelled \/ pass[p].capped \/ over
       IN  pass' = [pass EXCEPT ![p].at = IF ends THEN "drain" ELSE "slot",
                                ![p].capped = @ \/ over]
    /\ UNCHANGED <<runnerVars, verdicts, judged, judgeCost, grading, tokens, marks>>

TakeSlot(p) ==
    /\ pass[p].at = "slot" /\ ~pass[p].cancelled
    /\ tokens < JudgeSlots
    /\ tokens' = tokens + 1
    /\ LET i == CHOOSE i \in pass[p].queue : TRUE IN
          /\ grading' = grading \union {[pass |-> p, item |-> i, at |-> "blind", total |-> 0]}
          /\ pass' = [pass EXCEPT ![p].at = "loop", ![p].queue = @ \ {i},
                                  ![p].late = IF OverCap(p) THEN @ + 1 ELSE @]
    /\ UNCHANGED <<runnerVars, verdicts, judged, judgeCost, marks>>

(* A cancelled pass leaves; the select may have taken a slot for it first. *)
LeaveQueue(p) ==
    /\ pass[p].at = "slot" /\ pass[p].cancelled
    /\ tokens' \in IF tokens < JudgeSlots THEN {tokens, tokens + 1} ELSE {tokens}
    /\ PassGoto(p, "drain")
    /\ UNCHANGED <<runnerVars, verdicts, judged, judgeCost, grading, marks>>

(* wg.Wait, and the goroutine's deferred calls.                            *)
EndPass(p) ==
    /\ pass[p].at = "drain" /\ Under(p) = {}
    /\ PassGoto(p, "ended")
    /\ UNCHANGED <<runnerVars, verdicts, judged, judgeCost, grading, tokens, marks>>

-----------------------------------------------------------------------------
(* judgeItem.                                                              *)

GradeStep(g, h) == grading' = (grading \ {g}) \union {h}
FirstBackend == IF "decider" \in setting.backends THEN "decider" ELSE "model"
Finished(g) == GradeStep(g, [g EXCEPT !.at = "total"])

(* GetBlindedItem fails on a cancelled pass or a deleted task.             *)
Blind(g) ==
    /\ g \in grading /\ g.at = "blind"
    /\ \/ g.item[2][1] \in tasks /\ GradeStep(g, [g EXCEPT !.at = FirstBackend])
       \/ (g.item[2][1] \notin tasks \/ pass[g.pass].cancelled) /\ Finished(g)
    /\ UNCHANGED <<runnerVars, verdicts, judged, judgeCost, pass, tokens, marks>>

(* A backend answers, falls through to the next one, fails the item, or    *)
(* reports the hard limit, which caps the pass.                            *)
AskBackend(g) ==
    /\ g \in grading /\ g.at \in Backends
    /\ \/ \E cost \in setting.costs :
             /\ pass' = [pass EXCEPT ![g.pass].spend = @ + cost]
             /\ \/ GradeStep(g, [g EXCEPT !.at = IF g.at = "decider" THEN "recordDecider" ELSE "recordModel"])
                \/ g.at = "decider" /\ "model" \in setting.backends /\ GradeStep(g, [g EXCEPT !.at = "model"])
                \/ Finished(g)
       \/ /\ pass' = [pass EXCEPT ![g.pass].capped = TRUE]
          /\ Finished(g)
    /\ UNCHANGED <<runnerVars, verdicts, judged, judgeCost, tokens, marks>>

(* RecordVerdict is one transaction.  Only a judge's verdict, not the      *)
(* operator's, settles the item.                                           *)
RecordVerdict(i, by) ==
    /\ verdicts' = verdicts \union {[item |-> i, by |-> by]}
    /\ judged' = IF by = Operator THEN judged ELSE judged \union {i}

Record(g) ==
    /\ g \in grading /\ g.at \in {"recordDecider", "recordModel"}
    /\ \/ /\ RecordVerdict(g.item, IF g.at = "recordDecider" THEN "decider" ELSE "model")
          /\ UNCHANGED faults
       \/ /\ faults < setting.faults /\ faults' = faults + 1
          /\ UNCHANGED <<verdicts, judged>>
    /\ Finished(g)
    /\ UNCHANGED <<row, tasks, memory, halt, process, setting, judgeCost, pass, tokens, marks>>

(* recordCost reads the total before it takes the pass's lock.             *)
ReadTotal(g) ==
    /\ g \in grading /\ g.at = "total"
    /\ GradeStep(g, [g EXCEPT !.at = "cost", !.total = pass[g.pass].spend])
    /\ UNCHANGED <<runnerVars, verdicts, judged, judgeCost, pass, tokens, marks>>

(* The delta is added to the row when it is positive; the slot is free.    *)
AddJudgeCost(r, delta) ==
    \/ judgeCost' = [judgeCost EXCEPT ![r] = @ + delta] /\ UNCHANGED faults
    \/ Fault /\ UNCHANGED judgeCost

RecordCost(g) ==
    /\ g \in grading /\ g.at = "cost"
    /\ LET delta == g.total - pass[g.pass].wrote IN
          IF delta > 0 THEN AddJudgeCost(pass[g.pass].run, delta) ELSE UNCHANGED <<judgeCost, faults>>
    /\ pass' = [pass EXCEPT ![g.pass].wrote = g.total]
    /\ grading' = grading \ {g}
    /\ tokens' = tokens - 1
    /\ UNCHANGED <<row, tasks, memory, halt, process, setting, verdicts, judged, marks>>

-----------------------------------------------------------------------------
(* Verdicts of others, cancellation, shutdown.                             *)

Mark(i, by) ==
    /\ Alive /\ marks < setting.marks /\ i \in AllItems
    /\ RecordVerdict(i, by)
    /\ marks' = marks + 1
    /\ UNCHANGED <<runnerVars, judgeCost, judgeMemory>>

CancelPasses(ps) == pass' = [p \in Passes |-> IF p \in ps THEN [pass[p] EXCEPT !.cancelled = TRUE] ELSE pass[p]]

(* The emergency stop comes to the judge after the runner.                 *)
CatchPasses ==
    /\ halt.at = "stopped"
    /\ halt' = [halt EXCEPT !.at = "passes", !.caught = Judging]
    /\ UNCHANGED <<row, tasks, memory, process, faults, setting, judgeVars>>

StopPasses ==
    /\ halt.at = "passes"
    /\ halt' = [halt EXCEPT !.at = "over", !.caught = {}]
    /\ CancelPasses(halt.caught)
    /\ UNCHANGED <<row, tasks, memory, process, faults, setting, verdicts, judged, judgeCost, grading, tokens, marks>>

(* The judge's Shutdown is the first of the two.                           *)
ShutdownJudge ==
    /\ "shutdown" \in setting.happens /\ process = "up"
    /\ process' = "closing"
    /\ CancelPasses(Judging)
    /\ UNCHANGED <<row, tasks, memory, halt, faults, setting, verdicts, judged, judgeCost, grading, tokens, marks>>

DownWithJudge ==
    /\ Exit \/ Crash
    /\ pass' = [p \in Passes |-> [pass[p] EXCEPT !.at = IF @ = "none" THEN @ ELSE "gone"]]
    /\ grading' = {} /\ tokens' = 0
    /\ UNCHANGED <<verdicts, judged, judgeCost, marks>>

-----------------------------------------------------------------------------

Init ==
    /\ RunnerInit
    /\ verdicts = {} /\ judged = {}
    /\ judgeCost = [r \in Runs |-> 0]
    /\ pass = [p \in Passes |-> Unstarted]
    /\ grading = {} /\ tokens = 0 /\ marks = 0

PassStep(p) == EnterPass(p) \/ LaunchPass(p) \/ NextItem(p) \/ TakeSlot(p) \/ LeaveQueue(p) \/ EndPass(p)
GradingStep(g) == Blind(g) \/ AskBackend(g) \/ Record(g) \/ ReadTotal(g) \/ RecordCost(g)
HaltStep == (Catch \/ StopAll) /\ UNCHANGED judgeVars

Next ==
    \/ \E r \in Runs : (Create(r) \/ RunStep(r) \/ Stop(r)) /\ UNCHANGED judgeVars
    \/ \E s \in flying : SampleStep(s) /\ UNCHANGED judgeVars
    \/ (Panic \/ Resume \/ \E t \in tasks : DeleteTask(t)) /\ UNCHANGED judgeVars
    \/ HaltStep \/ CatchPasses \/ StopPasses
    \/ \E p \in Passes : PassStep(p) \/ \E r \in Runs : Look(p, r)
    \/ \E g \in grading : GradingStep(g)
    \/ \E i \in AllItems, by \in {Operator, "mcp"} : Mark(i, by)
    \/ ShutdownJudge \/ DownWithJudge
    \/ /\ Shutdown /\ UNCHANGED judgeVars
       /\ \A p \in Passes : pass[p].at \notin {"loop", "slot", "drain"}

Spec == Init /\ [][Next]_vars

(* The goroutines run; a sample and a judge's question end (a cancelled    *)
(* context ends them, and the providers' timeouts do).                     *)
Fairness ==
    /\ \A r \in Runs : WF_vars(RunStep(r) /\ UNCHANGED judgeVars)
    /\ WF_vars(\E s \in flying : SampleStep(s) /\ UNCHANGED judgeVars)
    /\ \A p \in Passes : WF_vars(PassStep(p))
    /\ WF_vars(\E g \in grading : GradingStep(g))

FairSpec == Spec /\ Fairness
=============================================================================
