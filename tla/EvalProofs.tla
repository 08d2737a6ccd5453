----------------------------- MODULE EvalProofs -----------------------------
(* What holds of eval runs and judging passes for any number of runs,      *)
(* passes, slots and faults, and any caps.                                 *)
EXTENDS EvalProps, FiniteSetTheorems, NaturalsInduction, WellFoundedInduction, TLAPS

(* The variables keep the fields they start with; samples belong to runs   *)
(* and items to passes.                                                    *)
Shapes ==
    /\ DOMAIN row = Runs
    /\ \A r \in Runs : DOMAIN row[r] = {"status", "cost", "samples", "pairs"}
    /\ DOMAIN run = Runs
    /\ \A r \in Runs : DOMAIN run[r] = {"at", "cells", "spent", "outcome", "late"}
    /\ \A s \in flying : s.run \in Runs /\ DOMAIN s = {"run", "cell", "at", "ok", "cost"}
    /\ DOMAIN pass = Passes
    /\ \A p \in Passes : DOMAIN pass[p] = {"at", "run", "queue", "cancelled", "spend",
                                           "wrote", "capped", "late"}
    /\ \A g \in grading : g.pass \in Passes /\ DOMAIN g = {"pass", "item", "at", "total"}
    /\ DOMAIN halt = {"panicked", "at", "caught"}

(* How far the emergency stop has come, and what it has reached by then.   *)
(* Nothing enters behind it, since entering reads the flag under the lock  *)
(* that StopAll takes.                                                     *)
Reached ==
    /\ halt.at = "none" => ~halt.panicked
    /\ halt.panicked /\ halt.at = "caught" => active \subseteq halt.caught \union cancelled
    /\ halt.panicked /\ halt.at \in {"stopped", "passes", "over"} => active \subseteq cancelled
    /\ halt.panicked /\ halt.at = "passes" =>
          \A p \in Judging : p \in halt.caught \/ pass[p].cancelled
    /\ halt.panicked /\ halt.at = "over" => \A p \in Judging : pass[p].cancelled

(* Where a run's goroutine is, by what its row says and its samples do.    *)
RowFollows ==
    /\ \A r \in Runs : row[r].status = "none" => run[r].at = "idle"
    /\ \A r \in Runs : row[r].status \in Terminal => run[r].at \in {"idle", "leave"}
    /\ \A r \in Runs : run[r].at \in {"wait", "pair", "finish"} => run[r].outcome \in Terminal
    /\ \A s \in flying : run[s.run].at \in {"check", "acquire", "wait"}

EvalInv == Shapes /\ Reached /\ RowFollows

-----------------------------------------------------------------------------

LEMMA EvalInit == Init => EvalInv
<1> SUFFICES ASSUME Init PROVE EvalInv
  OBVIOUS
<1>1. Shapes
  BY DEF Init, RunnerInit, Shapes, NoRow, Asleep, Unstarted
<1>2. Reached
  BY DEF Init, RunnerInit, Reached
<1>3. RowFollows
  BY DEF Init, RunnerInit, RowFollows, NoRow, Asleep, Terminal
<1> QED
  BY <1>1, <1>2, <1>3 DEF EvalInv

(* What the goroutine of a run does.                                       *)
LEMMA RunKeeps ==
    ASSUME EvalInv, NEW r \in Runs, Create(r) \/ RunStep(r) \/ Stop(r), UNCHANGED judgeVars
    PROVE  EvalInv'
<1> USE DEF EvalInv, judgeVars, judgeMemory
<1>1. CASE Create(r)
  BY <1>1 DEF Create, Shapes, Reached, RowFollows, Goto, Terminal, Judging
<1>2. CASE Refuse(r)
  BY <1>2 DEF Refuse, Written, Fault, Shapes, Reached, RowFollows, Goto, Terminal, Judging
<1>3. CASE Enter(r)
  BY <1>3 DEF Enter, Shapes, Reached, RowFollows, Goto, Terminal, Judging
<1>4. CASE Launch(r)
  BY <1>4 DEF Launch, Shapes, Reached, RowFollows, Goto, Terminal, Judging
<1>5. CASE Prepare(r)
  BY <1>5 DEF Prepare, Shapes, Reached, RowFollows, Goto, Terminal, Judging
<1>6. CASE Begin(r)
  BY <1>6 DEF Begin, Written, Fault, Shapes, Reached, RowFollows, Goto, Terminal, Judging
<1>7. CASE Check(r)
  BY <1>7 DEF Check, Shapes, Reached, RowFollows, Goto, Terminal, Judging
<1>8. CASE Dispatch(r)
  BY <1>8 DEF Dispatch, Shapes, Reached, RowFollows, Goto, Terminal, Judging
<1>9. CASE Abandon(r)
  BY <1>9 DEF Abandon, Shapes, Reached, RowFollows, Goto, Terminal, Judging
<1>10. CASE Wait(r)
  BY <1>10 DEF Wait, Flying, Shapes, Reached, RowFollows, Goto, Terminal, Judging
<1>11. CASE FinalizePairs(r)
  BY <1>11 DEF FinalizePairs, Written, Fault, Shapes, Reached, RowFollows, Goto, Terminal, Judging
<1>12. CASE FinishRun(r)
  BY <1>12 DEF FinishRun, Written, Fault, Shapes, Reached, RowFollows, Goto, Terminal, Judging
<1>13. CASE Leave(r)
  BY <1>13 DEF Leave, Shapes, Reached, RowFollows, Goto, Terminal, Judging
<1>14. CASE Stop(r)
  BY <1>14 DEF Stop, Shapes, Reached, RowFollows, Judging
<1> QED
  BY <1>1, <1>2, <1>3, <1>4, <1>5, <1>6, <1>7, <1>8, <1>9, <1>10, <1>11, <1>12, <1>13, <1>14
     DEF RunStep

(* What the goroutine of a sample does.                                    *)
LEMMA SampleKeeps ==
    ASSUME EvalInv, NEW s \in flying, SampleStep(s), UNCHANGED judgeVars
    PROVE  EvalInv'
<1> USE DEF EvalInv, judgeVars, judgeMemory
<1>1. CASE Ask(s)
  BY <1>1 DEF Ask, Step, Shapes, Reached, RowFollows, Judging
<1>2. CASE AddRunCost(s)
  BY <1>2 DEF AddRunCost, Step, Written, Fault, Shapes, Reached, RowFollows, Terminal, Judging
<1>3. CASE AddSample(s)
  BY <1>3 DEF AddSample, Step, Written, Fault, Shapes, Reached, RowFollows, Terminal, Judging
<1>4. CASE Fold(s)
  BY <1>4 DEF Fold, Shapes, Reached, RowFollows, Terminal, Judging
<1> QED
  BY <1>1, <1>2, <1>3, <1>4 DEF SampleStep

(* What the goroutine of a pass does.                                      *)
LEMMA PassKeeps ==
    ASSUME EvalInv, NEW p \in Passes, PassStep(p) \/ \E r \in Runs : Look(p, r)
    PROVE  EvalInv'
<1> USE DEF EvalInv, runnerVars, memory
<1>1. ASSUME NEW r \in Runs, Look(p, r) PROVE EvalInv'
  <2>1. PICK queue : pass' = [pass EXCEPT ![p].at = "looked", ![p].run = r, ![p].queue = queue]
    BY <1>1 DEF Look
  <2>2. Shapes'
    BY <1>1, <2>1 DEF Look, Shapes
  <2>3. \A q \in Passes : pass'[q].cancelled = pass[q].cancelled
    BY <2>1 DEF Shapes
  <2>4. pass'[p].at = "looked" /\ \A q \in Passes \ {p} : pass'[q].at = pass[q].at
    BY <2>1 DEF Shapes
  <2>5. pass[p].at = "none" /\ UNCHANGED <<row, run, flying, active, cancelled, halt>>
    BY <1>1 DEF Look
  <2> QED
    BY <2>2, <2>3, <2>4, <2>5 DEF Reached, RowFollows, Judging
<1>2. CASE EnterPass(p)
  BY <1>2 DEF EnterPass, PassGoto, Shapes, Reached, RowFollows, Judging
<1>3. CASE LaunchPass(p)
  BY <1>3 DEF LaunchPass, PassGoto, Shapes, Reached, RowFollows, Judging
<1>4. CASE NextItem(p)
  BY <1>4 DEF NextItem, Shapes, Reached, RowFollows, Judging
<1>5. CASE TakeSlot(p)
  <2> DEFINE i == CHOOSE i \in pass[p].queue : TRUE
             late == IF OverCap(p) THEN pass[p].late + 1 ELSE pass[p].late
  <2>1. /\ grading' = grading \union {[pass |-> p, item |-> i, at |-> "blind", total |-> 0]}
        /\ pass' = [pass EXCEPT ![p].at = "loop", ![p].queue = @ \ {i}, ![p].late = late]
    BY <1>5 DEF TakeSlot
  <2> HIDE DEF i, late
  <2>2. pass[p].at = "slot" /\ UNCHANGED <<row, run, flying, active, cancelled, halt>>
    BY <1>5 DEF TakeSlot
  <2>3. DOMAIN pass' = Passes
        /\ \A q \in Passes : DOMAIN pass'[q] = DOMAIN pass[q] /\ pass'[q].cancelled = pass[q].cancelled
    BY <2>1 DEF Shapes
  <2>4. pass'[p].at = "loop" /\ \A q \in Passes \ {p} : pass'[q].at = pass[q].at
    BY <2>1 DEF Shapes
  <2>5. Shapes'
    BY <2>1, <2>2, <2>3 DEF Shapes
  <2> QED
    BY <2>2, <2>3, <2>4, <2>5 DEF Reached, RowFollows, Judging
<1>6. CASE LeaveQueue(p)
  BY <1>6 DEF LeaveQueue, PassGoto, Shapes, Reached, RowFollows, Judging
<1>7. CASE EndPass(p)
  BY <1>7 DEF EndPass, PassGoto, Shapes, Reached, RowFollows, Judging
<1> QED
  BY <1>1, <1>2, <1>3, <1>4, <1>5, <1>6, <1>7 DEF PassStep

(* What the goroutine of an item does.                                     *)
LEMMA ItemKeeps ==
    ASSUME EvalInv, NEW g \in grading, GradingStep(g)
    PROVE  EvalInv'
<1> USE DEF EvalInv, runnerVars, memory
<1>1. CASE Blind(g)
  BY <1>1 DEF Blind, Finished, GradeStep, Shapes, Reached, RowFollows, Judging
<1>2. CASE AskBackend(g)
  <2>1. UNCHANGED <<row, run, flying, active, cancelled, halt>>
    BY <1>2 DEF AskBackend
  <2>2. Shapes'
    BY <1>2, <2>1 DEF AskBackend, Finished, GradeStep, Shapes
  <2>3. \/ \E spend : pass' = [pass EXCEPT ![g.pass].spend = spend]
        \/ pass' = [pass EXCEPT ![g.pass].capped = TRUE]
    BY <1>2 DEF AskBackend
  <2>4. ASSUME NEW q \in Passes PROVE pass'[q].cancelled = pass[q].cancelled /\ pass'[q].at = pass[q].at
    <3>1. ASSUME NEW spend, pass' = [pass EXCEPT ![g.pass].spend = spend]
          PROVE  pass'[q].cancelled = pass[q].cancelled /\ pass'[q].at = pass[q].at
      BY <3>1 DEF Shapes
    <3>2. CASE pass' = [pass EXCEPT ![g.pass].capped = TRUE]
      BY <3>2 DEF Shapes
    <3> QED
      BY <2>3, <3>1, <3>2
  <2> QED
    BY <2>1, <2>2, <2>4 DEF Reached, RowFollows, Judging
<1>3. CASE Record(g)
  BY <1>3 DEF Record, Finished, GradeStep, Shapes, Reached, RowFollows, Judging
<1>4. CASE ReadTotal(g)
  BY <1>4 DEF ReadTotal, GradeStep, Shapes, Reached, RowFollows, Judging
<1>5. CASE RecordCost(g)
  BY <1>5 DEF RecordCost, Shapes, Reached, RowFollows, Judging
<1> QED
  BY <1>1, <1>2, <1>3, <1>4, <1>5 DEF GradingStep

(* The emergency stop, step by step; resume; deletions and verdicts.       *)
LEMMA StopKeeps ==
    ASSUME EvalInv,
           \/ (HaltStep \/ CatchPasses \/ StopPasses)
           \/ (Panic \/ Resume \/ \E t \in tasks : DeleteTask(t)) /\ UNCHANGED judgeVars
           \/ \E i \in AllItems, by \in {Operator, "mcp"} : Mark(i, by)
    PROVE  EvalInv'
<1> USE DEF EvalInv, judgeVars, judgeMemory, memory
<1>1. CASE HaltStep
  BY <1>1 DEF HaltStep, Catch, StopAll, Shapes, Reached, RowFollows, Judging
<1>2. CASE CatchPasses
  BY <1>2 DEF CatchPasses, Shapes, Reached, RowFollows, Judging
<1>3. CASE StopPasses
  BY <1>3 DEF StopPasses, CancelPasses, Shapes, Reached, RowFollows, Judging
<1>4. CASE Panic /\ UNCHANGED judgeVars
  BY <1>4 DEF Panic, Shapes, Reached, RowFollows, Judging
<1>5. CASE Resume /\ UNCHANGED judgeVars
  BY <1>5 DEF Resume, Shapes, Reached, RowFollows, Judging
<1>6. ASSUME NEW t \in tasks, DeleteTask(t), UNCHANGED judgeVars PROVE EvalInv'
  BY <1>6 DEF DeleteTask, Shapes, Reached, RowFollows, Judging
<1>7. ASSUME NEW i \in AllItems, NEW by \in {Operator, "mcp"}, Mark(i, by) PROVE EvalInv'
  BY <1>7 DEF Mark, runnerVars, Shapes, Reached, RowFollows, Judging
<1> QED
  BY <1>1, <1>2, <1>3, <1>4, <1>5, <1>6, <1>7

(* Shutdown and crash.                                                     *)
LEMMA DownKeeps ==
    ASSUME EvalInv, ShutdownJudge \/ DownWithJudge \/ (Shutdown /\ UNCHANGED judgeVars)
    PROVE  EvalInv'
<1> USE DEF EvalInv, judgeVars, judgeMemory, memory
<1>1. CASE ShutdownJudge
  BY <1>1 DEF ShutdownJudge, CancelPasses, Shapes, Reached, RowFollows, Judging
<1>2. CASE DownWithJudge
  <2>1. Down /\ grading' = {}
        /\ pass' = [p \in Passes |-> [pass[p] EXCEPT !.at = IF @ = "none" THEN @ ELSE "gone"]]
    BY <1>2 DEF DownWithJudge, Exit, Crash
  <2>2. Shapes'
    BY <2>1 DEF Down, Asleep, Shapes
  <2>3. Judging' = {} /\ active' = {} /\ halt'.at = "over" /\ halt'.panicked = halt.panicked
    BY <2>1 DEF Down, Shapes, Judging
  <2>4. RowFollows'
    BY <2>1 DEF Down, Asleep, RowFollows
  <2> QED
    BY <2>2, <2>3, <2>4 DEF Reached
<1>3. CASE Shutdown /\ UNCHANGED judgeVars
  BY <1>3 DEF Shutdown, Shapes, Reached, RowFollows, Judging
<1> QED
  BY <1>1, <1>2, <1>3

LEMMA EvalKeeps == EvalInv /\ [Next]_vars => EvalInv'
<1> SUFFICES ASSUME EvalInv, [Next]_vars PROVE EvalInv'
  OBVIOUS
<1>1. CASE UNCHANGED vars
  BY <1>1 DEF vars, runnerVars, memory, judgeVars, judgeMemory,
              EvalInv, Shapes, Reached, RowFollows, Judging
<1>2. CASE Next
  BY <1>2, RunKeeps, SampleKeeps, PassKeeps, ItemKeeps, StopKeeps, DownKeeps DEF Next
<1> QED
  BY <1>1, <1>2

LEMMA EvalInvariant == Spec => []EvalInv
BY EvalInit, EvalKeeps, PTL DEF Spec

-----------------------------------------------------------------------------
(* Once the emergency stop has been through, every run and pass that can   *)
(* spend is cancelled, whoever it raced with.                              *)
THEOREM StopReachesAll == Spec => []PanicReachesAll
<1>1. EvalInv => PanicReachesAll
  BY DEF EvalInv, Reached, PanicReachesAll
<1> QED
  BY <1>1, EvalInvariant, PTL
-----------------------------------------------------------------------------
(* A run whose row is terminal has left its steps that write, and so have  *)
(* its samples.                                                            *)
LEMMA RowStays ==
    ASSUME EvalInv, Next, NEW r \in Runs, row[r].status \in Terminal
    PROVE  row'[r] = row[r]
<1> USE DEF EvalInv
<1>1. run[r].at \in {"idle", "leave"} /\ row[r].status # "none" /\ \A s \in flying : s.run # r
  BY DEF RowFollows, Terminal
<1>2. ASSUME NEW q \in Runs, Create(q) \/ RunStep(q) \/ Stop(q) PROVE row'[r] = row[r]
  <2>1. CASE Create(q)
    BY <1>1, <2>1 DEF Create, Shapes
  <2>2. CASE Refuse(q) \/ Begin(q)
    BY <1>1, <2>2 DEF Refuse, Begin, Written, Shapes
  <2>3. CASE FinalizePairs(q) \/ FinishRun(q)
    BY <1>1, <2>3 DEF FinalizePairs, FinishRun, Written, Shapes
  <2>4. CASE Enter(q) \/ Launch(q) \/ Prepare(q) \/ Check(q) \/ Dispatch(q)
    BY <2>4 DEF Enter, Launch, Prepare, Check, Dispatch
  <2>5. CASE Abandon(q) \/ Wait(q) \/ Leave(q) \/ Stop(q)
    BY <2>5 DEF Abandon, Wait, Leave, Stop
  <2> QED
    BY <1>2, <2>1, <2>2, <2>3, <2>4, <2>5 DEF RunStep
<1>3. ASSUME NEW s \in flying, SampleStep(s) PROVE row'[r] = row[r]
  BY <1>1, <1>3 DEF SampleStep, Ask, AddRunCost, AddSample, Fold, Written, Shapes
<1>4. CASE HaltStep \/ CatchPasses \/ StopPasses \/ Panic \/ Resume \/ \E t \in tasks : DeleteTask(t)
  BY <1>4 DEF HaltStep, Catch, StopAll, CatchPasses, StopPasses, Panic, Resume, DeleteTask
<1>5. ASSUME NEW p \in Passes, PassStep(p) \/ \E q \in Runs : Look(p, q) PROVE row'[r] = row[r]
  BY <1>5 DEF PassStep, Look, EnterPass, LaunchPass, NextItem, TakeSlot, LeaveQueue, EndPass, runnerVars
<1>6. ASSUME NEW g \in grading, GradingStep(g) PROVE row'[r] = row[r]
  BY <1>6 DEF GradingStep, Blind, AskBackend, Record, ReadTotal, RecordCost, runnerVars
<1>7. CASE ShutdownJudge \/ DownWithJudge \/ Shutdown \/ \E i \in AllItems, by \in {Operator, "mcp"} : Mark(i, by)
  BY <1>7 DEF ShutdownJudge, DownWithJudge, Exit, Crash, Down, Shutdown, Mark, runnerVars
<1> QED
  BY <1>2, <1>3, <1>4, <1>5, <1>6, <1>7 DEF Next

(* No sample, cost or pair is written to a run's row after its terminal    *)
(* status, by any interleaving of stops, panics, shutdowns and failures.   *)
THEOREM TerminalRowsAreFinal == Spec => TerminalIsLast
<1>1. EvalInv /\ [Next]_vars => [\A r \in Runs : row[r].status \in Terminal => row'[r] = row[r]]_vars
  BY RowStays
<1> QED
  BY <1>1, EvalInvariant, PTL DEF Spec, TerminalIsLast
-----------------------------------------------------------------------------
(* A set of naturals has a least element. *)
LEMMA Least ==
    ASSUME NEW S \in SUBSET Nat, S # {}
    PROVE  \E x \in S : \A y \in S : x <= y
<1>1. PICK x \in S : \A y \in S : ~(<<y, x>> \in OpToRel(<, Nat))
  BY NatLessThanWellFounded, WFMin
<1>2. \A y \in S : ~(y < x)
  BY <1>1 DEF OpToRel
<1> QED
  BY <1>2

Total(S) == MapThenSumSet(LAMBDA s : s.cost, S)
Chosen(S) == CHOOSE x \in S : TRUE
Sums(S, f) == f = [s \in SUBSET S |-> IF s = {} THEN 0 ELSE Chosen(s).cost + f[s \ {Chosen(s)}]]
Follows(S) == Total(S) = IF S = {} THEN 0 ELSE Chosen(S).cost + Total(S \ {Chosen(S)})

LEMMA TotalDef == ASSUME NEW S PROVE Total(S) = (CHOOSE f : Sums(S, f))[S]
BY DEF Total, MapThenSumSet, MapThenFoldSet, Sums, Chosen

(* Below a set on which it holds everywhere, the sum is any solution. *)
LEMMA OneSolution ==
    ASSUME NEW S, IsFiniteSet(S), NEW h, Sums(S, h),
           NEW T \in SUBSET S, \A s \in SUBSET T : Follows(s)
    PROVE  h[T] = Total(T)
<1> SUFFICES ASSUME h[T] # Total(T) PROVE FALSE
  OBVIOUS
<1> DEFINE wrong == {n \in Nat : \E s \in SUBSET T : Cardinality(s) = n /\ h[s] # Total(s)}
<1>1. ASSUME NEW s \in SUBSET T PROVE IsFiniteSet(s) /\ Cardinality(s) \in Nat
  BY FS_Subset, FS_CardinalityType
<1>2. Cardinality(T) \in wrong
  BY <1>1
<1>3. PICK n \in wrong : \A m \in wrong : n <= m
  <2> wrong \in SUBSET Nat
    OBVIOUS
  <2> HIDE DEF wrong
  <2> QED
    BY <1>2, Least
<1>4. PICK s \in SUBSET T : Cardinality(s) = n /\ h[s] # Total(s)
  BY <1>3
<1>5. s # {} 
  BY <1>4 DEF Sums, Follows
<1>6. Chosen(s) \in s
  BY <1>5 DEF Chosen
<1> DEFINE t == s \ {Chosen(s)}
<1>7. t \in SUBSET T /\ Cardinality(t) = n - 1
  BY <1>1, <1>4, <1>6, FS_RemoveElement
<1>8. h[t] = Total(t)
  <2>1. Cardinality(t) \notin wrong
    BY <1>1, <1>3, <1>7
  <2> QED
    BY <1>1, <1>7, <2>1
<1>9. h[s] = Chosen(s).cost + h[t]
  <2>1. s \in SUBSET S
    OBVIOUS
  <2> QED
    BY <1>5, <2>1 DEF Sums
<1>10. Total(s) = Chosen(s).cost + Total(t)
  BY <1>5 DEF Follows
<1> QED
  BY <1>4, <1>8, <1>9, <1>10

LEMMA TotalFollows ==
    ASSUME NEW S, IsFiniteSet(S)
    PROVE  Follows(S)
<1> SUFFICES ASSUME ~Follows(S) PROVE FALSE
  OBVIOUS
<1> DEFINE wrong == {n \in Nat : \E s \in SUBSET S : Cardinality(s) = n /\ ~Follows(s)}
<1>1. ASSUME NEW s \in SUBSET S PROVE IsFiniteSet(s) /\ Cardinality(s) \in Nat
  BY FS_Subset, FS_CardinalityType
<1>2. Cardinality(S) \in wrong
  BY <1>1
<1>3. PICK n \in wrong : \A m \in wrong : n <= m
  <2> wrong \in SUBSET Nat
    OBVIOUS
  <2> HIDE DEF wrong
  <2> QED
    BY <1>2, Least
<1>4. PICK T \in SUBSET S : Cardinality(T) = n /\ ~Follows(T)
  BY <1>3
<1>5. ASSUME NEW s \in SUBSET T, s # T PROVE Follows(s)
  <2>1. Cardinality(s) < n /\ s \in SUBSET S
    BY <1>1, <1>4, <1>5, FS_Subset
  <2>2. Cardinality(s) \notin wrong
    BY <1>1, <1>3, <2>1
  <2> QED
    BY <1>1, <2>1, <2>2
<1> DEFINE f == [s \in SUBSET T |-> Total(s)]
           g == [s \in SUBSET T |-> IF s = {} THEN 0 ELSE Chosen(s).cost + Total(s \ {Chosen(s)})]
<1>6. ASSUME NEW s \in SUBSET T, s # {} PROVE Chosen(s) \in s
  BY <1>6 DEF Chosen
<1>7. Sums(T, g)
  <2>1. ASSUME NEW s \in SUBSET T, s # {} PROVE g[s \ {Chosen(s)}] = Total(s \ {Chosen(s)})
    <3>1. s \ {Chosen(s)} \in SUBSET T /\ s \ {Chosen(s)} # T
      BY <1>6, <2>1
    <3>2. Follows(s \ {Chosen(s)})
      BY <1>5, <3>1
    <3> QED
      BY <3>1, <3>2 DEF Follows
  <2>2. ASSUME NEW s \in SUBSET T
        PROVE g[s] = IF s = {} THEN 0 ELSE Chosen(s).cost + g[s \ {Chosen(s)}]
    BY <2>1
  <2> HIDE DEF g
  <2>3. g = [s \in SUBSET T |-> g[s]]
    BY DEF g
  <2> QED
    BY <2>2, <2>3 DEF Sums
<1>8. PICK h : h = (CHOOSE f1 : Sums(T, f1)) /\ Sums(T, h)
  BY <1>7
<1>9. Total(T) = h[T]
  BY <1>8, TotalDef
<1>10. CASE T = {}
  BY <1>4, <1>8, <1>9, <1>10 DEF Sums, Follows
<1>11. CASE T # {}
  <2> DEFINE t == T \ {Chosen(T)}
  <2>1. t \in SUBSET T /\ t # T
    BY <1>6, <1>11
  <2>2. \A s \in SUBSET t : Follows(s)
    BY <1>5, <2>1
  <2>3. h[t] = Total(t)
    BY <1>1, <1>8, <2>1, <2>2, OneSolution
  <2>4. h[T] = Chosen(T).cost + h[t]
    BY <1>8, <1>11 DEF Sums
  <2> QED
    BY <1>4, <1>9, <1>11, <2>3, <2>4 DEF Follows
<1> QED
  BY <1>10, <1>11

LEMMA TotalEmpty == Total({}) = 0
BY TotalFollows, FS_EmptySet DEF Follows

(* The sum of costs does not depend on the order they are taken in. *)
LEMMA TotalWithout ==
    ASSUME NEW S, IsFiniteSet(S), \A s \in S : s.cost \in Nat
    PROVE  Total(S) \in Nat /\ \A x \in S : Total(S) = x.cost + Total(S \ {x})
<1> DEFINE Good(T) == Total(T) \in Nat /\ \A x \in T : Total(T) = x.cost + Total(T \ {x})
<1> SUFFICES ASSUME ~Good(S) PROVE FALSE
  OBVIOUS
<1> DEFINE wrong == {n \in Nat : \E s \in SUBSET S : Cardinality(s) = n /\ ~Good(s)}
<1> HIDE DEF Good
<1>1. ASSUME NEW s \in SUBSET S PROVE IsFiniteSet(s) /\ Cardinality(s) \in Nat
  BY FS_Subset, FS_CardinalityType
<1>2. Cardinality(S) \in wrong
  BY <1>1
<1>3. PICK n \in wrong : \A m \in wrong : n <= m
  <2> wrong \in SUBSET Nat
    OBVIOUS
  <2> HIDE DEF wrong
  <2> QED
    BY <1>2, Least
<1>4. PICK T \in SUBSET S : Cardinality(T) = n /\ ~Good(T)
  BY <1>3
<1>5. ASSUME NEW s \in SUBSET T, s # T PROVE Good(s)
  <2>1. Cardinality(s) < n /\ s \in SUBSET S
    BY <1>1, <1>4, <1>5, FS_Subset
  <2>2. Cardinality(s) \notin wrong
    BY <1>1, <1>3, <2>1
  <2> QED
    BY <1>1, <2>1, <2>2
<1>6. Follows(T)
  BY <1>1, TotalFollows
<1>7. T # {}
  BY <1>4, <1>6, SMT DEF Good, Follows
<1> DEFINE c == Chosen(T)
<1>8. c \in T
  BY <1>7 DEF Chosen
<1> HIDE DEF c
<1>9. Total(T) = c.cost + Total(T \ {c})
  BY <1>6, <1>7 DEF Follows, c
<1>10. Total(T \ {c}) \in Nat /\ c.cost \in Nat
  BY <1>5, <1>8 DEF Good
<1>11. ASSUME NEW x \in T PROVE Total(T) = x.cost + Total(T \ {x})
  <2>1. CASE x = c
    BY <1>9, <2>1
  <2>2. CASE x # c
    <3>1. Total(T \ {c}) = x.cost + Total((T \ {c}) \ {x})
      BY <1>5, <1>8, <2>2 DEF Good
    <3>2. Total(T \ {x}) = c.cost + Total((T \ {x}) \ {c})
      BY <1>5, <1>8, <2>2 DEF Good
    <3>3. (T \ {c}) \ {x} = (T \ {x}) \ {c}
      OBVIOUS
    <3>4. Total((T \ {c}) \ {x}) \in Nat
      BY <1>5, <1>8 DEF Good
    <3>5. x.cost \in Nat
      OBVIOUS
    <3> DEFINE a == Total((T \ {c}) \ {x})
    <3>6. Total((T \ {x}) \ {c}) = a
      BY <3>3
    <3> HIDE DEF a
    <3> QED
      BY <1>9, <1>10, <3>1, <3>2, <3>4, <3>5, <3>6 DEF a
  <2> QED
    BY <2>1, <2>2
<1>12. Total(T) \in Nat
  BY <1>9, <1>10
<1> QED
  BY <1>4, <1>11, <1>12 DEF Good

LEMMA TotalWith ==
    ASSUME NEW S, IsFiniteSet(S), \A s \in S : s.cost \in Nat, NEW x, x \notin S, x.cost \in Nat
    PROVE  Total(S \union {x}) = Total(S) + x.cost
<1>1. IsFiniteSet(S \union {x})
  BY FS_AddElement
<1>2. \A s \in S \union {x} : s.cost \in Nat
  OBVIOUS
<1>3. \A y \in S \union {x} : Total(S \union {x}) = y.cost + Total((S \union {x}) \ {y})
  BY <1>1, <1>2, TotalWithout
<1>4. (S \union {x}) \ {x} = S
  OBVIOUS
<1>5. Total(S) \in Nat
  BY TotalWithout
<1>6. Total(S \union {x}) = x.cost + Total(S)
  BY <1>3, <1>4
<1> QED
  BY <1>5, <1>6

LEMMA TotalGrows ==
    ASSUME NEW S, IsFiniteSet(S), \A s \in S : s.cost \in Nat, NEW T \in SUBSET S
    PROVE  Total(T) <= Total(S)
<1> SUFFICES ASSUME ~(Total(T) <= Total(S)) PROVE FALSE
  OBVIOUS
<1> DEFINE wrong == {n \in Nat : \E s \in SUBSET S : T \subseteq s /\ Cardinality(s) = n /\ ~(Total(T) <= Total(s))}
<1>1. ASSUME NEW s \in SUBSET S PROVE IsFiniteSet(s) /\ Cardinality(s) \in Nat /\ Total(s) \in Nat
  BY FS_Subset, FS_CardinalityType, TotalWithout
<1>2. Cardinality(S) \in wrong
  BY <1>1
<1>3. PICK n \in wrong : \A m \in wrong : n <= m
  <2> wrong \in SUBSET Nat
    OBVIOUS
  <2> HIDE DEF wrong
  <2> QED
    BY <1>2, Least
<1>4. PICK s \in SUBSET S : T \subseteq s /\ Cardinality(s) = n /\ ~(Total(T) <= Total(s))
  BY <1>3
<1>5. PICK x \in s : x \notin T
  <2>1. s # T
    BY <1>1, <1>4
  <2> QED
    BY <1>4, <2>1
<1>6. Total(s) = x.cost + Total(s \ {x})
  BY <1>1, <1>5, TotalWithout
<1>7. s \ {x} \in SUBSET S /\ T \subseteq s \ {x} /\ Cardinality(s \ {x}) = n - 1
  BY <1>1, <1>4, <1>5, FS_RemoveElement
<1>8. n - 1 \notin wrong
  BY <1>1, <1>3, <1>7
<1>9. Total(T) <= Total(s \ {x})
  BY <1>1, <1>7, <1>8
<1>10. x.cost \in Nat /\ Total(T) \in Nat /\ Total(s) \in Nat /\ Total(s \ {x}) \in Nat
  BY <1>1, <1>5, <1>7
<1> QED
  BY <1>4, <1>6, <1>9, <1>10

(* What is left of a set from which an element was taken, or replaced.     *)
LEMMA Taken ==
    ASSUME NEW S, IsFiniteSet(S), NEW x \in S
    PROVE  /\ IsFiniteSet(S \ {x}) /\ Cardinality(S) \in Nat
           /\ Cardinality(S \ {x}) \in Nat /\ Cardinality(S \ {x}) + 1 = Cardinality(S)
<1>1. IsFiniteSet(S \ {x}) /\ Cardinality(S \ {x}) = Cardinality(S) - 1
  BY FS_RemoveElement
<1>2. Cardinality(S) \in Nat /\ Cardinality(S \ {x}) \in Nat
  BY <1>1, FS_CardinalityType
<1> QED
  BY <1>1, <1>2

LEMMA Added ==
    ASSUME NEW S, IsFiniteSet(S), NEW x
    PROVE  /\ IsFiniteSet(S \union {x}) /\ Cardinality(S) \in Nat
           /\ Cardinality(S \union {x}) \in Nat /\ Cardinality(S \union {x}) <= Cardinality(S) + 1
<1>1. IsFiniteSet(S \union {x})
      /\ Cardinality(S \union {x}) = IF x \in S THEN Cardinality(S) ELSE Cardinality(S) + 1
  BY FS_AddElement
<1>2. Cardinality(S) \in Nat /\ Cardinality(S \union {x}) \in Nat
  BY <1>1, FS_CardinalityType
<1> QED
  BY <1>1, <1>2

LEMMA Replaced ==
    ASSUME NEW S, IsFiniteSet(S), NEW x \in S, NEW y
    PROVE  /\ IsFiniteSet((S \ {x}) \union {y}) /\ Cardinality((S \ {x}) \union {y}) \in Nat
           /\ Cardinality((S \ {x}) \union {y}) <= Cardinality(S)
<1> DEFINE T == S \ {x}
<1>1. IsFiniteSet(T) /\ Cardinality(S) \in Nat /\ Cardinality(T) \in Nat /\ Cardinality(T) + 1 = Cardinality(S)
  BY Taken
<1> HIDE DEF T
<1>2. IsFiniteSet(T \union {y}) /\ Cardinality(T \union {y}) \in Nat
      /\ Cardinality(T \union {y}) <= Cardinality(T) + 1
  BY <1>1, Added
<1> QED
  BY <1>1, <1>2 DEF T

LEMMA Fewer ==
    ASSUME NEW S, IsFiniteSet(S), NEW T \in SUBSET S
    PROVE  IsFiniteSet(T) /\ Cardinality(S) \in Nat /\ Cardinality(T) \in Nat /\ Cardinality(T) <= Cardinality(S)
BY FS_Subset, FS_CardinalityType

(* Products with the most one question may cost. *)
LEMMA Times ==
    ASSUME NEW n \in Nat
    PROVE  MostCost * n \in Nat /\ MostCost * (n + 1) = MostCost * n + MostCost
BY RunnerAssumption

LEMMA Scaled ==
    ASSUME NEW n \in Nat, NEW k \in Nat, n <= k
    PROVE  MostCost * n <= MostCost * k
<1> DEFINE d == k - n
<1>1. d \in Nat /\ MostCost \in Nat /\ k = n + d
  BY RunnerAssumption
<1> HIDE DEF d
<1>2. MostCost * k = MostCost * n + MostCost * d
  BY <1>1
<1>3. MostCost * n \in Nat /\ MostCost * d \in Nat
  BY <1>1
<1> QED
  BY <1>2, <1>3
-----------------------------------------------------------------------------
(* What is in flight fits the slots, at no more than the most it may cost. *)
FlightsFit ==
    /\ setting \in Settings
    /\ IsFiniteSet(flying) /\ Cardinality(flying) <= Slots
    /\ \A s \in flying : s.cost \in 0 .. MostCost

(* A run that is over its cap dispatches once more at most: what it spent  *)
(* and what its samples in flight may still cost stay within the cap, the  *)
(* slots and that one.                                                     *)
SpendsOn(r) ==
    /\ run[r].spent \in Nat /\ run[r].late \in {0, 1}
    /\ run[r].late = 1 => run[r].spent >= Cap /\ run[r].at # "acquire"
    /\ run[r].spent + MostCost * Cardinality(Flying(r)) <= Cap + MostCost * (Slots + run[r].late)

RunSpend == FlightsFit /\ \A r \in Runs : SpendsOn(r)

LEMMA FlyingFits ==
    ASSUME FlightsFit, NEW r \in Runs
    PROVE  IsFiniteSet(Flying(r)) /\ Cardinality(Flying(r)) \in Nat /\ Cardinality(Flying(r)) <= Slots
<1>1. Flying(r) \in SUBSET flying
  BY DEF Flying
<1>2. IsFiniteSet(Flying(r)) /\ Cardinality(Flying(r)) \in Nat /\ Cardinality(Flying(r)) <= Cardinality(flying)
      /\ Cardinality(flying) \in Nat
  BY <1>1, Fewer DEF FlightsFit
<1> QED
  BY <1>2, RunnerAssumption DEF FlightsFit

(* Less in flight, nothing more spent. *)
LEMMA SpendsSame ==
    ASSUME NEW r \in Runs, SpendsOn(r), run'[r].spent = run[r].spent, run'[r].late = run[r].late,
           run'[r].at = "acquire" => run[r].at = "acquire" \/ run[r].spent < Cap,
           Cardinality(Flying(r)) \in Nat, Cardinality(Flying(r)') \in Nat,
           Cardinality(Flying(r)') <= Cardinality(Flying(r))
    PROVE  SpendsOn(r)'
<1> DEFINE n == Cardinality(Flying(r))
           k == Cardinality(Flying(r)')
<1>1. MostCost * k <= MostCost * n /\ MostCost * k \in Nat /\ MostCost * n \in Nat
  BY Scaled, Times
<1>2. Cap + MostCost * (Slots + run[r].late) \in Nat
  <2>1. Slots + run[r].late \in Nat
    BY RunnerAssumption DEF SpendsOn
  <2> QED
    BY <2>1, Times, RunnerAssumption
<1>3. run[r].spent + MostCost * n <= Cap + MostCost * (Slots + run[r].late)
  BY DEF SpendsOn
<1> HIDE DEF n, k
<1>4. run[r].spent + MostCost * k <= Cap + MostCost * (Slots + run[r].late)
  BY <1>1, <1>2, <1>3 DEF SpendsOn
<1>5. run'[r].spent + MostCost * Cardinality(Flying(r)') <= Cap + MostCost * (Slots + run'[r].late)
  BY <1>4 DEF k
<1>6. run'[r].late = 1 => run'[r].spent >= Cap /\ run'[r].at # "acquire"
  BY RunnerAssumption DEF SpendsOn
<1> QED
  BY <1>5, <1>6 DEF SpendsOn

LEMMA SpendInit == Init => RunSpend
<1> SUFFICES ASSUME Init PROVE RunSpend
  OBVIOUS
<1>1. FlightsFit
  BY FS_EmptySet, RunnerAssumption DEF Init, RunnerInit, FlightsFit
<1>2. ASSUME NEW r \in Runs PROVE SpendsOn(r)
  <2>1. Flying(r) = {} /\ run[r].spent = 0 /\ run[r].late = 0
    BY DEF Init, RunnerInit, Flying, Asleep
  <2>2. MostCost * 0 = 0 /\ MostCost * Slots \in Nat /\ Cap \in Nat /\ Slots + 0 = Slots
    BY RunnerAssumption
  <2>3. Cardinality(Flying(r)) = 0
    BY <2>1, FS_EmptySet
  <2>4. run[r].spent + MostCost * Cardinality(Flying(r)) <= Cap + MostCost * (Slots + run[r].late)
    BY <2>1, <2>2, <2>3
  <2> QED
    BY <2>1, <2>4 DEF SpendsOn
<1> QED
  BY <1>1, <1>2 DEF RunSpend

(* A step that leaves the samples in flight alone. *)
LEMMA SpendUnflown ==
    ASSUME RunSpend, UNCHANGED <<flying, setting>>,
           \A r \in Runs : /\ run'[r].spent = run[r].spent /\ run'[r].late = run[r].late
                           /\ run'[r].at = "acquire" => run[r].at = "acquire" \/ run[r].spent < Cap
    PROVE  RunSpend'
<1>1. FlightsFit'
  BY DEF RunSpend, FlightsFit
<1>2. ASSUME NEW r \in Runs PROVE SpendsOn(r)'
  <2>1. Flying(r)' = Flying(r)
    BY DEF Flying
  <2>2. Cardinality(Flying(r)) \in Nat
    BY FlyingFits DEF RunSpend
  <2> QED
    BY <2>1, <2>2, SpendsSame DEF RunSpend
<1> QED
  BY <1>1, <1>2 DEF RunSpend

(* A sample in flight becomes another of the same run. *)
LEMMA SpendStep ==
    ASSUME RunSpend, EvalInv, NEW s \in flying, NEW t, Step(s, t), t.run = s.run, t.cost \in 0 .. MostCost,
           UNCHANGED <<run, setting>>
    PROVE  RunSpend'
<1>1. flying' = (flying \ {s}) \union {t}
  BY DEF Step
<1>2. IsFiniteSet(flying') /\ Cardinality(flying') \in Nat /\ Cardinality(flying') <= Cardinality(flying)
      /\ Cardinality(flying) \in Nat
  BY <1>1, Replaced, Taken DEF RunSpend, FlightsFit
<1>3. FlightsFit'
  BY <1>1, <1>2, RunnerAssumption DEF RunSpend, FlightsFit
<1>4. ASSUME NEW r \in Runs PROVE SpendsOn(r)'
  <2>1. IsFiniteSet(Flying(r)) /\ Cardinality(Flying(r)) \in Nat
    BY FlyingFits DEF RunSpend
  <2>2. CASE s.run = r
    <3>1. s \in Flying(r) /\ Flying(r)' = (Flying(r) \ {s}) \union {t}
      BY <1>1, <2>2 DEF Flying
    <3>2. Cardinality(Flying(r)') \in Nat /\ Cardinality(Flying(r)') <= Cardinality(Flying(r))
      BY <2>1, <3>1, Replaced
    <3> QED
      BY <2>1, <3>2, SpendsSame DEF RunSpend
  <2>3. CASE s.run # r
    <3>1. Flying(r)' = Flying(r)
      BY <1>1, <2>3 DEF Flying
    <3> QED
      BY <2>1, <3>1, SpendsSame DEF RunSpend
  <2> QED
    BY <2>2, <2>3
<1> QED
  BY <1>3, <1>4 DEF RunSpend

LEMMA SpendDispatch ==
    ASSUME RunSpend, EvalInv, NEW q \in Runs, Dispatch(q)
    PROVE  RunSpend'
<1>1. PICK t : /\ flying' = flying \union {t} /\ t.run = q /\ t.cost = 0
               /\ \A r \in Runs : /\ run'[r].spent = run[r].spent
                                  /\ r # q => run'[r] = run[r]
               /\ run'[q].at = "check"
               /\ run'[q].late = IF run[q].spent >= Cap THEN run[q].late + 1 ELSE run[q].late
  <2> DEFINE c == First(run[q].cells)
             u == [run |-> q, cell |-> c, at |-> "ask", ok |-> FALSE, cost |-> 0]
             late == IF run[q].spent >= Cap THEN run[q].late + 1 ELSE run[q].late
  <2>1. flying' = flying \union {u} 
        /\ run' = [run EXCEPT ![q].at = "check", ![q].cells = @ \ {c}, ![q].late = late]
    BY DEF Dispatch
  <2>2. u.run = q /\ u.cost = 0
    OBVIOUS
  <2> HIDE DEF u, c, late
  <2>3. \A r \in Runs : run'[r].spent = run[r].spent /\ (r # q => run'[r] = run[r])
    BY <2>1 DEF EvalInv, Shapes
  <2>4. run'[q].at = "check" /\ run'[q].late = late
    BY <2>1 DEF EvalInv, Shapes
  <2> QED
    BY <2>1, <2>2, <2>3, <2>4 DEF late
<1>2. run[q].at = "acquire" /\ Cardinality(flying) < Slots /\ setting' = setting
  BY DEF Dispatch
<1>3. IsFiniteSet(flying') /\ Cardinality(flying) \in Nat /\ Cardinality(flying') \in Nat
      /\ Cardinality(flying') <= Cardinality(flying) + 1
  BY <1>1, Added DEF RunSpend, FlightsFit
<1>4. Slots \in Nat /\ Cap \in Nat /\ MostCost \in Nat
  BY RunnerAssumption
<1>5. FlightsFit'
  <2>1. \A s \in flying' : s.cost \in 0 .. MostCost
    BY <1>1, <1>4 DEF RunSpend, FlightsFit
  <2> QED
    BY <1>2, <1>3, <1>4, <2>1 DEF RunSpend, FlightsFit
<1>6. ASSUME NEW r \in Runs, r # q PROVE SpendsOn(r)'
  <2>1. Flying(r)' = Flying(r)
    BY <1>1, <1>6 DEF Flying
  <2>2. Cardinality(Flying(r)) \in Nat
    BY FlyingFits DEF RunSpend
  <2>3. run'[r] = run[r]
    BY <1>1, <1>6
  <2> QED
    BY <2>1, <2>2, <2>3, SpendsSame DEF RunSpend
<1>7. SpendsOn(q)'
  <2> DEFINE n == Cardinality(Flying(q))
             k == Cardinality(Flying(q)')
  <2>1. n \in Nat /\ k \in Nat /\ k <= n + 1
    <3>1. Flying(q)' = Flying(q) \union {t} /\ IsFiniteSet(Flying(q))
      BY <1>1, FlyingFits DEF Flying, RunSpend
    <3> QED
      BY <3>1, Added
  <2>2. k <= Slots
    <3>1. Flying(q)' \in SUBSET flying'
      BY DEF Flying
    <3>2. k <= Cardinality(flying')
      BY <1>3, <3>1, Fewer
    <3> QED
      BY <1>2, <1>3, <1>4, <2>1, <3>2
  <2>3. run[q].spent \in Nat /\ run[q].late \in {0, 1} /\ (run[q].late = 1 => run[q].at # "acquire")
        /\ run[q].spent + MostCost * n <= Cap + MostCost * (Slots + run[q].late)
    BY DEF RunSpend, SpendsOn
  <2>4. run[q].late = 0 /\ run[q].spent + MostCost * n <= Cap + MostCost * Slots
    BY <1>2, <1>4, <2>3
  <2> HIDE DEF n, k
  <2>5. MostCost * k \in Nat /\ MostCost * k <= MostCost * Slots /\ MostCost * k <= MostCost * n + MostCost
        /\ MostCost * n \in Nat /\ MostCost * Slots \in Nat
        /\ MostCost * (Slots + 1) = MostCost * Slots + MostCost /\ Slots + 0 = Slots
    BY <1>4, <2>1, <2>2, Scaled, Times
  <2>6. CASE run[q].spent >= Cap
    <3>1. run'[q].late = 1 /\ run'[q].spent = run[q].spent
      BY <1>1, <2>4, <2>6
    <3>2. run[q].spent + MostCost * k <= Cap + MostCost * (Slots + 1)
      BY <1>4, <2>3, <2>4, <2>5
    <3>3. run'[q].spent + MostCost * Cardinality(Flying(q)') <= Cap + MostCost * (Slots + run'[q].late)
      BY <3>1, <3>2 DEF k
    <3> QED
      BY <1>1, <2>3, <2>6, <3>1, <3>3 DEF SpendsOn
  <2>7. CASE run[q].spent < Cap
    <3>1. run'[q].late = 0 /\ run'[q].spent = run[q].spent
      BY <1>1, <1>4, <2>3, <2>4, <2>7
    <3>2. run[q].spent + MostCost * k <= Cap + MostCost * (Slots + 0)
      BY <1>4, <2>3, <2>5, <2>7
    <3>3. run'[q].spent + MostCost * Cardinality(Flying(q)') <= Cap + MostCost * (Slots + run'[q].late)
      BY <3>1, <3>2 DEF k
    <3> QED
      BY <1>1, <2>3, <3>1, <3>3 DEF SpendsOn
  <2> QED
    BY <1>4, <2>3, <2>6, <2>7
<1> QED
  BY <1>5, <1>6, <1>7 DEF RunSpend

LEMMA SpendFold ==
    ASSUME RunSpend, EvalInv, NEW s \in flying, Fold(s)
    PROVE  RunSpend'
<1>1. flying' = flying \ {s} /\ setting' = setting /\ run' = [run EXCEPT ![s.run].spent = @ + s.cost]
  BY DEF Fold
<1>2. s.run \in Runs /\ s.cost \in 0 .. MostCost /\ MostCost \in Nat
  BY RunnerAssumption DEF EvalInv, Shapes, RunSpend, FlightsFit
<1>3. /\ run'[s.run].spent = run[s.run].spent + s.cost
      /\ run'[s.run].late = run[s.run].late /\ run'[s.run].at = run[s.run].at
      /\ \A r \in Runs : r # s.run => run'[r] = run[r]
  BY <1>1, <1>2 DEF EvalInv, Shapes
<1>4. FlightsFit'
  <2>1. IsFiniteSet(flying') /\ Cardinality(flying') + 1 = Cardinality(flying) /\ Cardinality(flying') \in Nat
    BY <1>1, Taken DEF RunSpend, FlightsFit
  <2>2. \A f \in flying' : f.cost \in 0 .. MostCost
    BY <1>1 DEF RunSpend, FlightsFit
  <2> QED
    BY <1>1, <2>1, <2>2, RunnerAssumption DEF RunSpend, FlightsFit
<1>5. ASSUME NEW r \in Runs, r # s.run PROVE SpendsOn(r)'
  <2>1. Flying(r)' = Flying(r)
    BY <1>1, <1>5 DEF Flying
  <2>2. Cardinality(Flying(r)) \in Nat
    BY FlyingFits DEF RunSpend
  <2>3. run'[r] = run[r]
    BY <1>3, <1>5
  <2> QED
    BY <2>1, <2>2, <2>3, SpendsSame DEF RunSpend
<1>6. SpendsOn(s.run)'
  <2> DEFINE n == Cardinality(Flying(s.run))
             k == Cardinality(Flying(s.run)')
  <2>1. n \in Nat /\ k \in Nat /\ k + 1 = n
    <3>1. s \in Flying(s.run) /\ Flying(s.run)' = Flying(s.run) \ {s} /\ IsFiniteSet(Flying(s.run))
      BY <1>1, <1>2, FlyingFits DEF Flying, RunSpend
    <3> QED
      BY <3>1, Taken
  <2>2. /\ run[s.run].spent \in Nat /\ run[s.run].late \in {0, 1}
        /\ run[s.run].late = 1 => run[s.run].spent >= Cap /\ run[s.run].at # "acquire"
        /\ run[s.run].spent + MostCost * n <= Cap + MostCost * (Slots + run[s.run].late)
    BY <1>2 DEF RunSpend, SpendsOn
  <2> HIDE DEF n, k
  <2>3. MostCost * n = MostCost * k + MostCost /\ MostCost * k \in Nat
    BY <2>1, Times
  <2>4. Cap \in Nat /\ Cap + MostCost * (Slots + run[s.run].late) \in Nat
    <3>1. Slots + run[s.run].late \in Nat /\ Cap \in Nat
      BY <2>2, RunnerAssumption
    <3> DEFINE m == Slots + run[s.run].late
    <3> HIDE DEF m
    <3>2. m \in Nat
      BY <3>1 DEF m
    <3>3. MostCost * m \in Nat
      BY <3>2, Times
    <3>4. MostCost * (Slots + run[s.run].late) \in Nat
      BY <3>3 DEF m
    <3> QED
      BY <3>1, <3>4
  <2> DEFINE bound == Cap + MostCost * (Slots + run[s.run].late)
  <2> HIDE DEF bound
  <2>5. run[s.run].spent + MostCost * n <= bound /\ bound \in Nat
    BY <2>2, <2>4 DEF bound
  <2>6. run[s.run].spent + s.cost + MostCost * k <= bound
    BY <1>2, <2>2, <2>3, <2>5
  <2>7. run'[s.run].spent + MostCost * Cardinality(Flying(s.run)') <= Cap + MostCost * (Slots + run'[s.run].late)
    BY <1>3, <2>6 DEF bound, k
  <2>8. run'[s.run].spent \in Nat /\ (run[s.run].spent >= Cap => run'[s.run].spent >= Cap)
    BY <1>2, <1>3, <2>2, <2>4
  <2> QED
    BY <1>3, <2>2, <2>7, <2>8 DEF SpendsOn
<1> QED
  BY <1>4, <1>5, <1>6 DEF RunSpend

(* What the goroutine of a run does to the spend. *)
LEMMA SpendRun ==
    ASSUME RunSpend, EvalInv, NEW q \in Runs, Create(q) \/ RunStep(q) \/ Stop(q)
    PROVE  RunSpend'
<1> DEFINE Kept == /\ UNCHANGED <<flying, setting>>
                   /\ \A r \in Runs : /\ run'[r].spent = run[r].spent /\ run'[r].late = run[r].late
                                      /\ run'[r].at = "acquire" => run[r].at = "acquire" \/ run[r].spent < Cap
<1> USE DEF EvalInv, Shapes
<1>1. CASE Create(q)
  <2> Kept
    BY <1>1 DEF Create, Goto
  <2> QED
    BY SpendUnflown
<1>2. CASE Refuse(q) \/ Enter(q) \/ Launch(q) \/ Begin(q)
  <2> Kept
    BY <1>2 DEF Refuse, Enter, Launch, Begin, Goto
  <2> QED
    BY SpendUnflown
<1>3. CASE Prepare(q)
  <2> Kept
    BY <1>3 DEF Prepare
  <2> QED
    BY SpendUnflown
<1>4. CASE Check(q)
  <2> Kept
    <3>1. run[q].spent \in Nat /\ Cap \in Nat
      BY RunnerAssumption DEF RunSpend, SpendsOn
    <3> QED
      BY <1>4, <3>1 DEF Check
  <2> QED
    BY SpendUnflown
<1>5. CASE Dispatch(q)
  BY <1>5, SpendDispatch
<1>6. CASE Abandon(q) \/ Wait(q)
  <2> Kept
    BY <1>6 DEF Abandon, Wait
  <2> QED
    BY SpendUnflown
<1>7. CASE FinalizePairs(q) \/ FinishRun(q) \/ Leave(q)
  <2> Kept
    BY <1>7 DEF FinalizePairs, FinishRun, Leave, Goto
  <2> QED
    BY SpendUnflown
<1>8. CASE Stop(q)
  <2> Kept
    BY <1>8 DEF Stop
  <2> QED
    BY SpendUnflown
<1> QED
  BY <1>1, <1>2, <1>3, <1>4, <1>5, <1>6, <1>7, <1>8 DEF RunStep

LEMMA SpendSample ==
    ASSUME RunSpend, EvalInv, NEW s \in flying, SampleStep(s)
    PROVE  RunSpend'
<1>1. CASE Ask(s)
  <2>1. PICK ok \in BOOLEAN, cost \in setting.costs : Step(s, [s EXCEPT !.at = "bill", !.ok = ok, !.cost = cost])
    BY <1>1 DEF Ask
  <2> DEFINE t == [s EXCEPT !.at = "bill", !.ok = ok, !.cost = cost]
  <2>2. t.run = s.run /\ t.cost = cost
    BY DEF EvalInv, Shapes
  <2>3. cost \in 0 .. MostCost
    BY RunnerAssumption DEF RunSpend, FlightsFit
  <2>4. UNCHANGED <<run, setting>>
    BY <1>1 DEF Ask
  <2> HIDE DEF t
  <2>5. Step(s, t)
    BY <2>1 DEF t
  <2> QED
    BY <2>2, <2>3, <2>4, <2>5, SpendStep
<1>2. CASE AddRunCost(s)
  <2> DEFINE t == [s EXCEPT !.at = "save"]
  <2>1. Step(s, t) /\ UNCHANGED <<run, setting>>
    BY <1>2 DEF AddRunCost
  <2>2. t.run = s.run /\ t.cost = s.cost /\ s.cost \in 0 .. MostCost
    BY DEF EvalInv, Shapes, RunSpend, FlightsFit
  <2> HIDE DEF t
  <2> QED
    BY <2>1, <2>2, SpendStep
<1>3. CASE AddSample(s)
  <2> DEFINE t == [s EXCEPT !.at = "fold"]
  <2>1. Step(s, t) /\ UNCHANGED <<run, setting>>
    BY <1>3 DEF AddSample
  <2>2. t.run = s.run /\ t.cost = s.cost /\ s.cost \in 0 .. MostCost
    BY DEF EvalInv, Shapes, RunSpend, FlightsFit
  <2> HIDE DEF t
  <2> QED
    BY <2>1, <2>2, SpendStep
<1>4. CASE Fold(s)
  BY <1>4, SpendFold
<1> QED
  BY <1>1, <1>2, <1>3, <1>4 DEF SampleStep

LEMMA SpendDown ==
    ASSUME Down
    PROVE  setting \in Settings => RunSpend'
<1> SUFFICES ASSUME setting \in Settings PROVE RunSpend'
  OBVIOUS
<1>1. FlightsFit'
  BY FS_EmptySet, RunnerAssumption DEF Down, FlightsFit
<1>2. ASSUME NEW r \in Runs PROVE SpendsOn(r)'
  <2>1. Flying(r)' = {} /\ run'[r].spent = 0 /\ run'[r].late = 0
    BY DEF Down, Flying, Asleep
  <2>2. MostCost * 0 = 0 /\ MostCost * Slots \in Nat /\ Cap \in Nat /\ Slots + 0 = Slots
    BY RunnerAssumption
  <2>3. Cardinality(Flying(r)') = 0
    BY <2>1, FS_EmptySet
  <2>4. run'[r].spent + MostCost * Cardinality(Flying(r)') <= Cap + MostCost * (Slots + run'[r].late)
    BY <2>1, <2>2, <2>3
  <2> QED
    BY <2>1, <2>4 DEF SpendsOn
<1> QED
  BY <1>1, <1>2 DEF RunSpend

LEMMA SpendKeeps == EvalInv /\ RunSpend /\ [Next]_vars => RunSpend'
<1> SUFFICES ASSUME EvalInv, RunSpend, [Next]_vars PROVE RunSpend'
  OBVIOUS
<1> DEFINE Kept == UNCHANGED <<flying, setting, run>>
<1>1. Kept => RunSpend'
  <2> SUFFICES ASSUME Kept PROVE RunSpend'
    OBVIOUS
  <2> QED
    BY SpendUnflown
<1> HIDE DEF Kept
<1>2. CASE UNCHANGED vars
  BY <1>1, <1>2 DEF vars, runnerVars, memory, Kept
<1>3. ASSUME NEW p \in Passes, PassStep(p) \/ \E q \in Runs : Look(p, q) PROVE Kept
  BY <1>3 DEF PassStep, Look, EnterPass, LaunchPass, NextItem, TakeSlot, LeaveQueue, EndPass, runnerVars, memory, Kept
<1>4. ASSUME NEW g \in grading, GradingStep(g) PROVE Kept
  BY <1>4 DEF GradingStep, Blind, AskBackend, Record, ReadTotal, RecordCost, runnerVars, memory, Kept
<1>5. CASE HaltStep \/ CatchPasses \/ StopPasses \/ Panic \/ Resume \/ \E t \in tasks : DeleteTask(t)
  <2> Kept
    BY <1>5 DEF HaltStep, Catch, StopAll, CatchPasses, StopPasses, Panic, Resume, DeleteTask, memory, Kept
  <2> QED
    BY <1>1
<1>6. CASE ShutdownJudge \/ Shutdown \/ \E i \in AllItems, by \in {Operator, "mcp"} : Mark(i, by)
  <2> Kept
    BY <1>6 DEF ShutdownJudge, Shutdown, Mark, memory, runnerVars, Kept
  <2> QED
    BY <1>1
<1>7. CASE DownWithJudge
  BY <1>7, SpendDown DEF DownWithJudge, Exit, Crash, RunSpend, FlightsFit
<1>8. CASE Next
  BY <1>1, <1>3, <1>4, <1>5, <1>6, <1>7, <1>8, SpendRun, SpendSample DEF Next
<1> QED
  BY <1>2, <1>8

-----------------------------------------------------------------------------
(* The same of judging passes: an item has one question left for each      *)
(* backend it has not asked.                                               *)
Two(p) == {g \in Under(p) : g.at \in {"blind", "decider"}}
One(p) == {g \in Under(p) : g.at \in {"blind", "decider", "model"}}
Left(p) == Cardinality(Two(p)) + Cardinality(One(p))

ItemsFit ==
    /\ setting \in Settings
    /\ IsFiniteSet(grading) /\ tokens \in Nat
    /\ Cardinality(grading) <= tokens /\ tokens <= JudgeSlots

JudgesOn(p) ==
    /\ pass[p].spend \in Nat /\ pass[p].late \in {0, 1}
    /\ pass[p].late = 1 => pass[p].spend >= JudgeCap /\ pass[p].at # "slot"
    /\ pass[p].spend + MostCost * Left(p) <= JudgeCap + MostCost * (2 * JudgeSlots + 2 * pass[p].late)

PassSpend == ItemsFit /\ \A p \in Passes : JudgesOn(p)

LEMMA LeftFits ==
    ASSUME ItemsFit, NEW p \in Passes
    PROVE  /\ Cardinality(Two(p)) \in Nat /\ Cardinality(One(p)) \in Nat /\ Left(p) \in Nat
           /\ IsFiniteSet(Two(p)) /\ IsFiniteSet(One(p))
           /\ Left(p) <= 2 * JudgeSlots
<1>1. Two(p) \in SUBSET grading /\ One(p) \in SUBSET grading
  BY DEF Two, One, Under
<1>2. /\ IsFiniteSet(Two(p)) /\ Cardinality(Two(p)) \in Nat /\ Cardinality(Two(p)) <= Cardinality(grading)
      /\ IsFiniteSet(One(p)) /\ Cardinality(One(p)) \in Nat /\ Cardinality(One(p)) <= Cardinality(grading)
      /\ Cardinality(grading) \in Nat
  BY <1>1, Fewer DEF ItemsFit
<1> QED
  BY <1>2, JudgeAssumption DEF ItemsFit, Left

LEMMA JudgesSame ==
    ASSUME NEW p \in Passes, JudgesOn(p), NEW c \in 0 .. MostCost,
           pass'[p].spend = pass[p].spend + c, pass'[p].late = pass[p].late,
           pass'[p].at = "slot" => pass[p].at = "slot" \/ pass[p].spend < JudgeCap,
           Left(p) \in Nat, Left(p)' \in Nat,
           Left(p)' <= Left(p), c = 0 \/ Left(p)' + 1 <= Left(p),
           c # 0 => pass'[p].at = pass[p].at
    PROVE  JudgesOn(p)'
<1> DEFINE n == Left(p)
           k == Left(p)'
           bound == JudgeCap + MostCost * (2 * JudgeSlots + 2 * pass[p].late)
<1>1. pass[p].spend \in Nat /\ MostCost \in Nat /\ c \in Nat /\ c <= MostCost /\ JudgeCap \in Nat
  BY RunnerAssumption, JudgeAssumption DEF JudgesOn
<1>2. bound \in Nat
  <2> DEFINE m == 2 * JudgeSlots + 2 * pass[p].late
  <2>1. m \in Nat
    BY JudgeAssumption DEF JudgesOn
  <2> HIDE DEF m
  <2>2. MostCost * m \in Nat
    BY <2>1, Times
  <2>3. bound = JudgeCap + MostCost * m
    BY DEF m
  <2> HIDE DEF bound
  <2> QED
    BY <1>1, <2>2, <2>3
<1>3. pass[p].spend + MostCost * n <= bound
  BY DEF JudgesOn
<1> HIDE DEF n, k, bound
<1>4. pass[p].spend + c + MostCost * k <= bound
  <2>1. MostCost * k \in Nat /\ MostCost * n \in Nat
    BY Times DEF n, k
  <2>2. CASE c = 0
    <3>1. MostCost * k <= MostCost * n
      BY Scaled DEF n, k
    <3> QED
      BY <1>1, <1>2, <1>3, <2>1, <2>2, <3>1
  <2>3. CASE k + 1 <= n
    <3>1. MostCost * (k + 1) <= MostCost * n /\ MostCost * (k + 1) = MostCost * k + MostCost
      BY <2>3, Scaled, Times DEF n, k
    <3> QED
      BY <1>1, <1>2, <1>3, <2>1, <3>1
  <2> QED
    BY <2>2, <2>3 DEF n, k
<1>5. pass'[p].spend + MostCost * Left(p)' <= JudgeCap + MostCost * (2 * JudgeSlots + 2 * pass'[p].late)
  BY <1>4 DEF bound, k
<1>6. pass'[p].late = 1 => pass'[p].spend >= JudgeCap /\ pass'[p].at # "slot"
  BY <1>1 DEF JudgesOn
<1>7. pass'[p].spend \in Nat /\ pass'[p].late \in {0, 1}
  BY <1>1 DEF JudgesOn
<1> QED
  BY <1>5, <1>6, <1>7 DEF JudgesOn

LEMMA JudgeInit == Init => PassSpend
<1> SUFFICES ASSUME Init PROVE PassSpend
  OBVIOUS
<1>1. ItemsFit
  BY FS_EmptySet, JudgeAssumption DEF Init, RunnerInit, ItemsFit
<1>2. ASSUME NEW p \in Passes PROVE JudgesOn(p)
  <2>1. Two(p) = {} /\ One(p) = {} /\ pass[p].spend = 0 /\ pass[p].late = 0
    BY DEF Init, Two, One, Under, Unstarted
  <2>2. Left(p) = 0
    BY <2>1, FS_EmptySet DEF Left
  <2>3. JudgeCap \in Nat /\ MostCost * (2 * JudgeSlots) \in Nat /\ MostCost * 0 = 0
        /\ 2 * JudgeSlots + 2 * 0 = 2 * JudgeSlots
    BY JudgeAssumption, RunnerAssumption
  <2>4. pass[p].spend + MostCost * Left(p) <= JudgeCap + MostCost * (2 * JudgeSlots + 2 * pass[p].late)
    BY <2>1, <2>2, <2>3
  <2> QED
    BY <2>1, <2>4 DEF JudgesOn
<1> QED
  BY <1>1, <1>2 DEF PassSpend

(* A step that leaves the items being graded alone. *)
LEMMA JudgeUnasked ==
    ASSUME PassSpend, UNCHANGED <<grading, setting>>, tokens' \in Nat, tokens' >= tokens, tokens' <= JudgeSlots,
           \A p \in Passes : /\ pass'[p].spend = pass[p].spend /\ pass'[p].late = pass[p].late
                             /\ pass'[p].at = "slot" => pass[p].at = "slot" \/ pass[p].spend < JudgeCap
    PROVE  PassSpend'
<1>1. ItemsFit'
  <2>1. Cardinality(grading) \in Nat
    BY FS_CardinalityType DEF PassSpend, ItemsFit
  <2> QED
    BY <2>1, JudgeAssumption DEF PassSpend, ItemsFit
<1>2. ASSUME NEW p \in Passes PROVE JudgesOn(p)'
  <2>1. Left(p)' = Left(p) /\ Left(p) \in Nat
    BY LeftFits DEF PassSpend, Left, Two, One, Under
  <2>2. JudgesOn(p) /\ 0 \in 0 .. MostCost /\ pass'[p].spend = pass[p].spend + 0
    BY RunnerAssumption DEF PassSpend, JudgesOn
  <2> QED
    BY <2>1, <2>2, JudgesSame
<1> QED
  BY <1>1, <1>2 DEF PassSpend

(* The stages of an item, by the questions it has left. *)
Questions(at) == IF at \in {"blind", "decider"} THEN 2 ELSE IF at = "model" THEN 1 ELSE 0

(* An item goes on, asks at most one question on the way, and none again. *)
LEMMA JudgeStep ==
    ASSUME PassSpend, EvalInv, NEW g \in grading, NEW h, GradeStep(g, h), h.pass = g.pass,
           NEW c \in 0 .. MostCost, UNCHANGED <<tokens, setting>>,
           Questions(h.at) <= Questions(g.at), c = 0 \/ Questions(h.at) + 1 <= Questions(g.at),
           pass'[g.pass].spend = pass[g.pass].spend + c,
           \A p \in Passes : /\ p # g.pass => pass'[p].spend = pass[p].spend
                             /\ pass'[p].late = pass[p].late /\ pass'[p].at = pass[p].at
    PROVE  PassSpend'
<1>1. grading' = (grading \ {g}) \union {h} /\ g.pass \in Passes
  BY DEF GradeStep, EvalInv, Shapes
<1>2. IsFiniteSet(grading') /\ Cardinality(grading') \in Nat /\ Cardinality(grading') <= Cardinality(grading)
      /\ Cardinality(grading) \in Nat
  BY <1>1, Replaced, Taken DEF PassSpend, ItemsFit
<1>3. ItemsFit'
  BY <1>2, JudgeAssumption DEF PassSpend, ItemsFit
<1>4. ASSUME NEW p \in Passes, p # g.pass PROVE JudgesOn(p)'
  <2>1. Two(p)' = Two(p) /\ One(p)' = One(p)
    BY <1>1, <1>4 DEF Two, One, Under
  <2>2. Left(p)' = Left(p) /\ Left(p) \in Nat
    BY <2>1, LeftFits DEF PassSpend, Left
  <2>3. JudgesOn(p) /\ 0 \in 0 .. MostCost /\ pass'[p].spend = pass[p].spend + 0
    BY <1>4, RunnerAssumption DEF PassSpend, JudgesOn
  <2> QED
    BY <2>2, <2>3, JudgesSame
<1>5. JudgesOn(g.pass)'
  <2> DEFINE p == g.pass
  <2>1. /\ IsFiniteSet(Two(p)) /\ IsFiniteSet(One(p)) /\ Left(p) \in Nat
        /\ Cardinality(Two(p)) \in Nat /\ Cardinality(One(p)) \in Nat
        /\ Left(p) = Cardinality(Two(p)) + Cardinality(One(p))
    BY <1>1, LeftFits DEF PassSpend, Left
  <2>2. Left(p)' = Cardinality(Two(p)') + Cardinality(One(p)')
    BY DEF Left
  <2>4. h.at \in {"blind", "decider"} => g.at \in {"blind", "decider"}
    BY DEF Questions
  <2>5. h.at \in {"blind", "decider", "model"} => g.at \in {"blind", "decider", "model"}
    BY DEF Questions
  <2>6. /\ Cardinality(Two(p)') \in Nat /\ Cardinality(Two(p)') <= Cardinality(Two(p))
        /\ g.at \in {"blind", "decider"} /\ h.at \notin {"blind", "decider"}
              => Cardinality(Two(p)') + 1 = Cardinality(Two(p))
    <3>1. CASE g.at \in {"blind", "decider"} /\ h.at \in {"blind", "decider"}
      <4>1. g \in Two(p) /\ Two(p)' = (Two(p) \ {g}) \union {h}
        BY <1>1, <3>1 DEF Two, Under
      <4> QED
        BY <2>1, <3>1, <4>1, Replaced
    <3>2. CASE g.at \in {"blind", "decider"} /\ h.at \notin {"blind", "decider"}
      <4>1. g \in Two(p) /\ Two(p)' = Two(p) \ {g}
        BY <1>1, <3>2 DEF Two, Under
      <4>2. Cardinality(Two(p)') \in Nat /\ Cardinality(Two(p)') + 1 = Cardinality(Two(p))
        BY <2>1, <4>1, Taken
      <4> QED
        BY <2>1, <4>2
    <3>3. CASE g.at \notin {"blind", "decider"}
      <4>1. Two(p)' = Two(p)
        BY <1>1, <2>4, <3>3 DEF Two, Under
      <4> QED
        BY <2>1, <3>3, <4>1
    <3> QED
      BY <3>1, <3>2, <3>3
  <2>7. /\ Cardinality(One(p)') \in Nat /\ Cardinality(One(p)') <= Cardinality(One(p))
        /\ g.at \in {"blind", "decider", "model"} /\ h.at \notin {"blind", "decider", "model"}
              => Cardinality(One(p)') + 1 = Cardinality(One(p))
    <3>1. CASE g.at \in {"blind", "decider", "model"} /\ h.at \in {"blind", "decider", "model"}
      <4>1. g \in One(p) /\ One(p)' = (One(p) \ {g}) \union {h}
        BY <1>1, <3>1 DEF One, Under
      <4> QED
        BY <2>1, <3>1, <4>1, Replaced
    <3>2. CASE g.at \in {"blind", "decider", "model"} /\ h.at \notin {"blind", "decider", "model"}
      <4>1. g \in One(p) /\ One(p)' = One(p) \ {g}
        BY <1>1, <3>2 DEF One, Under
      <4>2. Cardinality(One(p)') \in Nat /\ Cardinality(One(p)') + 1 = Cardinality(One(p))
        BY <2>1, <4>1, Taken
      <4> QED
        BY <2>1, <4>2
    <3>3. CASE g.at \notin {"blind", "decider", "model"}
      <4>1. One(p)' = One(p)
        BY <1>1, <2>5, <3>3 DEF One, Under
      <4> QED
        BY <2>1, <3>3, <4>1
    <3> QED
      BY <3>1, <3>2, <3>3
  <2>3. Left(p)' \in Nat
    <3> HIDE DEF p
    <3> QED
      BY <2>2, <2>6, <2>7
  <2>8. Left(p)' <= Left(p)
    <3> HIDE DEF p
    <3> QED
      BY <2>1, <2>2, <2>6, <2>7
  <2>9. c = 0 \/ Left(p)' + 1 <= Left(p)
    <3>1. CASE c # 0
      <4>1. \/ g.at \in {"blind", "decider"} /\ h.at \notin {"blind", "decider"}
            \/ g.at \in {"blind", "decider", "model"} /\ h.at \notin {"blind", "decider", "model"}
        BY <3>1 DEF Questions
      <4> HIDE DEF p
      <4> QED
        BY <2>1, <2>2, <2>6, <2>7, <4>1
    <3> QED
      BY <3>1
  <2>10. JudgesOn(p)
    BY <1>1 DEF PassSpend
  <2> HIDE DEF p
  <2>11. p \in Passes /\ pass'[p].spend = pass[p].spend + c /\ pass'[p].late = pass[p].late
         /\ pass'[p].at = pass[p].at
    BY <1>1 DEF p
  <2>12. JudgesOn(p)'
    BY <2>1, <2>3, <2>8, <2>9, <2>10, <2>11, JudgesSame
  <2> QED
    BY <2>12 DEF p
<1> QED
  BY <1>3, <1>4, <1>5 DEF PassSpend

LEMMA JudgeTakeSlot ==
    ASSUME PassSpend, EvalInv, NEW q \in Passes, TakeSlot(q)
    PROVE  PassSpend'
<1>1. PICK t : /\ grading' = grading \union {t} /\ t.pass = q /\ t.at = "blind"
               /\ \A p \in Passes : /\ pass'[p].spend = pass[p].spend
                                    /\ p # q => pass'[p] = pass[p]
               /\ pass'[q].at = "loop"
               /\ pass'[q].late = IF OverCap(q) THEN pass[q].late + 1 ELSE pass[q].late
  <2> DEFINE i == CHOOSE i \in pass[q].queue : TRUE
             u == [pass |-> q, item |-> i, at |-> "blind", total |-> 0]
             late == IF OverCap(q) THEN pass[q].late + 1 ELSE pass[q].late
  <2>1. /\ grading' = grading \union {u}
        /\ pass' = [pass EXCEPT ![q].at = "loop", ![q].queue = @ \ {i}, ![q].late = late]
    BY DEF TakeSlot
  <2>2. u.pass = q /\ u.at = "blind"
    OBVIOUS
  <2> HIDE DEF u, i, late
  <2>3. \A p \in Passes : pass'[p].spend = pass[p].spend /\ (p # q => pass'[p] = pass[p])
    BY <2>1 DEF EvalInv, Shapes
  <2>4. pass'[q].at = "loop" /\ pass'[q].late = late
    BY <2>1 DEF EvalInv, Shapes
  <2> QED
    BY <2>1, <2>2, <2>3, <2>4 DEF late
<1>2. pass[q].at = "slot" /\ tokens < JudgeSlots /\ tokens' = tokens + 1 /\ setting' = setting
  BY DEF TakeSlot, runnerVars
<1>3. IsFiniteSet(grading') /\ Cardinality(grading) \in Nat /\ Cardinality(grading') \in Nat
      /\ Cardinality(grading') <= Cardinality(grading) + 1
  BY <1>1, Added DEF PassSpend, ItemsFit
<1>4. JudgeSlots \in Nat /\ JudgeCap \in Nat /\ MostCost \in Nat
  BY RunnerAssumption, JudgeAssumption
<1>5. ItemsFit'
  BY <1>2, <1>3, <1>4 DEF PassSpend, ItemsFit
<1>6. ASSUME NEW p \in Passes, p # q PROVE JudgesOn(p)'
  <2>1. Two(p)' = Two(p) /\ One(p)' = One(p)
    BY <1>1, <1>6 DEF Two, One, Under
  <2>2. Left(p)' = Left(p) /\ Left(p) \in Nat
    BY <2>1, LeftFits DEF PassSpend, Left
  <2>3. JudgesOn(p) /\ 0 \in 0 .. MostCost /\ pass'[p].spend = pass[p].spend + 0
    BY <1>1, RunnerAssumption DEF PassSpend, JudgesOn
  <2>4. pass'[p] = pass[p]
    BY <1>1, <1>6
  <2> QED
    BY <2>2, <2>3, <2>4, JudgesSame
<1>7. JudgesOn(q)'
  <2> DEFINE n == Left(q)
             k == Left(q)'
  <2>1. n \in Nat /\ k \in Nat /\ k <= n + 2 /\ k <= 2 * JudgeSlots
    <3>1. Two(q)' = Two(q) \union {t} /\ One(q)' = One(q) \union {t}
      BY <1>1 DEF Two, One, Under
    <3>2. IsFiniteSet(Two(q)) /\ IsFiniteSet(One(q)) /\ n \in Nat
      BY LeftFits DEF PassSpend
    <3>3. /\ Cardinality(Two(q)) \in Nat /\ Cardinality(Two(q)') \in Nat
          /\ Cardinality(Two(q)') <= Cardinality(Two(q)) + 1
          /\ Cardinality(One(q)) \in Nat /\ Cardinality(One(q)') \in Nat
          /\ Cardinality(One(q)') <= Cardinality(One(q)) + 1
      BY <3>1, <3>2, Added
    <3>4. Two(q)' \in SUBSET grading' /\ One(q)' \in SUBSET grading'
      BY DEF Two, One, Under
    <3>5. Cardinality(Two(q)') <= Cardinality(grading') /\ Cardinality(One(q)') <= Cardinality(grading')
      BY <1>3, <3>4, Fewer
    <3>6. Cardinality(grading') <= JudgeSlots
      BY <1>3, <1>5, <1>4 DEF ItemsFit
    <3> QED
      BY <1>3, <1>4, <3>2, <3>3, <3>5, <3>6 DEF Left
  <2>2. pass[q].spend \in Nat /\ pass[q].late \in {0, 1} /\ (pass[q].late = 1 => pass[q].at # "slot")
        /\ pass[q].spend + MostCost * n <= JudgeCap + MostCost * (2 * JudgeSlots + 2 * pass[q].late)
    BY DEF PassSpend, JudgesOn
  <2>3. pass[q].late = 0
    BY <1>2, <2>2
  <2> HIDE DEF n, k
  <2>4. pass[q].spend + MostCost * n <= JudgeCap + MostCost * (2 * JudgeSlots)
    <3>1. 2 * JudgeSlots + 2 * 0 = 2 * JudgeSlots
      BY <1>4
    <3> QED
      BY <2>2, <2>3, <3>1
  <2> DEFINE top == 2 * JudgeSlots
  <2>5. top \in Nat /\ k <= top /\ n + 1 \in Nat /\ (n + 1) + 1 = n + 2
    BY <1>4, <2>1
  <2> HIDE DEF top
  <2>6. /\ MostCost * k \in Nat /\ MostCost * k <= MostCost * top
        /\ MostCost * k <= MostCost * n + MostCost + MostCost
        /\ MostCost * n \in Nat /\ MostCost * top \in Nat
    <3>1. MostCost * (n + 1) = MostCost * n + MostCost /\ MostCost * n \in Nat
      BY <2>1, Times
    <3>2. MostCost * (n + 2) = MostCost * (n + 1) + MostCost
      BY <2>5, Times
    <3>3. MostCost * k <= MostCost * (n + 2) /\ MostCost * k <= MostCost * top
      BY <2>1, <2>5, Scaled
    <3>4. MostCost * k \in Nat /\ MostCost * top \in Nat
      BY <2>1, <2>5, Times
    <3> QED
      BY <1>4, <3>1, <3>2, <3>3, <3>4
  <2>7. CASE OverCap(q)
    <3>1. pass'[q].late = 1 /\ pass'[q].spend = pass[q].spend
      BY <1>1, <2>3, <2>7
    <3>2. top + 1 \in Nat /\ MostCost * (top + 1) = MostCost * top + MostCost
          /\ MostCost * ((top + 1) + 1) = MostCost * (top + 1) + MostCost
          /\ (top + 1) + 1 = top + 2 * 1
      BY <2>5, Times
    <3>3. pass[q].spend + MostCost * k <= JudgeCap + MostCost * (top + 2 * 1)
      BY <1>4, <2>2, <2>4, <2>6, <3>2 DEF top
    <3>4. pass'[q].spend + MostCost * Left(q)' <= JudgeCap + MostCost * (2 * JudgeSlots + 2 * pass'[q].late)
      BY <3>1, <3>3 DEF k, top
    <3> QED
      BY <1>1, <2>2, <2>7, <3>1, <3>4 DEF JudgesOn, OverCap
  <2>8. CASE ~OverCap(q)
    <3>1. pass'[q].late = 0 /\ pass'[q].spend = pass[q].spend /\ pass[q].spend < JudgeCap
      BY <1>1, <1>4, <2>2, <2>3, <2>8 DEF OverCap
    <3>2. pass[q].spend + MostCost * k <= JudgeCap + MostCost * (top + 2 * 0)
      <4>1. top + 2 * 0 = top
        BY <2>5
      <4> QED
        BY <1>4, <2>2, <2>6, <3>1, <4>1
    <3>3. pass'[q].spend + MostCost * Left(q)' <= JudgeCap + MostCost * (2 * JudgeSlots + 2 * pass'[q].late)
      BY <3>1, <3>2 DEF k, top
    <3> QED
      BY <1>1, <2>2, <3>1, <3>3 DEF JudgesOn
  <2> QED
    BY <2>7, <2>8
<1> QED
  BY <1>5, <1>6, <1>7 DEF PassSpend

LEMMA JudgePass ==
    ASSUME PassSpend, EvalInv, NEW q \in Passes, PassStep(q) \/ \E r \in Runs : Look(q, r)
    PROVE  PassSpend'
<1> DEFINE Kept == /\ UNCHANGED <<grading, setting>> /\ tokens' \in Nat /\ tokens' >= tokens /\ tokens' <= JudgeSlots
                   /\ \A p \in Passes : /\ pass'[p].spend = pass[p].spend /\ pass'[p].late = pass[p].late
                                        /\ pass'[p].at = "slot" => pass[p].at = "slot" \/ pass[p].spend < JudgeCap
<1> USE DEF EvalInv, Shapes, runnerVars
<1>0. tokens \in Nat /\ tokens <= JudgeSlots /\ JudgeSlots \in Nat /\ tokens >= tokens
  BY JudgeAssumption DEF PassSpend, ItemsFit
<1>1. ASSUME NEW r \in Runs, Look(q, r) PROVE PassSpend'
  <2>1. PICK queue : pass' = [pass EXCEPT ![q].at = "looked", ![q].run = r, ![q].queue = queue]
    BY <1>1 DEF Look
  <2>2. UNCHANGED <<grading, setting, tokens>>
    BY <1>1 DEF Look
  <2>3. \A p \in Passes : /\ pass'[p].spend = pass[p].spend /\ pass'[p].late = pass[p].late
                          /\ pass'[p].at = "slot" => pass[p].at = "slot"
    BY <2>1
  <2> Kept
    BY <1>0, <2>2, <2>3
  <2> QED
    BY JudgeUnasked
<1>2. CASE EnterPass(q) \/ LaunchPass(q) \/ EndPass(q)
  <2> Kept
    BY <1>0, <1>2 DEF EnterPass, LaunchPass, EndPass, PassGoto
  <2> QED
    BY JudgeUnasked
<1>3. CASE NextItem(q)
  <2> DEFINE over == pass[q].queue # {} /\ ~pass[q].cancelled /\ OverCap(q)
             ends == pass[q].queue = {} \/ pass[q].cancelled \/ pass[q].capped \/ over
             at == IF ends THEN "drain" ELSE "slot"
             capped == pass[q].capped \/ over
  <2>1. pass' = [pass EXCEPT ![q].at = at, ![q].capped = capped]
    BY <1>3 DEF NextItem
  <2>2. at = "slot" => pass[q].spend < JudgeCap
    BY JudgeAssumption DEF OverCap, PassSpend, JudgesOn
  <2>3. UNCHANGED <<grading, setting, tokens>>
    BY <1>3 DEF NextItem
  <2> HIDE DEF at, capped
  <2>4. \A p \in Passes : pass'[p].spend = pass[p].spend /\ pass'[p].late = pass[p].late
    BY <2>1
  <2>5. \A p \in Passes : pass'[p].at = "slot" => pass[p].at = "slot" \/ pass[p].spend < JudgeCap
    BY <2>1, <2>2
  <2> Kept
    BY <1>0, <2>3, <2>4, <2>5
  <2> QED
    BY JudgeUnasked
<1>4. CASE TakeSlot(q)
  BY <1>4, JudgeTakeSlot
<1>5. CASE LeaveQueue(q)
  <2>1. tokens' \in Nat /\ tokens' >= tokens /\ tokens' <= JudgeSlots
    BY <1>0, <1>5 DEF LeaveQueue
  <2> Kept
    BY <1>5, <2>1 DEF LeaveQueue, PassGoto
  <2> QED
    BY JudgeUnasked
<1> QED
  BY <1>1, <1>2, <1>3, <1>4, <1>5 DEF PassStep

LEMMA JudgeItem ==
    ASSUME PassSpend, EvalInv, NEW g \in grading, GradingStep(g)
    PROVE  PassSpend'
<1> USE DEF EvalInv, Shapes, runnerVars
<1>0. g.pass \in Passes /\ DOMAIN g = {"pass", "item", "at", "total"} /\ 0 \in 0 .. MostCost
      /\ \A p \in Passes : pass[p].spend \in Nat /\ pass[p].spend + 0 = pass[p].spend
  BY RunnerAssumption DEF PassSpend, JudgesOn
<1>1. CASE Blind(g)
  <2>1. PICK at \in {"decider", "model", "total"} : GradeStep(g, [g EXCEPT !.at = at])
    BY <1>1 DEF Blind, Finished, FirstBackend
  <2>2. g.at = "blind" /\ UNCHANGED <<pass, tokens, setting>>
    BY <1>1 DEF Blind
  <2> DEFINE h == [g EXCEPT !.at = at]
  <2>3. h.at = at /\ h.pass = g.pass
    BY <1>0
  <2> HIDE DEF h
  <2>4. GradeStep(g, h)
    BY <2>1 DEF h
  <2>5. Questions(h.at) <= Questions(g.at)
    BY <2>2, <2>3 DEF Questions
  <2> QED
    BY <1>0, <2>2, <2>3, <2>4, <2>5, JudgeStep
<1>2. CASE AskBackend(g)
  <2>1. g.at \in Backends /\ UNCHANGED <<tokens, setting>>
    BY <1>2 DEF AskBackend
  <2>2. ASSUME NEW cost \in setting.costs, pass' = [pass EXCEPT ![g.pass].spend = @ + cost],
               \/ GradeStep(g, [g EXCEPT !.at = IF g.at = "decider" THEN "recordDecider" ELSE "recordModel"])
               \/ g.at = "decider" /\ "model" \in setting.backends /\ GradeStep(g, [g EXCEPT !.at = "model"])
               \/ Finished(g)
        PROVE  PassSpend'
    <3>1. PICK at \in {"recordDecider", "recordModel", "model", "total"} :
             GradeStep(g, [g EXCEPT !.at = at]) /\ (at = "model" => g.at = "decider")
      BY <2>2 DEF Finished
    <3> DEFINE h == [g EXCEPT !.at = at]
    <3>2. h.at = at /\ h.pass = g.pass
      BY <1>0
    <3>3. cost \in 0 .. MostCost
      BY RunnerAssumption DEF PassSpend, ItemsFit
    <3> HIDE DEF h
    <3>4. GradeStep(g, h)
      BY <3>1 DEF h
    <3>5. Questions(h.at) + 1 <= Questions(g.at) /\ Questions(h.at) <= Questions(g.at)
      BY <2>1, <3>1, <3>2 DEF Questions, Backends
    <3>6. /\ pass'[g.pass].spend = pass[g.pass].spend + cost
          /\ \A p \in Passes : /\ p # g.pass => pass'[p].spend = pass[p].spend
                               /\ pass'[p].late = pass[p].late /\ pass'[p].at = pass[p].at
      BY <1>0, <2>2
    <3> QED
      BY <2>1, <3>2, <3>3, <3>4, <3>5, <3>6, JudgeStep
  <2>3. ASSUME pass' = [pass EXCEPT ![g.pass].capped = TRUE], Finished(g) PROVE PassSpend'
    <3> DEFINE h == [g EXCEPT !.at = "total"]
    <3>1. h.at = "total" /\ h.pass = g.pass
      BY <1>0
    <3> HIDE DEF h
    <3>2. GradeStep(g, h)
      BY <2>3 DEF h, Finished
    <3>3. Questions(h.at) <= Questions(g.at)
      BY <3>1 DEF Questions
    <3>4. \A p \in Passes : pass'[p].spend = pass[p].spend /\ pass'[p].late = pass[p].late /\ pass'[p].at = pass[p].at
      BY <2>3
    <3> QED
      BY <1>0, <2>1, <3>1, <3>2, <3>3, <3>4, JudgeStep
  <2> QED
    BY <1>2, <2>2, <2>3 DEF AskBackend
<1>3. CASE Record(g)
  <2> DEFINE h == [g EXCEPT !.at = "total"]
  <2>1. h.at = "total" /\ h.pass = g.pass
    BY <1>0
  <2> HIDE DEF h
  <2>2. GradeStep(g, h) /\ UNCHANGED <<pass, tokens, setting>>
    BY <1>3 DEF h, Finished, Record
  <2>3. Questions(h.at) <= Questions(g.at)
    BY <2>1 DEF Questions
  <2> QED
    BY <1>0, <2>1, <2>2, <2>3, JudgeStep
<1>4. CASE ReadTotal(g)
  <2> DEFINE h == [g EXCEPT !.at = "cost", !.total = pass[g.pass].spend]
  <2>1. h.at = "cost" /\ h.pass = g.pass
    BY <1>0
  <2> HIDE DEF h
  <2>2. GradeStep(g, h) /\ UNCHANGED <<pass, tokens, setting>>
    BY <1>4 DEF h, ReadTotal
  <2>3. Questions(h.at) <= Questions(g.at)
    BY <2>1 DEF Questions
  <2> QED
    BY <1>0, <2>1, <2>2, <2>3, JudgeStep
<1>5. CASE RecordCost(g)
  <2>1. grading' = grading \ {g} /\ tokens' = tokens - 1 /\ setting' = setting
        /\ pass' = [pass EXCEPT ![g.pass].wrote = g.total]
    BY <1>5 DEF RecordCost
  <2>2. IsFiniteSet(grading') /\ Cardinality(grading) \in Nat /\ Cardinality(grading') \in Nat
        /\ Cardinality(grading') + 1 = Cardinality(grading)
    BY <2>1, Taken DEF PassSpend, ItemsFit
  <2>3. ItemsFit'
    BY <2>1, <2>2, JudgeAssumption DEF PassSpend, ItemsFit
  <2>4. ASSUME NEW p \in Passes PROVE JudgesOn(p)'
    <3>1. Two(p)' \in SUBSET Two(p) /\ One(p)' \in SUBSET One(p)
      BY <2>1 DEF Two, One, Under
    <3>2. IsFiniteSet(Two(p)) /\ IsFiniteSet(One(p)) /\ Left(p) \in Nat
      BY LeftFits DEF PassSpend
    <3>3. /\ Cardinality(Two(p)) \in Nat /\ Cardinality(Two(p)') \in Nat
          /\ Cardinality(Two(p)') <= Cardinality(Two(p))
          /\ Cardinality(One(p)) \in Nat /\ Cardinality(One(p)') \in Nat
          /\ Cardinality(One(p)') <= Cardinality(One(p))
      BY <3>1, <3>2, Fewer
    <3>4. Left(p)' \in Nat /\ Left(p)' <= Left(p)
      BY <3>3 DEF Left
    <3>5. pass'[p].spend = pass[p].spend + 0 /\ pass'[p].late = pass[p].late /\ pass'[p].at = pass[p].at
      BY <1>0, <2>1
    <3>6. JudgesOn(p)
      BY DEF PassSpend
    <3> QED
      BY <1>0, <3>2, <3>4, <3>5, <3>6, JudgesSame
  <2> QED
    BY <2>3, <2>4 DEF PassSpend
<1> QED
  BY <1>1, <1>2, <1>3, <1>4, <1>5 DEF GradingStep

LEMMA JudgeDown ==
    ASSUME PassSpend, EvalInv, DownWithJudge
    PROVE  PassSpend'
<1>1. /\ pass' = [p \in Passes |-> [pass[p] EXCEPT !.at = IF @ = "none" THEN @ ELSE "gone"]]
      /\ grading' = {} /\ tokens' = 0 /\ setting' = setting
  BY DEF DownWithJudge, Exit, Crash, Down
<1>2. ItemsFit'
  BY <1>1, FS_EmptySet, JudgeAssumption DEF PassSpend, ItemsFit
<1>3. ASSUME NEW p \in Passes PROVE JudgesOn(p)'
  <2>1. Two(p)' = {} /\ One(p)' = {}
    BY <1>1 DEF Two, One, Under
  <2>2. Left(p)' = 0
    BY <2>1, FS_EmptySet DEF Left
  <2>3. pass'[p].spend = pass[p].spend /\ pass'[p].late = pass[p].late
        /\ (pass'[p].at = "slot" => pass[p].at = "slot")
    BY <1>1 DEF EvalInv, Shapes
  <2>4. JudgesOn(p) /\ Left(p) \in Nat
    BY LeftFits DEF PassSpend
  <2>5. 0 \in 0 .. MostCost /\ pass[p].spend + 0 = pass[p].spend
    BY <2>4, RunnerAssumption DEF JudgesOn
  <2> QED
    BY <2>2, <2>3, <2>4, <2>5, JudgesSame
<1> QED
  BY <1>2, <1>3 DEF PassSpend

LEMMA JudgeKeeps == EvalInv /\ PassSpend /\ [Next]_vars => PassSpend'
<1> SUFFICES ASSUME EvalInv, PassSpend, [Next]_vars PROVE PassSpend'
  OBVIOUS
<1> DEFINE Kept == UNCHANGED <<grading, setting, tokens, pass>>
           Stopped == /\ UNCHANGED <<grading, setting, tokens>>
                      /\ \E ps : CancelPasses(ps)
<1>0. tokens \in Nat /\ tokens <= JudgeSlots /\ tokens >= tokens
  BY DEF PassSpend, ItemsFit
<1>1. Kept \/ Stopped => PassSpend'
  <2>1. ASSUME Kept PROVE PassSpend'
    BY <1>0, <2>1, JudgeUnasked
  <2>2. ASSUME Stopped PROVE PassSpend'
    <3>1. \A p \in Passes : pass'[p].spend = pass[p].spend /\ pass'[p].late = pass[p].late /\ pass'[p].at = pass[p].at
      BY <2>2 DEF CancelPasses, EvalInv, Shapes
    <3> QED
      BY <1>0, <2>2, <3>1, JudgeUnasked
  <2> QED
    BY <2>1, <2>2
<1> HIDE DEF Kept, Stopped
<1>2. CASE UNCHANGED vars
  BY <1>1, <1>2 DEF vars, runnerVars, judgeVars, judgeMemory, Kept
<1>3. ASSUME NEW q \in Runs, (Create(q) \/ RunStep(q) \/ Stop(q)) /\ UNCHANGED judgeVars PROVE Kept
  BY <1>3 DEF Create, RunStep, Refuse, Enter, Launch, Prepare, Begin, Check, Dispatch, Abandon, Wait,
              FinalizePairs, FinishRun, Leave, Stop, judgeVars, judgeMemory, Kept
<1>4. ASSUME NEW s \in flying, SampleStep(s) /\ UNCHANGED judgeVars PROVE Kept
  BY <1>4 DEF SampleStep, Ask, AddRunCost, AddSample, Fold, judgeVars, judgeMemory, Kept
<1>5. CASE \/ HaltStep \/ CatchPasses
           \/ (Panic \/ Resume \/ \E t \in tasks : DeleteTask(t)) /\ UNCHANGED judgeVars
  BY <1>1, <1>5 DEF HaltStep, Catch, StopAll, CatchPasses, Panic, Resume, DeleteTask, judgeVars, judgeMemory, Kept
<1>6. CASE StopPasses \/ ShutdownJudge
  BY <1>1, <1>6 DEF StopPasses, ShutdownJudge, Stopped
<1>7. CASE (Shutdown /\ UNCHANGED judgeVars) \/ \E i \in AllItems, by \in {Operator, "mcp"} : Mark(i, by)
  BY <1>1, <1>7 DEF Shutdown, Mark, runnerVars, judgeVars, judgeMemory, Kept
<1>8. CASE Next
  <2>1. CASE \E q \in Runs : (Create(q) \/ RunStep(q) \/ Stop(q)) /\ UNCHANGED judgeVars
    BY <1>1, <1>3, <2>1
  <2>2. CASE \E s \in flying : SampleStep(s) /\ UNCHANGED judgeVars
    BY <1>1, <1>4, <2>2
  <2>3. CASE \E p \in Passes : PassStep(p) \/ \E r \in Runs : Look(p, r)
    BY <2>3, JudgePass
  <2>4. CASE \E g \in grading : GradingStep(g)
    BY <2>4, JudgeItem
  <2> QED
    BY <1>5, <1>6, <1>7, <1>8, <2>1, <2>2, <2>3, <2>4, JudgeDown DEF Next
<1> QED
  BY <1>2, <1>8

-----------------------------------------------------------------------------
(* One sample of a run, and one item of a pass, begins at most after its   *)
(* cap was reached, and what is spent past the cap is what was in flight   *)
(* and that one, whatever the slots, the caps and the costs.               *)
THEOREM CapsAreSoftByOne == Spec => []CapOvershoot
<1> DEFINE Inv == EvalInv /\ RunSpend /\ PassSpend
<1>1. Init => Inv
  BY EvalInit, SpendInit, JudgeInit
<1>2. Inv /\ [Next]_vars => Inv'
  BY EvalKeeps, SpendKeeps, JudgeKeeps
<1>3. Inv => CapOvershoot
  <2> SUFFICES ASSUME Inv PROVE CapOvershoot
    OBVIOUS
  <2> HIDE DEF Inv
  <2>0. RunSpend /\ PassSpend
    BY DEF Inv
  <2>1. Slots \in Nat /\ Cap \in Nat /\ MostCost \in Nat /\ JudgeSlots \in Nat /\ JudgeCap \in Nat
    BY RunnerAssumption, JudgeAssumption
  <2>2. ASSUME NEW r \in Runs
        PROVE  run[r].late <= 1 /\ run[r].spent + MostCost * Cardinality(Flying(r)) <= Cap + (Slots + 1) * MostCost
    <3>1. run[r].late \in {0, 1} /\ run[r].spent \in Nat
          /\ run[r].spent + MostCost * Cardinality(Flying(r)) <= Cap + MostCost * (Slots + run[r].late)
      BY <2>0 DEF RunSpend, SpendsOn
    <3>2. MostCost * Cardinality(Flying(r)) \in Nat
      BY <2>0, FlyingFits, Times DEF RunSpend
    <3>3. MostCost * (Slots + run[r].late) <= MostCost * (Slots + 1)
      <4>1. Slots + run[r].late \in Nat /\ Slots + 1 \in Nat /\ Slots + run[r].late <= Slots + 1
        BY <2>1, <3>1
      <4> QED
        BY <4>1, Scaled
    <3>4. MostCost * (Slots + 1) = (Slots + 1) * MostCost /\ MostCost * (Slots + 1) \in Nat
      BY <2>1
    <3>5. MostCost * (Slots + run[r].late) \in Nat
      <4>1. Slots + run[r].late \in Nat
        BY <2>1, <3>1
      <4> QED
        BY <4>1, Times
    <3> QED
      BY <2>1, <3>1, <3>2, <3>3, <3>4, <3>5
  <2>3. ASSUME NEW p \in Passes
        PROVE  pass[p].late <= 1 /\ pass[p].spend <= JudgeCap + (JudgeSlots + 1) * 2 * MostCost
    <3>1. pass[p].late \in {0, 1} /\ pass[p].spend \in Nat
          /\ pass[p].spend + MostCost * Left(p) <= JudgeCap + MostCost * (2 * JudgeSlots + 2 * pass[p].late)
      BY <2>0 DEF PassSpend, JudgesOn
    <3>2. MostCost * Left(p) \in Nat
      BY <2>0, LeftFits, Times DEF PassSpend
    <3> DEFINE m == 2 * JudgeSlots + 2 * pass[p].late
               k == 2 * JudgeSlots + 2
    <3>3. m \in Nat /\ k \in Nat /\ m <= k
      BY <2>1, <3>1
    <3>4. k = (JudgeSlots + 1) * 2
      BY <2>1
    <3> HIDE DEF m, k
    <3>5. MostCost * m <= MostCost * k /\ MostCost * m \in Nat /\ MostCost * k \in Nat
      BY <3>3, Scaled, Times
    <3>6. MostCost * k = k * MostCost
      BY <2>1, <3>3
    <3>7. pass[p].spend <= JudgeCap + k * MostCost
      BY <2>1, <3>1, <3>2, <3>5, <3>6 DEF m
    <3> QED
      BY <3>1, <3>4, <3>7
  <2> QED
    BY <2>2, <2>3 DEF CapOvershoot
<1> QED
  BY <1>1, <1>2, <1>3, PTL DEF Spec
-----------------------------------------------------------------------------
(* The first cell of a grid is one of its cells.                           *)
LEMMA FirstIsACell ==
    ASSUME NEW cells, cells \subseteq Nat \X Nat \X Nat, cells # {}
    PROVE  First(cells) \in cells
<1> DEFINE ones == {c[1] : c \in cells}
<1>1. ones \in SUBSET Nat /\ ones # {}
  OBVIOUS
<1>2. PICK i \in ones : \A j \in ones : i <= j
  BY <1>1, Least
<1> DEFINE twos == {c[2] : c \in {d \in cells : d[1] = i}}
<1>3. twos \in SUBSET Nat /\ twos # {}
  OBVIOUS
<1>4. PICK j \in twos : \A k \in twos : j <= k
  BY <1>3, Least
<1> DEFINE threes == {c[3] : c \in {d \in cells : d[1] = i /\ d[2] = j}}
<1>5. threes \in SUBSET Nat /\ threes # {}
  OBVIOUS
<1>6. PICK k \in threes : \A l \in threes : k <= l
  BY <1>5, Least
<1>7. PICK c \in cells : c[1] = i /\ c[2] = j /\ c[3] = k
  BY <1>6
<1>8. ASSUME NEW d \in cells PROVE c = d \/ Before(c, d)
  <2>1. c[1] \in Nat /\ c[2] \in Nat /\ c[3] \in Nat /\ d[1] \in Nat /\ d[2] \in Nat /\ d[3] \in Nat
    OBVIOUS
  <2>2. c[1] <= d[1]
    BY <1>2, <1>7
  <2>3. d[1] = c[1] => c[2] <= d[2]
    BY <1>4, <1>7
  <2>4. d[1] = c[1] /\ d[2] = c[2] => c[3] <= d[3]
    BY <1>6, <1>7
  <2>5. c = <<c[1], c[2], c[3]>> /\ d = <<d[1], d[2], d[3]>>
    OBVIOUS
  <2>6. d[1] = c[1] /\ d[2] = c[2] /\ d[3] = c[3] => c = d
    BY <2>5
  <2> QED
    BY <2>1, <2>2, <2>3, <2>4, <2>6 DEF Before
<1> QED
  BY <1>8 DEF First

(* What a sample in flight will be on the run's row; what the row's cost   *)
(* has been raised for.                                                    *)
AsSample(s) == [cell |-> s.cell, ok |-> s.ok, cost |-> s.cost]
Saved(r) == {AsSample(s) : s \in {f \in Flying(r) : f.at = "save"}}
Billed(r) == row[r].samples \union Saved(r)

(* A cell of the grid is left to dispatch, in flight or recorded: one of   *)
(* the three, but for the sample that is recorded and not yet folded.      *)
CellsOnce(r) ==
    /\ \A s \in Flying(r) : s.at \in {"ask", "bill", "save", "fold"}
    /\ \A s, t \in Flying(r) : s.cell = t.cell => s = t
    /\ \A s \in Flying(r) : s.at # "fold" => \A t \in row[r].samples : t.cell # s.cell
    /\ \A c \in run[r].cells :
          (\A s \in Flying(r) : s.cell # c) /\ \A t \in row[r].samples : t.cell # c
    /\ run[r].cells \subseteq Cells
    /\ run[r].at = "acquire" => run[r].cells # {}
    /\ row[r].status = "none" \/ run[r].at \in {"created", "entered", "prepare", "begin"} =>
          row[r].samples = {}

(* The row's cost is the sum of what was billed, as long as the process    *)
(* lives; it may be more once a crash has taken the samples in flight.     *)
Books(r) ==
    /\ IsFiniteSet(row[r].samples) /\ row[r].cost \in Nat
    /\ \A s \in row[r].samples : s.cost \in Nat
    /\ faults = 0 => row[r].cost >= Total(Billed(r))
    /\ faults = 0 /\ (run[r].at # "idle" \/ row[r].status \in Terminal \union {"none"}) =>
          row[r].cost = Total(Billed(r))

(* Pairs are of samples that completed, and are all there from the step    *)
(* that writes them on.                                                    *)
Paired(r) ==
    /\ \A c \in row[r].pairs : Done(r, c) /\ Done(r, <<c[1], c[2], Baseline>>)
    /\ faults = 0 /\ (run[r].at = "finish" \/ row[r].status \in Terminal) => Pairs(r) \subseteq row[r].pairs

Ledger == faults \in Nat /\ \A r \in Runs : CellsOnce(r) /\ Books(r) /\ Paired(r)

LEMMA LedgerInit == Init => Ledger
<1> SUFFICES ASSUME Init PROVE Ledger
  OBVIOUS
<1>1. faults \in Nat
  BY DEF Init, RunnerInit
<1>2. ASSUME NEW r \in Runs PROVE CellsOnce(r) /\ Books(r) /\ Paired(r)
  <2>1. row[r].status = "none" /\ row[r].cost = 0 /\ row[r].samples = {} /\ row[r].pairs = {}
        /\ run[r].at = "idle" /\ run[r].cells = {} /\ Flying(r) = {}
    BY <1>2 DEF Init, RunnerInit, NoRow, Asleep, Flying
  <2>2. Billed(r) = {}
    BY <2>1 DEF Billed, Saved
  <2>3. CellsOnce(r)
    BY <2>1 DEF CellsOnce
  <2>4. Books(r)
    BY <2>1, <2>2, TotalEmpty, FS_EmptySet DEF Books
  <2>5. Paired(r)
    BY <2>1 DEF Paired, Terminal
  <2> QED
    BY <2>3, <2>4, <2>5
<1> QED
  BY <1>1, <1>2 DEF Ledger

LEMMA BilledFinite ==
    ASSUME FlightsFit, NEW r \in Runs, Books(r)
    PROVE  IsFiniteSet(Billed(r)) /\ \A s \in Billed(r) : s.cost \in Nat
<1>1. IsFiniteSet({f \in Flying(r) : f.at = "save"})
  <2>1. {f \in Flying(r) : f.at = "save"} \in SUBSET flying
    BY DEF Flying
  <2> QED
    BY <2>1, FS_Subset DEF FlightsFit
<1>2. IsFiniteSet(Saved(r))
  <2> DEFINE S == {f \in Flying(r) : f.at = "save"}
             h == [f \in S |-> AsSample(f)]
  <2>1. h \in Surjection(S, Saved(r))
    BY DEF Surjection, Saved
  <2> QED
    BY <1>1, <2>1, FS_Surjection
<1>3. IsFiniteSet(Billed(r))
  BY <1>2, FS_Union DEF Billed, Books
<1>4. \A s \in Saved(r) : s.cost \in Nat
  BY RunnerAssumption DEF Saved, AsSample, Flying, FlightsFit
<1> QED
  BY <1>3, <1>4 DEF Billed, Books

(* Done and Pairs, by what they read. *)
LEMMA DoneGrows ==
    ASSUME NEW r \in Runs, row[r].samples \subseteq row'[r].samples, NEW c, Done(r, c)
    PROVE  Done(r, c)'
BY DEF Done

LEMMA PairsShrink ==
    ASSUME NEW r \in Runs, row'[r].samples = row[r].samples, tasks' \subseteq tasks, setting' = setting
    PROVE  Pairs(r)' \subseteq Pairs(r)
BY DEF Pairs, Done, Cells

(* A step that leaves the samples of a run alone. *)
LEMMA Quiet ==
    ASSUME NEW r \in Runs, CellsOnce(r), Books(r),
           row'[r].samples = row[r].samples, row'[r].cost = row[r].cost,
           Flying(r)' = Flying(r), setting' = setting, faults' = 0 => faults = 0,
           \A c \in run'[r].cells : c \in run[r].cells \/ (c \in Cells /\ row[r].samples = {} /\ Flying(r) = {}),
           run'[r].at = "acquire" => run'[r].cells # {},
           row'[r].status = "none" \/ run'[r].at \in {"created", "entered", "prepare", "begin"} =>
               row[r].samples = {},
           run'[r].at # "idle" \/ row'[r].status \in Terminal \union {"none"} =>
               run[r].at # "idle" \/ row[r].status \in Terminal \union {"none"}
    PROVE  CellsOnce(r)' /\ Books(r)'
<1>1. Billed(r)' = Billed(r)
  BY DEF Billed, Saved, AsSample
<1>2. Books(r)'
  BY <1>1 DEF Books
<1>3. Cells' = Cells
  BY DEF Cells
<1>4. CellsOnce(r)'
  BY <1>3 DEF CellsOnce
<1> QED
  BY <1>2, <1>4

LEMMA QuietPairs ==
    ASSUME NEW r \in Runs, Paired(r),
           row'[r].samples = row[r].samples, row'[r].pairs = row[r].pairs,
           tasks' \subseteq tasks, setting' = setting, faults' = 0 => faults = 0,
           run'[r].at = "finish" \/ row'[r].status \in Terminal =>
               \/ run[r].at = "finish" \/ row[r].status \in Terminal \/ row[r].samples = {}
    PROVE  Paired(r)'
<1>1. \A c \in row'[r].pairs : Done(r, c)' /\ Done(r, <<c[1], c[2], Baseline>>)'
  BY DEF Paired, Done
<1>2. row[r].samples = {} => Pairs(r) = {}
  BY DEF Pairs, Done
<1>3. Pairs(r)' \subseteq Pairs(r)
  BY PairsShrink
<1> QED
  BY <1>1, <1>2, <1>3 DEF Paired

(* A step that leaves a run alone altogether. *)
LEMMA Elsewhere ==
    ASSUME NEW r \in Runs, CellsOnce(r), Books(r), Paired(r),
           row'[r] = row[r], run'[r].at = run[r].at, run'[r].cells = run[r].cells, Flying(r)' = Flying(r),
           tasks' \subseteq tasks, setting' = setting, faults' = 0 => faults = 0
    PROVE  CellsOnce(r)' /\ Books(r)' /\ Paired(r)'
<1>1. CellsOnce(r)' /\ Books(r)'
  <2>1. /\ run'[r].at = "acquire" => run'[r].cells # {}
        /\ row'[r].status = "none" \/ run'[r].at \in {"created", "entered", "prepare", "begin"} =>
               row[r].samples = {}
    BY DEF CellsOnce
  <2>2. /\ row'[r].samples = row[r].samples /\ row'[r].cost = row[r].cost
        /\ \A c \in run'[r].cells : c \in run[r].cells
    OBVIOUS
  <2>3. run'[r].at # "idle" \/ row'[r].status \in Terminal \union {"none"} =>
            run[r].at # "idle" \/ row[r].status \in Terminal \union {"none"}
    OBVIOUS
  <2> QED
    BY <2>1, <2>2, <2>3, Quiet
<1>2. Paired(r)'
  BY QuietPairs
<1> QED
  BY <1>1, <1>2

(* A step of one run. *)
LEMMA LedgerAt ==
    ASSUME Ledger, NEW q \in Runs, tasks' \subseteq tasks, setting' = setting,
           faults' \in Nat, faults' = 0 => faults = 0,
           \A r \in Runs \ {q} : /\ row'[r] = row[r] /\ Flying(r)' = Flying(r)
                                 /\ run'[r].at = run[r].at /\ run'[r].cells = run[r].cells,
           CellsOnce(q)', Books(q)', Paired(q)'
    PROVE  Ledger'
<1>1. ASSUME NEW r \in Runs \ {q} PROVE CellsOnce(r)' /\ Books(r)' /\ Paired(r)'
  BY Elsewhere DEF Ledger
<1> QED
  BY <1>1 DEF Ledger

(* A step of one run that leaves its samples alone. *)
LEMMA LedgerQuiet ==
    ASSUME Ledger, NEW q \in Runs, UNCHANGED <<flying, setting>>, tasks' \subseteq tasks,
           faults' \in Nat, faults' = 0 => faults = 0,
           \A r \in Runs \ {q} : row'[r] = row[r] /\ run'[r].at = run[r].at /\ run'[r].cells = run[r].cells,
           row'[q].samples = row[q].samples, row'[q].cost = row[q].cost,
           \A c \in run'[q].cells : c \in run[q].cells \/ (c \in Cells /\ row[q].samples = {} /\ Flying(q) = {}),
           run'[q].at = "acquire" => run'[q].cells # {},
           row'[q].status = "none" \/ run'[q].at \in {"created", "entered", "prepare", "begin"} =>
               row[q].samples = {},
           run'[q].at # "idle" \/ row'[q].status \in Terminal \union {"none"} =>
               run[q].at # "idle" \/ row[q].status \in Terminal \union {"none"},
           Paired(q)'
    PROVE  Ledger'
<1>1. \A r \in Runs : Flying(r)' = Flying(r)
  BY DEF Flying
<1>2. CellsOnce(q) /\ Books(q)
  BY DEF Ledger
<1>3. CellsOnce(q)' /\ Books(q)'
  BY <1>1, <1>2, Quiet
<1> QED
  BY <1>1, <1>3, LedgerAt

(* A step of one run that leaves its samples and its pairs alone.          *)
LEMMA LedgerMoves ==
    ASSUME Ledger, EvalInv, NEW q \in Runs, UNCHANGED <<flying, setting, tasks>>,
           faults' = faults \/ Fault,
           \A r \in Runs \ {q} : row'[r] = row[r] /\ run'[r].at = run[r].at /\ run'[r].cells = run[r].cells,
           row'[q].samples = row[q].samples, row'[q].cost = row[q].cost, row'[q].pairs = row[q].pairs,
           \A c \in run'[q].cells : c \in run[q].cells \/ (c \in Cells /\ row[q].samples = {} /\ Flying(q) = {}),
           run'[q].at = "acquire" => run'[q].cells # {},
           row'[q].status = "none" \/ run'[q].at \in {"created", "entered", "prepare", "begin"} =>
               row[q].samples = {},
           run'[q].at # "idle" \/ row'[q].status \in Terminal \union {"none"} =>
               run[q].at # "idle" \/ row[q].status \in Terminal \union {"none"},
           run'[q].at = "finish" \/ row'[q].status \in Terminal =>
               run[q].at = "finish" \/ row[q].status \in Terminal \/ row[q].samples = {}
    PROVE  Ledger'
<1>1. faults' \in Nat /\ (faults' = 0 => faults = 0)
  BY DEF Ledger, Fault
<1>2. Paired(q)'
  <2>1. Paired(q) /\ tasks' \subseteq tasks
    BY DEF Ledger
  <2> QED
    BY <1>1, <2>1, QuietPairs
<1> QED
  BY <1>1, <1>2, LedgerQuiet

LEMMA LedgerRun ==
    ASSUME Ledger, EvalInv, RunSpend, NEW q \in Runs, (Create(q) \/ RunStep(q) \/ Stop(q)), ~Dispatch(q)
    PROVE  Ledger'
<1>1. /\ row[q].status \in Terminal => run[q].at \in {"idle", "leave"}
      /\ row[q].status = "none" => run[q].at = "idle"
      /\ Flying(q) # {} => run[q].at \in {"check", "acquire", "wait"}
      /\ run[q].at = "acquire" => run[q].cells # {}
      /\ row[q].status = "none" \/ run[q].at \in {"created", "entered", "prepare", "begin"} => row[q].samples = {}
  BY DEF EvalInv, RowFollows, Flying, Ledger, CellsOnce
<1>2. DOMAIN row = Runs /\ DOMAIN run = Runs
      /\ DOMAIN row[q] = {"status", "cost", "samples", "pairs"}
      /\ DOMAIN run[q] = {"at", "cells", "spent", "outcome", "late"}
  BY DEF EvalInv, Shapes
<1>3. CASE Create(q)
  <2>1. row' = [row EXCEPT ![q].status = "pending"] /\ run' = [run EXCEPT ![q].at = "created"]
        /\ row[q].status = "none" /\ UNCHANGED <<flying, setting, tasks, faults>>
    BY <1>3 DEF Create, Goto
  <2>2. row'[q].status = "pending" /\ run'[q].at = "created" /\ run'[q].cells = run[q].cells
        /\ row'[q].samples = row[q].samples /\ row'[q].cost = row[q].cost /\ row'[q].pairs = row[q].pairs
    BY <1>2, <2>1
  <2>3. \A r \in Runs \ {q} : row'[r] = row[r] /\ run'[r] = run[r]
    BY <1>2, <2>1
  <2> QED
    BY <1>1, <2>1, <2>2, <2>3, LedgerMoves DEF Terminal
<1>4. CASE Refuse(q)
  <2>1. /\ row'[q].status \in {row[q].status, "stopped"}
        /\ row'[q].samples = row[q].samples /\ row'[q].cost = row[q].cost /\ row'[q].pairs = row[q].pairs
        /\ \A r \in Runs \ {q} : row'[r] = row[r]
    <3>1. row' = row \/ row' = [row EXCEPT ![q].status = "stopped"]
      BY <1>4 DEF Refuse, Written
    <3> QED
      BY <1>2, <3>1
  <2>2. run' = [run EXCEPT ![q].at = "idle"] /\ run[q].at = "created"
        /\ UNCHANGED <<flying, setting, tasks>> /\ (faults' = faults \/ Fault)
    BY <1>4 DEF Refuse, Written, Goto
  <2>3. run'[q].at = "idle" /\ run'[q].cells = run[q].cells
    BY <1>2, <2>2
  <2>4. \A r \in Runs \ {q} : run'[r] = run[r]
    BY <1>2, <2>2
  <2> QED
    BY <1>1, <2>1, <2>2, <2>3, <2>4, LedgerMoves DEF Terminal
<1>5. CASE Enter(q) \/ Launch(q) \/ Leave(q)
  <2>1. PICK at \in {"entered", "prepare", "idle"} :
           /\ run' = [run EXCEPT ![q].at = at]
           /\ at # "idle" => run[q].at \in {"created", "entered"}
           /\ at = "idle" => run[q].at = "leave"
    BY <1>5 DEF Enter, Launch, Leave, Goto
  <2>2. UNCHANGED <<row, flying, setting, tasks, faults>>
    BY <1>5 DEF Enter, Launch, Leave
  <2>3. run'[q].at = at /\ run'[q].cells = run[q].cells
    BY <1>2, <2>1
  <2>4. \A r \in Runs \ {q} : run'[r] = run[r]
    BY <1>2, <2>1
  <2> QED
    BY <1>1, <2>1, <2>2, <2>3, <2>4, LedgerMoves DEF Terminal
<1>6. CASE Prepare(q)
  <2>1. run[q].at = "prepare" /\ UNCHANGED <<row, flying, setting, tasks, faults>>
    BY <1>6 DEF Prepare
  <2>2. /\ run'[q].at \in {"begin", "finish"}
        /\ run'[q].cells \subseteq Cells \/ run'[q].cells = run[q].cells
        /\ \A r \in Runs \ {q} : run'[r] = run[r]
    BY <1>2, <1>6 DEF Prepare
  <2> QED
    BY <1>1, <2>1, <2>2, LedgerMoves DEF Terminal
<1>7. CASE Begin(q)
  <2>1. /\ row'[q].status \in {row[q].status, "running"}
        /\ row'[q].samples = row[q].samples /\ row'[q].cost = row[q].cost /\ row'[q].pairs = row[q].pairs
        /\ \A r \in Runs \ {q} : row'[r] = row[r]
    <3>1. row' = row \/ row' = [row EXCEPT ![q].status = "running"]
      BY <1>7 DEF Begin, Written
    <3> QED
      BY <1>2, <3>1
  <2>2. run' = [run EXCEPT ![q].at = "check"] /\ run[q].at = "begin"
        /\ UNCHANGED <<flying, setting, tasks>> /\ (faults' = faults \/ Fault)
    BY <1>7 DEF Begin, Written, Goto
  <2>3. run'[q].at = "check" /\ run'[q].cells = run[q].cells
    BY <1>2, <2>2
  <2>4. \A r \in Runs \ {q} : run'[r] = run[r]
    BY <1>2, <2>2
  <2> QED
    BY <1>1, <2>1, <2>2, <2>3, <2>4, LedgerMoves DEF Terminal
<1>8. CASE Check(q)
  <2>1. run[q].at = "check" /\ UNCHANGED <<row, flying, setting, tasks, faults>>
    BY <1>8 DEF Check
  <2>2. /\ run'[q].at \in {"wait", "acquire"} /\ run'[q].cells = run[q].cells
        /\ run'[q].at = "acquire" => run[q].cells # {}
        /\ \A r \in Runs \ {q} : run'[r] = run[r]
    BY <1>2, <1>8 DEF Check
  <2> QED
    BY <1>1, <2>1, <2>2, LedgerMoves DEF Terminal
<1>9. CASE Abandon(q) \/ Wait(q)
  <2>1. run[q].at \in {"acquire", "wait"} /\ UNCHANGED <<row, flying, setting, tasks, faults>>
    BY <1>9 DEF Abandon, Wait
  <2>2. /\ run'[q].at \in {"wait", "pair"} /\ run'[q].cells = run[q].cells
        /\ \A r \in Runs \ {q} : run'[r] = run[r]
    BY <1>2, <1>9 DEF Abandon, Wait
  <2> QED
    BY <1>1, <2>1, <2>2, LedgerMoves DEF Terminal
<1>10. CASE FinalizePairs(q)
  <2>1. /\ row'[q].status = row[q].status /\ row'[q].samples = row[q].samples /\ row'[q].cost = row[q].cost
        /\ \A r \in Runs \ {q} : row'[r] = row[r]
        /\ \/ row'[q].pairs = Pairs(q) /\ faults' = faults
           \/ row'[q].pairs = row[q].pairs /\ Fault
    <3>1. (row' = row /\ Fault) \/ (row' = [row EXCEPT ![q].pairs = Pairs(q)] /\ faults' = faults)
      BY <1>10 DEF FinalizePairs, Written
    <3>2. ASSUME NEW pairs, row' = [row EXCEPT ![q].pairs = pairs]
          PROVE  /\ row'[q].status = row[q].status /\ row'[q].samples = row[q].samples /\ row'[q].cost = row[q].cost
                 /\ row'[q].pairs = pairs
                 /\ \A r \in Runs \ {q} : row'[r] = row[r]
      BY <1>2, <3>2
    <3> QED
      BY <3>1, <3>2
  <2>2. run' = [run EXCEPT ![q].at = "finish"] /\ run[q].at = "pair"
        /\ UNCHANGED <<flying, setting, tasks>>
    BY <1>10 DEF FinalizePairs, Goto
  <2>3. run'[q].at = "finish" /\ run'[q].cells = run[q].cells
    BY <1>2, <2>2
  <2>4. \A r \in Runs \ {q} : run'[r] = run[r]
    BY <1>2, <2>2
  <2>5. faults' \in Nat /\ (faults' = 0 => faults = 0 /\ row'[q].pairs = Pairs(q))
    BY <2>1 DEF Ledger, Fault
  <2>6. Paired(q)'
    <3>1. Pairs(q)' = Pairs(q)
      BY <2>1, <2>2 DEF Pairs, Done, Cells
    <3>2. \A c \in Pairs(q) : Done(q, c) /\ Done(q, <<c[1], c[2], Baseline>>)
      BY DEF Pairs
    <3>3. \A c \in row[q].pairs : Done(q, c) /\ Done(q, <<c[1], c[2], Baseline>>)
      BY DEF Ledger, Paired
    <3>4. ASSUME NEW c \in row'[q].pairs PROVE Done(q, c)' /\ Done(q, <<c[1], c[2], Baseline>>)'
      <4>1. Done(q, c) /\ Done(q, <<c[1], c[2], Baseline>>)
        BY <2>1, <3>2, <3>3
      <4> QED
        BY <2>1, <4>1 DEF Done
    <3> QED
      BY <2>5, <3>1, <3>4 DEF Paired
  <2> QED
    BY <1>1, <2>1, <2>2, <2>3, <2>4, <2>5, <2>6, LedgerQuiet DEF Terminal
<1>11. CASE FinishRun(q)
  <2>1. /\ row'[q].status \in {row[q].status, run[q].outcome}
        /\ row'[q].samples = row[q].samples /\ row'[q].cost = row[q].cost /\ row'[q].pairs = row[q].pairs
        /\ \A r \in Runs \ {q} : row'[r] = row[r]
    <3>1. row' = row \/ row' = [row EXCEPT ![q].status = run[q].outcome]
      BY <1>11 DEF FinishRun, Written
    <3> QED
      BY <1>2, <3>1
  <2>2. run' = [run EXCEPT ![q].at = "leave"] /\ run[q].at = "finish"
        /\ UNCHANGED <<flying, setting, tasks>> /\ (faults' = faults \/ Fault)
    BY <1>11 DEF FinishRun, Written, Goto
  <2>3. run'[q].at = "leave" /\ run'[q].cells = run[q].cells
    BY <1>2, <2>2
  <2>4. \A r \in Runs \ {q} : run'[r] = run[r]
    BY <1>2, <2>2
  <2>5. row'[q].status # "none"
    BY <1>1, <2>1, <2>2 DEF EvalInv, RowFollows, Terminal
  <2> QED
    BY <1>1, <2>1, <2>2, <2>3, <2>4, <2>5, LedgerMoves
<1>12. CASE Stop(q)
  <2>1. UNCHANGED <<row, run, flying, setting, tasks, faults>>
    BY <1>12 DEF Stop
  <2> QED
    BY <1>1, <2>1, LedgerMoves
<1> QED
  BY <1>3, <1>4, <1>5, <1>6, <1>7, <1>8, <1>9, <1>10, <1>11, <1>12 DEF RunStep

LEMMA LedgerDispatch ==
    ASSUME Ledger, EvalInv, NEW q \in Runs, Dispatch(q)
    PROVE  Ledger'
<1> DEFINE c == First(run[q].cells)
           t == [run |-> q, cell |-> c, at |-> "ask", ok |-> FALSE, cost |-> 0]
           late == IF run[q].spent >= Cap THEN run[q].late + 1 ELSE run[q].late
<1>1. /\ flying' = flying \union {t}
      /\ run' = [run EXCEPT ![q].at = "check", ![q].cells = @ \ {c}, ![q].late = late]
      /\ run[q].at = "acquire" /\ UNCHANGED <<row, setting, tasks, faults>>
  BY DEF Dispatch
<1>2. c \in run[q].cells
  <2>1. run[q].cells # {} /\ run[q].cells \subseteq Cells
    BY <1>1 DEF Ledger, CellsOnce
  <2>3. Cells \subseteq Nat \X Nat \X Nat
    BY DEF Cells
  <2> QED
    BY <2>1, <2>3, FirstIsACell
<1>3. t.run = q /\ t.cell = c /\ t.at = "ask"
  OBVIOUS
<1> HIDE DEF c, t, late
<1>4. /\ run'[q].at = "check" /\ run'[q].cells = run[q].cells \ {c}
      /\ \A r \in Runs \ {q} : run'[r] = run[r]
  BY <1>1 DEF EvalInv, Shapes
<1>5. /\ Flying(q)' = Flying(q) \union {t}
      /\ \A r \in Runs \ {q} : Flying(r)' = Flying(r)
  BY <1>1, <1>3 DEF Flying
<1>6. CellsOnce(q) /\ Books(q) /\ Paired(q) /\ faults \in Nat
  BY DEF Ledger
<1>7. row[q].status \notin Terminal \union {"none"}
  BY <1>1 DEF EvalInv, RowFollows
<1>8. CellsOnce(q)'
  <2>1. \A s \in Flying(q) : s.cell # c
    BY <1>2, <1>6 DEF CellsOnce
  <2>2. \A x \in row[q].samples : x.cell # c
    BY <1>2, <1>6 DEF CellsOnce
  <2>3. \A s \in Flying(q)' : s.at \in {"ask", "bill", "save", "fold"}
    BY <1>3, <1>5, <1>6 DEF CellsOnce
  <2>4. \A s, u \in Flying(q)' : s.cell = u.cell => s = u
    BY <1>3, <1>5, <1>6, <2>1 DEF CellsOnce
  <2>5. \A s \in Flying(q)' : s.at # "fold" => \A x \in row'[q].samples : x.cell # s.cell
    BY <1>1, <1>3, <1>5, <1>6, <2>2 DEF CellsOnce
  <2>6. \A d \in run'[q].cells : (\A s \in Flying(q)' : s.cell # d) /\ \A x \in row'[q].samples : x.cell # d
    BY <1>1, <1>3, <1>4, <1>5, <1>6 DEF CellsOnce
  <2>7. run'[q].cells \subseteq Cells'
    BY <1>1, <1>4, <1>6 DEF CellsOnce, Cells
  <2>8. row'[q].status # "none"
    BY <1>1, <1>7
  <2> QED
    BY <1>4, <2>3, <2>4, <2>5, <2>6, <2>7, <2>8 DEF CellsOnce
<1>9. Books(q)'
  <2>1. {f \in Flying(q)' : f.at = "save"} = {f \in Flying(q) : f.at = "save"}
    BY <1>3, <1>5
  <2>2. Billed(q)' = Billed(q)
    BY <1>1, <2>1 DEF Billed, Saved, AsSample
  <2> QED
    BY <1>1, <1>6, <2>2 DEF Books
<1>10. Paired(q)'
  <2>1. row'[q].status \notin Terminal /\ run'[q].at # "finish"
    BY <1>1, <1>4, <1>7
  <2>2. tasks' \subseteq tasks
    BY <1>1
  <2> QED
    BY <1>1, <1>6, <2>1, <2>2, QuietPairs
<1> QED
  BY <1>1, <1>4, <1>5, <1>6, <1>8, <1>9, <1>10, LedgerAt

(* A sample in flight goes on: what holds of its run's cells and pairs.    *)
LEMMA LedgerSampled ==
    ASSUME Ledger, EvalInv, NEW s \in flying, NEW t, Step(s, t), t.run = s.run, t.cell = s.cell,
           t.at \in {"bill", "save", "fold"}, s.at # "fold",
           UNCHANGED <<run, setting, tasks>>, faults' = faults \/ Fault,
           \A r \in Runs \ {s.run} : row'[r] = row[r],
           row'[s.run].status = row[s.run].status, row'[s.run].pairs = row[s.run].pairs,
           row[s.run].samples \subseteq row'[s.run].samples,
           \A x \in row'[s.run].samples : x \in row[s.run].samples \/ (x.cell = s.cell /\ t.at = "fold"),
           Books(s.run)'
    PROVE  Ledger'
<1> DEFINE q == s.run
<1>1. flying' = (flying \ {s}) \union {t} /\ q \in Runs
  BY DEF Step, EvalInv, Shapes
<1>2. /\ Flying(q)' = (Flying(q) \ {s}) \union {t} /\ s \in Flying(q)
      /\ \A r \in Runs \ {q} : Flying(r)' = Flying(r)
  BY <1>1 DEF Flying
<1>3. CellsOnce(q) /\ Paired(q) /\ faults' \in Nat /\ (faults' = 0 => faults = 0)
  BY <1>1 DEF Ledger, Fault
<1>4. run[q].at \in {"check", "acquire", "wait"} /\ row[q].status \notin Terminal \union {"none"}
  BY <1>1 DEF EvalInv, RowFollows
<1> DEFINE old == row[q].samples
           new == row'[q].samples
<1>5. old \subseteq new /\ \A x \in new : x \in old \/ (x.cell = s.cell /\ t.at = "fold")
  OBVIOUS
<1>6. row'[q].status = row[q].status /\ row'[q].pairs = row[q].pairs
  OBVIOUS
<1>7. CellsOnce(q)'
  <2> HIDE DEF q
  <2>1. \A f \in Flying(q)' : f.at \in {"ask", "bill", "save", "fold"}
    BY <1>2, <1>3 DEF CellsOnce
  <2>2. \A f, u \in Flying(q)' : f.cell = u.cell => f = u
    BY <1>2, <1>3 DEF CellsOnce
  <2>3. \A f \in Flying(q)' : f.at # "fold" => \A x \in new : x.cell # f.cell
    BY <1>2, <1>3, <1>5 DEF CellsOnce
  <2>4. \A d \in run'[q].cells : (\A f \in Flying(q)' : f.cell # d) /\ \A x \in new : x.cell # d
    BY <1>2, <1>3, <1>5 DEF CellsOnce
  <2>5. run'[q].cells \subseteq Cells' /\ (run'[q].at = "acquire" => run'[q].cells # {})
    BY <1>3 DEF CellsOnce, Cells
  <2>6. row'[q].status # "none" /\ run'[q].at \notin {"created", "entered", "prepare", "begin"}
    BY <1>4, <1>6
  <2> QED
    BY <2>1, <2>2, <2>3, <2>4, <2>5, <2>6 DEF CellsOnce
<1>8. Paired(q)'
  <2> HIDE DEF q
  <2>1. ASSUME NEW d \in row'[q].pairs PROVE Done(q, d)' /\ Done(q, <<d[1], d[2], Baseline>>)'
    <3>1. Done(q, d) /\ Done(q, <<d[1], d[2], Baseline>>)
      BY <1>3, <1>6 DEF Paired
    <3> QED
      BY <1>5, <3>1 DEF Done
  <2>2. run'[q].at # "finish" /\ row'[q].status \notin Terminal
    BY <1>4, <1>6
  <2> QED
    BY <2>1, <2>2 DEF Paired
<1>9. Books(q)'
  OBVIOUS
<1>10. \A r \in Runs \ {q} : row'[r] = row[r]
  OBVIOUS
<1> HIDE DEF q
<1> QED
  BY <1>1, <1>2, <1>3, <1>7, <1>8, <1>9, <1>10, LedgerAt

LEMMA LedgerSample ==
    ASSUME Ledger, EvalInv, RunSpend, NEW s \in flying, SampleStep(s)
    PROVE  Ledger'
<1> DEFINE q == s.run
<1>1. /\ q \in Runs /\ DOMAIN s = {"run", "cell", "at", "ok", "cost"} /\ s \in Flying(q)
      /\ DOMAIN row = Runs /\ DOMAIN row[q] = {"status", "cost", "samples", "pairs"}
      /\ DOMAIN run = Runs
  BY DEF EvalInv, Shapes, Flying
<1>2. CellsOnce(q) /\ Books(q) /\ Paired(q) /\ faults \in Nat
  BY <1>1 DEF Ledger
<1>3. run[q].at \in {"check", "acquire", "wait"} /\ row[q].status \notin Terminal \union {"none"}
  BY <1>1 DEF EvalInv, RowFollows
<1>4. IsFiniteSet(Billed(q)) /\ \A x \in Billed(q) : x.cost \in Nat
  BY <1>1, <1>2, BilledFinite DEF RunSpend
<1>5. s.cost \in Nat
  BY RunnerAssumption DEF RunSpend, FlightsFit
<1>6. CASE Ask(s)
  <2>1. PICK ok \in BOOLEAN, cost \in setting.costs : Step(s, [s EXCEPT !.at = "bill", !.ok = ok, !.cost = cost])
    BY <1>6 DEF Ask
  <2> DEFINE t == [s EXCEPT !.at = "bill", !.ok = ok, !.cost = cost]
  <2>2. t.run = q /\ t.cell = s.cell /\ t.at = "bill"
    BY <1>1
  <2> HIDE DEF t
  <2>3. Step(s, t) /\ s.at = "ask" /\ UNCHANGED <<row, run, setting, tasks, faults>>
    BY <1>6, <2>1 DEF Ask, t
  <2>4. Flying(q)' = (Flying(q) \ {s}) \union {t}
    BY <2>2, <2>3 DEF Step, Flying
  <2>5. {f \in Flying(q)' : f.at = "save"} = {f \in Flying(q) : f.at = "save"}
    BY <2>2, <2>3, <2>4
  <2>6. Billed(q)' = Billed(q)
    BY <2>3, <2>5 DEF Billed, Saved, AsSample
  <2>7. Books(q)'
    BY <1>2, <2>3, <2>6 DEF Books
  <2> QED
    BY <2>2, <2>3, <2>7, LedgerSampled
<1>7. CASE AddRunCost(s)
  <2> DEFINE t == [s EXCEPT !.at = "save"]
  <2>1. t.run = q /\ t.cell = s.cell /\ t.at = "save" /\ t.ok = s.ok /\ t.cost = s.cost
    BY <1>1
  <2> HIDE DEF t
  <2>2. Step(s, t) /\ s.at = "bill" /\ UNCHANGED <<run, setting, tasks>>
    BY <1>7 DEF AddRunCost, t
  <2>3. \/ row' = [row EXCEPT ![q].cost = @ + s.cost] /\ faults' = faults
        \/ row' = row /\ Fault
    BY <1>7 DEF AddRunCost, Written
  <2>4. /\ \A r \in Runs \ {q} : row'[r] = row[r]
        /\ row'[q].status = row[q].status /\ row'[q].samples = row[q].samples /\ row'[q].pairs = row[q].pairs
        /\ \/ row'[q].cost = row[q].cost + s.cost /\ faults' = faults
           \/ row'[q].cost = row[q].cost /\ Fault
    BY <1>1, <2>3
  <2>5. Flying(q)' = (Flying(q) \ {s}) \union {t}
    BY <2>1, <2>2 DEF Step, Flying
  <2>6. {f \in Flying(q)' : f.at = "save"} = {f \in Flying(q) : f.at = "save"} \union {t}
    BY <2>1, <2>2, <2>5
  <2> DEFINE x == AsSample(s)
  <2>7. AsSample(t) = x /\ x.cost = s.cost /\ x.cell = s.cell
    BY <2>1 DEF AsSample
  <2>8. Saved(q)' = Saved(q) \union {x}
    <3>1. Saved(q)' = {AsSample(f) : f \in {g \in Flying(q)' : g.at = "save"}}
      BY DEF Saved, AsSample
    <3> HIDE DEF x
    <3> QED
      BY <2>6, <2>7, <3>1 DEF Saved
  <2>9. Billed(q)' = Billed(q) \union {x}
    BY <2>4, <2>8 DEF Billed
  <2>10. x \notin Billed(q)
    <3>1. \A y \in row[q].samples : y.cell # s.cell
      BY <1>1, <1>2, <2>2 DEF CellsOnce
    <3>2. ASSUME NEW f \in Flying(q), f.at = "save" PROVE f.cell # s.cell
      BY <1>1, <1>2, <2>2, <3>2 DEF CellsOnce
    <3>3. \A y \in Saved(q) : y.cell # s.cell
      BY <3>2 DEF Saved, AsSample
    <3> HIDE DEF x
    <3> QED
      BY <2>7, <3>1, <3>3 DEF Billed
  <2> HIDE DEF x
  <2>11. Total(Billed(q)') = Total(Billed(q)) + s.cost /\ Total(Billed(q)) \in Nat
    <3>1. Total(Billed(q)) \in Nat
      BY <1>4, TotalWithout
    <3>2. x.cost \in Nat
      BY <1>5, <2>7
    <3>3. Total(Billed(q) \union {x}) = Total(Billed(q)) + x.cost
      BY <1>4, <2>10, <3>2, TotalWith
    <3> QED
      BY <2>7, <2>9, <3>1, <3>3
  <2>12. Books(q)'
    <3>1. IsFiniteSet(row'[q].samples) /\ row'[q].cost \in Nat /\ \A y \in row'[q].samples : y.cost \in Nat
      BY <1>2, <1>5, <2>4 DEF Books
    <3>2. faults' = 0 => faults = 0 /\ row'[q].cost = row[q].cost + s.cost
      BY <1>2, <2>4 DEF Fault
    <3>3. faults = 0 => row[q].cost = Total(Billed(q))
      BY <1>2, <1>3 DEF Books
    <3>4. faults' = 0 => row'[q].cost = Total(Billed(q)')
      BY <2>11, <3>2, <3>3
    <3>5. Total(Billed(q)') >= Total(Billed(q)')
      BY <1>5, <2>11
    <3>6. faults' = 0 => row'[q].cost >= Total(Billed(q)')
      BY <3>4, <3>5
    <3>7. Total(Billed(q))' = Total(Billed(q)')
      OBVIOUS
    <3> QED
      BY <3>1, <3>4, <3>6, <3>7 DEF Books
  <2>13. \A y \in row'[q].samples : y \in row[q].samples
    BY <2>4
  <2>14. faults' = faults \/ Fault
    BY <2>3
  <2>15. s.at # "fold" /\ t.at \in {"bill", "save", "fold"} /\ row[q].samples \subseteq row'[q].samples
    BY <2>1, <2>2, <2>4
  <2> QED
    BY <2>1, <2>2, <2>4, <2>12, <2>13, <2>14, <2>15, LedgerSampled
<1>8. CASE AddSample(s)
  <2> DEFINE t == [s EXCEPT !.at = "fold"]
             x == AsSample(s)
  <2>1. t.run = q /\ t.cell = s.cell /\ t.at = "fold"
    BY <1>1
  <2> HIDE DEF t
  <2>2. Step(s, t) /\ s.at = "save" /\ UNCHANGED <<run, setting, tasks>>
    BY <1>8 DEF AddSample, t
  <2>3. \/ row' = [row EXCEPT ![q].samples = @ \union {x}] /\ faults' = faults
        \/ row' = row /\ Fault
    BY <1>8 DEF AddSample, Written, AsSample
  <2>4. x.cost = s.cost /\ x.cell = s.cell
    BY DEF AsSample
  <2> HIDE DEF x
  <2>5. /\ \A r \in Runs \ {q} : row'[r] = row[r]
        /\ row'[q].status = row[q].status /\ row'[q].cost = row[q].cost /\ row'[q].pairs = row[q].pairs
        /\ \/ row'[q].samples = row[q].samples \union {x} /\ faults' = faults
           \/ row'[q].samples = row[q].samples /\ Fault
    BY <1>1, <2>3
  <2>6. Flying(q)' = (Flying(q) \ {s}) \union {t}
    BY <2>1, <2>2 DEF Step, Flying
  <2>7. Books(q)'
    <3>1. IsFiniteSet(row'[q].samples) /\ \A y \in row'[q].samples : y.cost \in Nat
      <4>1. IsFiniteSet(row[q].samples \union {x})
        BY <1>2, FS_AddElement DEF Books
      <4> QED
        BY <1>2, <1>5, <2>4, <2>5, <4>1 DEF Books
    <3>2. faults' = 0 => faults = 0 /\ row'[q].samples = row[q].samples \union {x}
      BY <1>2, <2>5 DEF Fault
    <3>3. faults = 0 => row[q].cost = Total(Billed(q)) /\ row[q].cost >= Total(Billed(q))
      BY <1>2, <1>3 DEF Books
    <3>4. row'[q].samples = row[q].samples \union {x} => Billed(q)' = Billed(q)
      <4>1. Saved(q) = Saved(q)' \union {x}
        <5>1. Saved(q)' = {AsSample(f) : f \in {g \in Flying(q)' : g.at = "save"}}
          BY DEF Saved, AsSample
        <5>2. {f \in Flying(q) : f.at = "save"} = {f \in Flying(q)' : f.at = "save"} \union {s}
          BY <1>1, <2>1, <2>2, <2>6
        <5> QED
          BY <5>1, <5>2 DEF Saved, x
      <4> QED
        BY <4>1 DEF Billed
    <3>5. row'[q].cost \in Nat /\ row'[q].cost = row[q].cost
      BY <1>2, <2>5 DEF Books
    <3>6. Total(Billed(q))' = Total(Billed(q)')
      OBVIOUS
    <3> QED
      BY <3>1, <3>2, <3>3, <3>4, <3>5, <3>6 DEF Books
  <2>8. row[q].samples \subseteq row'[q].samples
        /\ \A y \in row'[q].samples : y \in row[q].samples \/ (y.cell = s.cell /\ t.at = "fold")
    BY <2>1, <2>4, <2>5
  <2>9. s.at # "fold" /\ t.at \in {"bill", "save", "fold"} /\ (faults' = faults \/ Fault)
    BY <2>1, <2>2, <2>3
  <2> QED
    BY <2>1, <2>2, <2>5, <2>7, <2>8, <2>9, LedgerSampled
<1>9. CASE Fold(s)
  <2>1. /\ flying' = flying \ {s} /\ s.at = "fold" /\ UNCHANGED <<row, setting, tasks, faults>>
        /\ run' = [run EXCEPT ![q].spent = @ + s.cost]
    BY <1>9 DEF Fold
  <2>2. \A r \in Runs : run'[r].at = run[r].at /\ run'[r].cells = run[r].cells
    BY <2>1 DEF EvalInv, Shapes
  <2>3. /\ Flying(q)' = Flying(q) \ {s}
        /\ \A r \in Runs \ {q} : Flying(r)' = Flying(r)
    BY <2>1 DEF Flying
  <2>4. CellsOnce(q)'
    BY <1>1, <1>2, <2>1, <2>2, <2>3 DEF CellsOnce, Cells
  <2>5. {f \in Flying(q)' : f.at = "save"} = {f \in Flying(q) : f.at = "save"}
    BY <2>1, <2>3
  <2>6. Billed(q)' = Billed(q)
    BY <2>1, <2>5 DEF Billed, Saved, AsSample
  <2>7. Books(q)'
    BY <1>1, <1>2, <2>1, <2>2, <2>6 DEF Books
  <2>8. Paired(q)'
    <3>1. tasks' \subseteq tasks
      BY <2>1
    <3> QED
      BY <1>1, <1>2, <2>1, <2>2, <3>1, QuietPairs
  <2> HIDE DEF q
  <2> QED
    BY <1>1, <1>2, <2>1, <2>2, <2>3, <2>4, <2>7, <2>8, LedgerAt
<1> QED
  BY <1>6, <1>7, <1>8, <1>9 DEF SampleStep

(* The process is gone, by a crash or an exit, and the rows stay.          *)
LEMMA LedgerDown ==
    ASSUME Ledger, EvalInv, RunSpend, Down
    PROVE  Ledger'
<1>1. /\ run' = [r \in Runs |-> Asleep] /\ flying' = {} /\ UNCHANGED <<row, tasks, faults, setting>>
  BY DEF Down
<1>2. ASSUME NEW r \in Runs PROVE CellsOnce(r)' /\ Books(r)' /\ Paired(r)'
  <2>1. CellsOnce(r) /\ Books(r) /\ Paired(r)
    BY DEF Ledger
  <2>2. Flying(r)' = {} /\ run'[r].at = "idle" /\ run'[r].cells = {}
    BY <1>1 DEF Flying, Asleep
  <2>3. row'[r] = row[r] /\ faults' = faults
    BY <1>1
  <2>4. CellsOnce(r)'
    BY <2>1, <2>2, <2>3 DEF CellsOnce
  <2>5. Saved(r)' = {}
    BY <2>2 DEF Saved, AsSample
  <2>6. Billed(r)' = row[r].samples /\ row[r].samples \subseteq Billed(r)
    BY <2>3, <2>5 DEF Billed
  <2>7. /\ Total(Billed(r)') <= Total(Billed(r))
        /\ Total(Billed(r)') \in Nat /\ Total(Billed(r)) \in Nat
    <3>1. IsFiniteSet(Billed(r)) /\ \A x \in Billed(r) : x.cost \in Nat
      BY <2>1, BilledFinite DEF RunSpend
    <3>2. Total(row[r].samples) <= Total(Billed(r)) /\ Total(Billed(r)) \in Nat
      BY <2>6, <3>1, TotalGrows, TotalWithout
    <3>3. Total(row[r].samples) \in Nat
      BY <2>1, TotalWithout DEF Books
    <3> QED
      BY <2>6, <3>2, <3>3
  <2>8. row[r].status \in Terminal \union {"none"} => Billed(r)' = Billed(r)
    <3>1. ASSUME row[r].status \in Terminal \union {"none"} PROVE Flying(r) = {}
      BY <3>1 DEF EvalInv, RowFollows, Flying
    <3> QED
      BY <2>6, <3>1 DEF Billed, Saved
  <2>9. Books(r)'
    <3>1. Total(Billed(r))' = Total(Billed(r)')
      OBVIOUS
    <3>2. row[r].cost \in Nat
      BY <2>1 DEF Books
    <3>3. faults = 0 => row[r].cost >= Total(Billed(r)')
      BY <2>1, <2>7, <3>2 DEF Books
    <3>4. faults = 0 /\ row[r].status \in Terminal \union {"none"} => row[r].cost = Total(Billed(r)')
      BY <2>1, <2>8 DEF Books
    <3> QED
      BY <2>1, <2>2, <2>3, <3>1, <3>3, <3>4 DEF Books
  <2>10. Paired(r)'
    <3>1. tasks' \subseteq tasks /\ setting' = setting
      BY <1>1
    <3> QED
      BY <2>1, <2>2, <2>3, <3>1, QuietPairs
  <2> QED
    BY <2>4, <2>9, <2>10
<1> QED
  BY <1>1, <1>2 DEF Ledger

(* A step that leaves the runs and their samples alone.                    *)
LEMMA LedgerAside ==
    ASSUME Ledger, UNCHANGED <<row, run, flying, setting>>, tasks' \subseteq tasks,
           faults' \in Nat, faults' = 0 => faults = 0
    PROVE  Ledger'
<1>1. ASSUME NEW r \in Runs PROVE CellsOnce(r)' /\ Books(r)' /\ Paired(r)'
  <2>1. Flying(r)' = Flying(r)
    BY DEF Flying
  <2> QED
    BY <2>1, Elsewhere DEF Ledger
<1> QED
  BY <1>1 DEF Ledger

LEMMA LedgerKeeps == EvalInv /\ RunSpend /\ Ledger /\ [Next]_vars => Ledger'
<1> SUFFICES ASSUME EvalInv, RunSpend, Ledger, [Next]_vars PROVE Ledger'
  OBVIOUS
<1> DEFINE Aside == /\ UNCHANGED <<row, run, flying, setting>> /\ tasks' \subseteq tasks
                    /\ faults' = faults \/ faults' = faults + 1
<1>1. Aside => Ledger'
  <2> SUFFICES ASSUME Aside PROVE Ledger'
    OBVIOUS
  <2>1. faults' \in Nat /\ (faults' = 0 => faults = 0)
    BY DEF Ledger
  <2> QED
    BY <2>1, LedgerAside
<1> HIDE DEF Aside
<1>2. CASE UNCHANGED vars
  BY <1>1, <1>2 DEF vars, runnerVars, memory, Aside
<1>3. ASSUME NEW q \in Runs, Create(q) \/ RunStep(q) \/ Stop(q) PROVE Ledger'
  BY <1>3, LedgerRun, LedgerDispatch
<1>4. ASSUME NEW p \in Passes, PassStep(p) \/ \E r \in Runs : Look(p, r) PROVE Aside
  BY <1>4 DEF PassStep, Look, EnterPass, LaunchPass, NextItem, TakeSlot, LeaveQueue, EndPass,
              runnerVars, memory, Aside
<1>5. ASSUME NEW g \in grading, GradingStep(g) PROVE Aside
  <2>1. CASE RecordCost(g)
    <3>1. faults' = faults \/ faults' = faults + 1
      BY <2>1 DEF RecordCost, AddJudgeCost, Fault
    <3> QED
      BY <2>1, <3>1 DEF RecordCost, memory, Aside
  <2>2. CASE Blind(g) \/ AskBackend(g) \/ Record(g) \/ ReadTotal(g)
    BY <2>2 DEF Blind, AskBackend, Record, ReadTotal, runnerVars, memory, Aside
  <2> QED
    BY <1>5, <2>1, <2>2 DEF GradingStep
<1>6. CASE HaltStep \/ CatchPasses \/ StopPasses \/ Panic \/ Resume \/ \E t \in tasks : DeleteTask(t)
  BY <1>1, <1>6 DEF HaltStep, Catch, StopAll, CatchPasses, StopPasses, Panic, Resume, DeleteTask, memory, Aside
<1>7. CASE ShutdownJudge \/ Shutdown \/ \E i \in AllItems, by \in {Operator, "mcp"} : Mark(i, by)
  BY <1>1, <1>7 DEF ShutdownJudge, Shutdown, Mark, memory, runnerVars, Aside
<1>8. CASE DownWithJudge
  BY <1>8, LedgerDown DEF DownWithJudge, Exit, Crash
<1>9. CASE Next
  <2>1. CASE \E q \in Runs : (Create(q) \/ RunStep(q) \/ Stop(q)) /\ UNCHANGED judgeVars
    BY <1>3, <2>1
  <2>2. CASE \E s \in flying : SampleStep(s) /\ UNCHANGED judgeVars
    BY <2>2, LedgerSample
  <2>3. CASE \E p \in Passes : PassStep(p) \/ \E r \in Runs : Look(p, r)
    BY <1>1, <1>4, <2>3
  <2>4. CASE \E g \in grading : GradingStep(g)
    BY <1>1, <1>5, <2>4
  <2> QED
    BY <1>6, <1>7, <1>8, <1>9, <2>1, <2>2, <2>3, <2>4 DEF Next
<1> QED
  BY <1>2, <1>9

-----------------------------------------------------------------------------
(* However a run ended, its pairs are those of its samples, and its cost   *)
(* is the sum of theirs; a crash leaves a cost that covers them.           *)
THEOREM RowsAddUp == Spec => []RunAddsUp
<1> DEFINE Inv == EvalInv /\ RunSpend /\ Ledger
<1>1. Init => Inv
  BY EvalInit, SpendInit, LedgerInit
<1>2. Inv /\ [Next]_vars => Inv'
  BY EvalKeeps, SpendKeeps, LedgerKeeps
<1>3. Inv => RunAddsUp
  <2> SUFFICES ASSUME Inv PROVE RunAddsUp
    OBVIOUS
  <2>1. ASSUME NEW r \in Runs PROVE Books(r) /\ Paired(r)
    BY DEF Ledger
  <2>2. PairsComplete
    BY <2>1 DEF Paired, PairsComplete
  <2>3. ASSUME NEW r \in Runs, faults = 0
        PROVE  row[r].cost >= CostOf(r) /\ (row[r].status \in Terminal => row[r].cost = CostOf(r))
    <3>1. IsFiniteSet(Billed(r)) /\ \A x \in Billed(r) : x.cost \in Nat
      BY <2>1, BilledFinite DEF RunSpend
    <3>2. row[r].samples \subseteq Billed(r)
      BY DEF Billed
    <3>3. Total(row[r].samples) <= Total(Billed(r)) /\ Total(Billed(r)) \in Nat
      BY <3>1, <3>2, TotalGrows, TotalWithout
    <3>4. Total(row[r].samples) \in Nat
      BY <2>1, TotalWithout DEF Books
    <3>5. row[r].status \in Terminal => Billed(r) = row[r].samples
      <4>1. ASSUME row[r].status \in Terminal PROVE Flying(r) = {}
        BY <4>1 DEF EvalInv, RowFollows, Flying, Terminal
      <4> QED
        BY <4>1 DEF Billed, Saved
    <3>6. row[r].cost \in Nat /\ row[r].cost >= Total(Billed(r))
          /\ (row[r].status \in Terminal => row[r].cost = Total(Billed(r)))
      BY <2>1, <2>3 DEF Books
    <3>7. CostOf(r) = Total(row[r].samples)
      BY DEF CostOf, Total
    <3> QED
      BY <3>3, <3>4, <3>5, <3>6, <3>7
  <2> QED
    BY <2>2, <2>3 DEF RunAddsUp, HonestCost
<1> QED
  BY <1>1, <1>2, <1>3, PTL DEF Spec
=============================================================================
