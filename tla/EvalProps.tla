------------------------------ MODULE EvalProps ------------------------------
(***************************************************************************)
(* What eval runs and judging passes promise, whoever stops them when.     *)
(***************************************************************************)
EXTENDS EvalJudge

(* A terminal row is the last thing a run writes: no sample, cost or pair  *)
(* comes after it, so a client that sees a finished run, and a judge that  *)
(* takes its queue, see all of it (runner.go execute, judge.go Start).     *)
TerminalIsLast ==
    [][\A r \in Runs : row[r].status \in Terminal => row'[r] = row[r]]_vars

(* Once the emergency stop has been through, and until the operator        *)
(* resumes, nothing that spends money is left uncancelled: a run or pass   *)
(* it raced with was refused or caught ("never misses it", runner.go       *)
(* Halted).                                                                *)
PanicReachesAll ==
    halt.panicked /\ halt.at = "over" =>
        active \subseteq cancelled /\ \A p \in Judging : pass[p].cancelled

(* The cap is read before a slot is waited for, so one sample, and one     *)
(* item of a pass, may begin after it was reached, and no more; what is    *)
(* spent beyond the cap is what was in flight and that one.                *)
CapOvershoot ==
    /\ \A r \in Runs :
          /\ run[r].late <= 1
          /\ run[r].spent + MostCost * Cardinality(Flying(r)) <= Cap + (Slots + 1) * MostCost
    /\ \A p \in Passes :
          /\ pass[p].late <= 1
          /\ pass[p].spend <= JudgeCap + (JudgeSlots + 1) * 2 * MostCost

(* A run that ran, to its end, to its cap or until it was stopped, leaves  *)
(* exactly the pairs whose two samples completed, over the tasks that were *)
(* still there (pairing.go CreatePairs).                                   *)
PairsComplete ==
    \A r \in Runs :
        row[r].status \in Terminal /\ faults = 0 =>
            /\ Pairs(r) \subseteq row[r].pairs
            /\ \A c \in row[r].pairs : Done(r, c) /\ Done(r, <<c[1], c[2], Baseline>>)

(* "a crashed process still leaves an honest figure behind" (store.go      *)
(* AddRunCost): whenever the process dies, the row's cost covers every     *)
(* sample recorded, and is their sum when the run has finished.            *)
CostOf(r) == MapThenSumSet(LAMBDA s : s.cost, row[r].samples)
HonestCost ==
    faults = 0 => \A r \in Runs :
        /\ row[r].cost >= CostOf(r)
        /\ row[r].status \in Terminal => row[r].cost = CostOf(r)

(* What a run leaves behind adds up, however it ended: its pairs are those *)
(* of its samples, and its cost is theirs.                                 *)
RunAddsUp == PairsComplete /\ HonestCost

(* A run that has started ends with a terminal row, stopped or not, unless *)
(* the process dies or the store does not take the row; and a pass ends    *)
(* that no emergency stop or shutdown cancels (the slots one of those may  *)
(* take with it keep a later pass waiting).                                *)
EvalEnds ==
    /\ \A r \in Runs : run[r].at = "prepare" ~>
          row[r].status \in Terminal \/ process = "down" \/ faults > 0
    /\ \A p \in Passes : pass[p].at = "entered" ~>
          pass[p].at = "ended" \/ "panic" \in setting.happens \/ process # "up"

(* "sem bounds in-flight completions process-wide" (judge.go): a slot that *)
(* is taken belongs to an item in flight.                                  *)
JudgeSlotsReturn == tokens = Cardinality(grading)

(* "concurrent items cannot both claim the same spend" (judge.go           *)
(* recordCost): the row's judge cost never exceeds what was spent.         *)
SpendOn(r) == MapThenSumSet(LAMBDA p : pass[p].spend, {p \in Passes : pass[p].run = r})
JudgeCostIsSpend == process # "down" => \A r \in Runs : judgeCost[r] <= SpendOn(r)
=============================================================================
