------------------------------- MODULE MCEval -------------------------------
(* Small grids, each with something that may happen to them, and one run   *)
(* or two passes where they compete.                                       *)
EXTENDS EvalProps

Plain == [runs |-> {1}, tasks |-> 1, k |-> 1, costs |-> {1}, happens |-> {}, faults |-> 0,
          passes |-> {}, backends |-> {"model"}, marks |-> 0]

Alone   == [Plain EXCEPT !.k = 2, !.happens = {"stop"}]
Dying   == [Plain EXCEPT !.costs = {0, 1}, !.happens = {"stop", "crash"}]
Faulty  == [Plain EXCEPT !.passes = {1}, !.happens = {"stop"}, !.faults = 1]
Shared  == [Plain EXCEPT !.runs = {1, 2}]
Raced   == [Plain EXCEPT !.happens = {"stop", "panic"}]
Edited  == [Plain EXCEPT !.tasks = 2, !.happens = {"delete"}]
Judged  == [Plain EXCEPT !.passes = {1, 2}, !.costs = {0}]
Marked  == [Plain EXCEPT !.passes = {1}, !.backends = {"decider", "model"}, !.marks = 1]
Halted  == [Plain EXCEPT !.passes = {1}, !.happens = {"panic"}]
Closing == [Plain EXCEPT !.passes = {1}, !.happens = {"shutdown", "delete"}]

MCSettings == {Alone, Dying, Faulty, Shared, Raced, Edited, Judged, Marked, Halted, Closing}

(* Four items for one model pass; and a pass that an emergency stop finds. *)
Graded == [Plain EXCEPT !.k = 2, !.passes = {1}]
MCDemoSettings == {Graded, Halted}
=============================================================================
