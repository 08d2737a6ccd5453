------------------------------ MODULE MCSkills ------------------------------
(* Instances of Skills for TLC: two names, and a directory that holds one  *)
(* skill, as a file or as a directory of its own.                          *)
EXTENDS SkillsProps, TLC

CONSTANTS a, b

Files(x, y)  == a :> x @@ b :> y
MCStarts     == {[flat |-> Files(1, NoText), sub |-> Files(NoText, NoText)],
                 [flat |-> Files(NoText, NoText), sub |-> Files(1, NoText)]}

Symmetry == Permutations(Threads)

(* The last call runs alone.                                               *)
LastAlone == calls = MaxCalls => Cardinality({t \in Threads : Busy(t)}) <= 1
=============================================================================
