------------------------------- MODULE MCTurn -------------------------------
(* One turn, two stoppers; a call that reads and one that writes.          *)
EXTENDS TurnProps, TLC

CONSTANTS t1, read, write, chat

MCTurns  == {t1}
MCChatOf == [t \in MCTurns |-> chat]
MCCalls  == {read, write}
Symmetry == Permutations(Stoppers)
=============================================================================
