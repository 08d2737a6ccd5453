-------------------------- MODULE ApprovalContract --------------------------
(* What the approval manager promises, without threads, channels or rules: *)
(* every request is opened once and decided at most once; its action runs  *)
(* at most once, after an approval and never after anything else; and the  *)
(* submitter hears one answer, which never contradicts the decision.       *)
EXTENDS Naturals

CONSTANT Requests

VARIABLES
    row,      \* "absent", "pending", then how the request was decided
    acted,    \* how often its action ran
    answer    \* what its submitter was told

vars == <<row, acted, answer>>

Decisions == {"approved", "denied", "aborted", "expired"}

Init == /\ row = [r \in Requests |-> "absent"]
        /\ acted = [r \in Requests |-> 0]
        /\ answer = [r \in Requests |-> "none"]

Open(r) == /\ row[r] = "absent" /\ answer[r] = "none"
           /\ row' = [row EXCEPT ![r] = "pending"]
           /\ UNCHANGED <<acted, answer>>

Decide(r) == /\ row[r] = "pending"
             /\ \E d \in Decisions : row' = [row EXCEPT ![r] = d]
             /\ UNCHANGED <<acted, answer>>

(* A deadline may end several requests at once.                            *)
Expire == /\ \E late \in SUBSET {r \in Requests : row[r] = "pending"} :
               row' = [r \in Requests |-> IF r \in late THEN "expired" ELSE row[r]]
          /\ UNCHANGED <<acted, answer>>

Act(r) == /\ row[r] = "approved" /\ acted[r] = 0
          /\ acted' = [acted EXCEPT ![r] = 1]
          /\ UNCHANGED <<row, answer>>

(* A submitter may be told of a decision that was taken; that it was       *)
(* allowed by a rule or refused before the request existed; or that it     *)
(* stopped waiting.                                                        *)
Tell(r) == /\ answer[r] = "none"
           /\ \E a \in ({row[r]} \intersect Decisions) \union {"expired"}
                       \union (IF row[r] = "absent" THEN {"auto", "denied"} ELSE {}) :
                answer' = [answer EXCEPT ![r] = a]
           /\ UNCHANGED <<row, acted>>

Next == (\E r \in Requests : Open(r) \/ Decide(r) \/ Act(r) \/ Tell(r)) \/ Expire

Spec == Init /\ [][Next]_vars
=============================================================================
