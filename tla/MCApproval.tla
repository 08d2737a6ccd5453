----------------------------- MODULE MCApproval -----------------------------
(* Instances of Approval for TLC.  Two conversations ask for the same      *)
(* tool, so that a rule made for one of them can sweep the other's row.    *)
EXTENDS ApprovalProps, TLC

CONSTANTS c1, c2, shell

OneConv  == [r \in Requests |-> c1]
TwoConvs == CHOOSE f \in [Requests -> Convs] : \A c \in Convs : \E r \in Requests : f[r] = c
AllShell == [r \in Requests |-> shell]

Symmetry == Permutations(Threads) \union Permutations(Requests)

(* Two requests at a time, or whatever may fail, end or last with one.     *)
Focus == \/ \E r \in Requests : sub[r] = "new"
         \/ /\ faults = 0 /\ ends = 0 /\ permRules = {}
            /\ \A t \in Threads : thr[t].rule.scope # "permanent"
=============================================================================
