-------------------------- MODULE MCApprovalChain --------------------------
(* Instances of ApprovalChain: a call with one retry, and one operator.    *)
EXTENDS ApprovalChainProps

CONSTANTS c1, shell

OneConv  == [r \in Requests |-> c1]
AllShell == [r \in Requests |-> shell]
=============================================================================
