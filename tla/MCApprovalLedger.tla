-------------------------- MODULE MCApprovalLedger --------------------------
EXTENDS ApprovalLedger, TLC

Symmetric == Permutations(Chat) \cup Permutations(Request)
               \cup Permutations(Id) \cup Permutations(Caller)
=============================================================================
