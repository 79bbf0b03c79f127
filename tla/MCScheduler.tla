---------------------------- MODULE MCScheduler ----------------------------
(* Scheduler for TLC: budgets of each run.                                 *)
EXTENDS Scheduler

CONSTANTS s1, s2, e1

\* So many events, so many schedules, and at most one event of each of these kinds.
Only(any, births, kinds) ==
  [k \in Kind \cup {AnyKind} |->
     IF k = AnyKind THEN any + births ELSE IF k = "create" THEN births ELSE IF k \in kinds THEN 1 ELSE 0]

Asking == Only(3, 1, {"due", "run_now", "document", "pause", "wait", "switch"})
Stopping == Only(3, 1, {"run_now", "cancel", "usage", "unresumed", "slow", "fail"})
Breaking == Only(3, 1, {"run_now", "due", "sleep", "panic", "crash", "usage"})
Editing == Only(3, 1, {"run_now", "due", "closed", "update", "delete", "fail"})
Sharing == Only(2, 2, {"run_now", "due", "pause", "wait"})

AllBudgets == {Asking, Stopping, Breaking, Editing, Sharing}
=============================================================================
