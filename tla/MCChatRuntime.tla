--------------------------- MODULE MCChatRuntime ---------------------------
(* ChatRuntime for TLC: budgets of each run and the symmetry of callers.   *)
EXTENDS ChatRuntime, TLC

CONSTANTS m1, m2, m3, a1, c1, c2

\* Callers are alike, and so are messages.
Alike == Permutations(Client) \cup Permutations(Msg)

\* So many messages, so many events, and at most one of each of these kinds.
Only(sends, any, kinds) ==
  [k \in Kind \cup {AnyKind, Sending} |->
     CASE k = Sending -> sends [] k = AnyKind -> any [] k \in kinds -> 1 [] OTHER -> 0]

TalkBudgets == {Only(3, 1, {"interrupt", "remove", "refuse", "steer", "gone", "error", "exit"})}

EndBudgets == {Only(1, 2, {"ask", "interrupt", "exit", "stop", "wake", "stubborn", "hang"}),
               Only(1, 2, {"stop", "limit", "hang", "stubborn", "interrupt", "exit"}),
               Only(1, 3, {"ask", "interrupt", "stop"}),
               Only(1, 2, {"interrupt", "refuse"}),
               Only(2, 2, {"steer", "interrupt", "exit"}),
               Only(2, 2, {"limit", "exit"})}

SafetyBudgets == TalkBudgets \cup EndBudgets

LiveBudgets == {Only(2, 2, {"remove", "interrupt"}), Only(1, 1, {"exit"}),
                Only(1, 2, {"stop", "freeze"}), Only(1, 3, {"hang", "freeze", "interrupt"})}

StopBudgets == {Only(1, 3, {"stop", "freeze", "interrupt"})}

LimitBudgets == {Only(3, 1, {"limit"})}
=============================================================================
