------------------------- MODULE MCSessionOwnership -------------------------
(* SessionOwnership for TLC: what may go wrong in each behaviour.          *)
EXTENDS SessionOwnership, TLC

CONSTANTS c1, c2, c3, old, new

\* Conversations are alike.
Alike == Permutations(Chat)

\* So many events of these kinds.
Happen(kinds) == [k \in Kind |-> IF k \in kinds THEN 1 ELSE 0]

Troubles == {Happen({"stop", "stuck", "crash", "exit"}), Happen({"exit", "crash", "undo", "fail"}),
             Happen({"shutdown", "stuck", "stop", "undo"}), Happen({"turn", "stop", "crash", "reuse"}),
             Happen({"undo", "stuck", "crash", "reuse"}),
             [Happen({"stuck", "crash"}) EXCEPT !["crash"] = 2, !["stuck"] = 2]}
LateTroubles == {Happen({"exit"})}
=============================================================================
