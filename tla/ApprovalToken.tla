---------------------------- MODULE ApprovalToken ----------------------------
(***************************************************************************)
(* What an approval promises, without a map, a clock or a limit: an id is  *)
(* asked for once, answered once, and lets one execution through if the    *)
(* answer was yes.  Any number of tokens may be swept or discarded in a    *)
(* step; a spent token stays spent.                                        *)
(***************************************************************************)
CONSTANT Id
VARIABLE token

Moves == {<<"unborn", "unanswered">>, <<"unanswered", "allowed">>,
          <<"unanswered", "refused">>, <<"allowed", "spent">>}

Init == token = [i \in Id |-> "unborn"]

\* The tokens of `lost` leave, and nothing else happens.
Lose(lost) == token' = [i \in Id |-> IF i \in lost THEN "gone" ELSE token[i]]

\* One token takes one of its moves while those of `lost` leave.
Take(lost, i, to) ==
  /\ i \notin lost
  /\ <<token[i], to>> \in Moves
  /\ token' = [j \in Id |-> IF j = i THEN to ELSE IF j \in lost THEN "gone" ELSE token[j]]

Next ==
  \E lost \in SUBSET {i \in Id : token[i] \in {"unanswered", "allowed", "refused"}} :
    \/ Lose(lost)
    \/ \E i \in Id, to \in {"unanswered", "allowed", "refused", "spent"} : Take(lost, i, to)

Spec == Init /\ [][Next]_token
=============================================================================
