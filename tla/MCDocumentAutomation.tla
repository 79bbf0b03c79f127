------------------------ MODULE MCDocumentAutomation ------------------------
(* DocumentAutomation for TLC: one or two triggers of one folder.          *)
EXTENDS DocumentAutomation

CONSTANTS t1, r1, f1, f2

OneHome == [t \in Trigger |-> r1]

\* So many events, so many edits, and at most one event of each of these kinds.
Up(any, edits, kinds) ==
  [k \in Kind \cup {AnyKind} |->
     IF k = AnyKind THEN any ELSE IF k = "edit" THEN edits ELSE IF k \in kinds THEN 1 ELSE 0]

AllBudgets ==
  {Up(3, 2, {"remove", "crash", "fail"}), Up(4, 2, {"drift", "update"}),
   Up(3, 2, {"disable", "enable", "delete", "test", "drift"}),
   Up(3, 2, {"create", "delete", "remove"}), Up(3, 2, {"vanish", "restrict", "crash"}),
   Up(3, 2, {"move", "crash"})}

ReviewBudgets == {Up(3, 2, {"vanish"})}
=============================================================================
