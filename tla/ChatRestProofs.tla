--------------------------- MODULE ChatRestProofs ---------------------------
(***************************************************************************)
(* A theorem about ChatRuntime: a conversation at rest is not busy.        *)
(*                                                                         *)
(* A conversation is busy as long as something will set its phase again: a *)
(* turn in a thread's hands, in the CLI or on the way to it, a result that *)
(* is unread or not yet noted, a stop (Busy).  Only an adopted delivery    *)
(* makes it busy without: its turn is the CLI's own affair, and a watchdog *)
(* counts until there is a sign of life (RestInv).                         *)
(***************************************************************************)
EXTENDS ChatRuntimeProofs

\* What a step does, and for set_phase whether the phase is one of work.
Tag(x) == IF x.op # "set_phase" THEN x.op ELSE IF x.phase \in Active THEN "activate" ELSE "settle"
Tags(steps) == {Tag(steps[i]) : i \in DOMAIN steps}

\* Steps that end the work, or lead to one that does.
EndTags == {"open_turn", "write_turn", "unclaim", "kill", "reap", "clear", "settle"}
StopTags == {"kill", "reap", "clear"}

\* Steps that count as a sign of life of the turn, or take its number away.
SignTags == {"progress", "error", "turn_event", "emit_turn", "clear_turn"}

\* Steps that only a permission request, or the end of the process, leaves to do.
AskTags == {"answer", "note", "reinsert", "respond", "activate"}
LateTags == {"release_stdin", "judge"}

Tagged(T) == {x \in Step : Tag(x) \in T}
Bears(th, T) == Tags(todo[th]) \cap T # {}

\* After each of these comes one of those.
Followed(list, S, T) == \A i \in DOMAIN list : list[i] \in S => \E j \in DOMAIN list : i < j /\ list[j] \in T

Queued(m) == [kind |-> "lifecycle", msg |-> m, state |-> "queued"]
Started(m) == [kind |-> "lifecycle", msg |-> m, state |-> "started"]
Tracked(m) == [kind |-> "message", msg |-> m, tracked |-> TRUE]

\* What the CLI says while it works.
Lively == {f \in Output : f.kind = "content" \/ (f.kind = "lifecycle" /\ f.state = "started")}

Busy ==
  \/ \E th \in Thread : Bears(th, EndTags)
  \/ cli # "idle" \/ ToSet(inbox) \cap Message # {} \/ ToSet(outbox) \cap Results # {}

NoSign == \A th \in Thread : ~Bears(th, SignTags)

\* What has never happened has left nothing.
Unasked ==
  /\ s.approvals = {} /\ cli \notin Ask /\ \A f \in ToSet(outbox) : f.kind \notin {"ask", "cancel"}
  /\ \A th \in Thread : ~Bears(th, AskTags)
Unrefused == \A f \in ToSet(outbox) : f.kind # "refusal"
Uninterrupted ==
  /\ \A f \in ToSet(inbox) : f.kind # "interrupt"
  /\ \A th \in Thread : ~Bears(th, {"write_interrupt"})

\* A CLI that has said it works still does, or has said the result.
ResultFollows == cli = "idle" => Followed(outbox, Lively, Results)

\* The reader adopts last; who closes the pipe goes on to the kill.
AdoptLast(steps) == \A i, j \in DOMAIN steps : steps[i].op = "adopt" => j <= i
ListsOK ==
  /\ \A th \in Thread : AdoptLast(todo[th]) /\ (th = Reader \/ ~Bears(th, {"adopt"}))
  /\ \A th \in Thread : Followed(todo[th], Tagged({"close_stdin"}), Tagged(StopTags))
  /\ \A th \in Thread : exit # "no" \/ ~Bears(th, LateTags)

\* What is said of a message by others than its sender is said after it was written.
WrittenBefore ==
  /\ \A m \in DOMAIN s.delivered : s.delivered[m] # "sent" => m \in ToSet(handed)
  /\ \A f \in ToSet(outbox) : f.kind = "lifecycle" => f.msg \in ToSet(handed)
  /\ \A f \in ToSet(inbox) : f.kind = "message" => f.msg \in ToSet(handed)
  /\ \A f \in ToSet(backlog) : f.msg \in ToSet(handed)

\* A stop that is over and has not ended the process has left no delivery to wait for.
StoppedEmpty ==
  ~stdin /\ exit = "no" /\ (\A th \in Thread : ~Bears(th, StopTags))
    => DOMAIN s.delivered \cap ToSet(handed) = {}

\* Signs of life that are none of the reader's come from one who stops the conversation.
SignsOfStops == \A th \in Thread \ {Reader} : Followed(todo[th], Tagged(SignTags), Tagged(EndTags))

\* A message the CLI has kept is kept still, or the CLI has said it started.
KeptOrStarted ==
  /\ \A m \in DOMAIN s.delivered : s.delivered[m] = "queued" =>
       Tracked(m) \in ToSet(backlog) \/ Started(m) \in ToSet(outbox)
  /\ \A m \in Msg : Tracked(m) \in ToSet(backlog) \/ Followed(outbox, {Queued(m)}, {Started(m)})

RestInv ==
  /\ ResultFollows /\ ListsOK /\ WrittenBefore /\ StoppedEmpty
  /\ ~Happened("ask") => Unasked
  /\ ~Happened("refuse") => Unrefused
  /\ ~Happened("interrupt") => Uninterrupted /\ KeptOrStarted
  /\ ~Happened("ask") /\ ~Happened("gone") /\ stdin /\ exit = "no" => SignsOfStops
  /\ ~Happened("ask") /\ ~Happened("interrupt") /\ s.phase \in Active => Busy \/ backlog # << >>
  /\ ~Happened("ask") /\ ~Happened("refuse") /\ ~Happened("gone") /\ exit = "no" /\ s.phase \in Active
       => Busy \/ (s.turn \in armed /\ NoSign)

-----------------------------------------------------------------------------
(* Lists of steps by what the steps do.                                    *)

LEMMA TagsTogether ==
  ASSUME NEW a \in Seq(Step), NEW b \in Seq(Step)
  PROVE  Tags(a \o b) = Tags(a) \cup Tags(b)
<1> DEFINE c == a \o b
<1>1. /\ \A i \in DOMAIN a : i \in DOMAIN c /\ c[i] = a[i]
      /\ \A i \in DOMAIN b : Len(a) + i \in DOMAIN c /\ c[Len(a) + i] = b[i]
      /\ \A i \in DOMAIN c : (i \in DOMAIN a /\ c[i] = a[i]) \/ (i - Len(a) \in DOMAIN b /\ c[i] = b[i - Len(a)])
  BY Concatenated
<1> HIDE DEF c
<1>2. Tags(c) = Tags(a) \cup Tags(b)
  BY <1>1 DEF Tags
<1> QED
  BY <1>2 DEF c

\* These steps, and what they do.
Bundle(steps, T) == steps \in Seq(Step) /\ Tags(steps) = T

LEMMA BundleNone == Bundle(<< >>, {})
BY DEF Bundle, Tags

LEMMA BundleOne == ASSUME NEW x \in Step PROVE Bundle(<<x>>, {Tag(x)})
BY DEF Bundle, Tags

LEMMA BundleBoth ==
  ASSUME NEW a, NEW b, NEW T, NEW U, Bundle(a, T), Bundle(b, U)
  PROVE  Bundle(a \o b, T \cup U)
<1>1. a \o b \in Seq(Step)
  BY Concatenated DEF Bundle
<1> QED
  BY <1>1, TagsTogether DEF Bundle

DoOp == EasyOp \cup {"unclaim"}
MsgOp == {"deliver", "write_delivery", "forget", "requeue", "refuse"}

LEMMA Bundles ==
  /\ \A op \in DoOp : Bundle(Do(op), {op})
  /\ \A op \in MsgOp, m \in Msg : Bundle(ForMsg(op, m), {op})
  /\ \A x \in BOOLEAN : Bundle(<<[op |-> "clear", terminated |-> x]>>, {"clear"})
  /\ \A x \in BOOLEAN : Bundle(<<[op |-> "error", limit |-> x]>>, {"error"})
  /\ \A x \in Status : Bundle(EmitTurn(x), {"emit_turn"})
  /\ \A x \in Status, t \in Nat : Bundle(<<[op |-> "turn_event", turn |-> t, status |-> x]>>, {"turn_event"})
  /\ \A x \in Phase \ Active : Bundle(SetPhase(x), {"settle"})
  /\ \A x \in Active : Bundle(SetPhase(x), {"activate"})
  /\ \A x \in Decision : Bundle(<<[op |-> "note", decision |-> x]>>, {"note"})
  /\ \A a \in Ask, x \in Decision : Bundle(<<[op |-> "answer", ask |-> a, decision |-> x]>>, {"answer"})
  /\ \A a \in Ask : Bundle(<<[op |-> "reinsert", ask |-> a]>>, {"reinsert"})
  /\ \A A \in SUBSET Ask : Bundle(Responses(A), IF A = {} THEN {} ELSE {"respond"})
  /\ \A m \in Msg, t \in Nat, x \in BOOLEAN : Bundle(OpenTurn(m, t, x), {"open_turn"})
<1> USE DEF Tag
<1>1. ASSUME NEW op \in DoOp PROVE Bundle(Do(op), {op})
  <2>1. [op |-> op] \in Step /\ op # "set_phase"
    BY DEF DoOp, EasyOp, Step
  <2> QED
    BY <2>1, BundleOne DEF Do
<1>2. ASSUME NEW op \in MsgOp, NEW m \in Msg PROVE Bundle(ForMsg(op, m), {op})
  <2>1. [op |-> op, msg |-> m] \in Step /\ op # "set_phase"
    BY DEF MsgOp, Step
  <2> QED
    BY <2>1, BundleOne DEF ForMsg
<1>3. ASSUME NEW x \in BOOLEAN
      PROVE  Bundle(<<[op |-> "clear", terminated |-> x]>>, {"clear"}) /\ Bundle(<<[op |-> "error", limit |-> x]>>, {"error"})
  <2>1. [op |-> "clear", terminated |-> x] \in Step /\ [op |-> "error", limit |-> x] \in Step
    BY DEF Step
  <2> QED
    BY <2>1, BundleOne
<1>4. ASSUME NEW x \in Status PROVE Bundle(EmitTurn(x), {"emit_turn"})
  <2>1. [op |-> "emit_turn", status |-> x] \in Step
    BY DEF Step
  <2> QED
    BY <2>1, BundleOne DEF EmitTurn
<1>5. ASSUME NEW x \in Status, NEW t \in Nat
      PROVE  Bundle(<<[op |-> "turn_event", turn |-> t, status |-> x]>>, {"turn_event"})
  <2>1. [op |-> "turn_event", turn |-> t, status |-> x] \in Step
    BY DEF Step
  <2> QED
    BY <2>1, BundleOne
<1>6. ASSUME NEW x \in Phase
      PROVE  Bundle(SetPhase(x), {IF x \in Active THEN "activate" ELSE "settle"})
  <2>1. [op |-> "set_phase", phase |-> x] \in Step
    BY DEF Step
  <2> QED
    BY <2>1, BundleOne DEF SetPhase
<1>7. ASSUME NEW x \in Decision PROVE Bundle(<<[op |-> "note", decision |-> x]>>, {"note"})
  <2>1. [op |-> "note", decision |-> x] \in Step
    BY DEF Step
  <2> QED
    BY <2>1, BundleOne
<1>8. ASSUME NEW a \in Ask, NEW x \in Decision
      PROVE  /\ Bundle(<<[op |-> "answer", ask |-> a, decision |-> x]>>, {"answer"})
             /\ Bundle(<<[op |-> "reinsert", ask |-> a]>>, {"reinsert"})
  <2>1. [op |-> "answer", ask |-> a, decision |-> x] \in Step /\ [op |-> "reinsert", ask |-> a] \in Step
    BY DEF Step
  <2> QED
    BY <2>1, BundleOne
<1>9. ASSUME NEW A \in SUBSET Ask PROVE Bundle(Responses(A), IF A = {} THEN {} ELSE {"respond"})
  <2>1. [op |-> "respond", asks |-> A] \in Step
    BY DEF Step
  <2> QED
    BY <2>1, BundleOne, BundleNone DEF Responses
<1>10. ASSUME NEW m \in Msg, NEW t \in Nat, NEW x \in BOOLEAN PROVE Bundle(OpenTurn(m, t, x), {"open_turn"})
  <2>1. [op |-> "open_turn", msg |-> m, turn |-> t, back |-> x] \in Step
    BY DEF Step
  <2> QED
    BY <2>1, BundleOne DEF OpenTurn
<1>11. Active \subseteq Phase /\ \E x : x \in Decision
  BY DEF Phase, Decision
<1> QED
  BY <1>1, <1>2, <1>3, <1>4, <1>5, <1>6, <1>7, <1>8, <1>9, <1>10, <1>11

\* Some steps are put into a list: what it bears before and after.
LEMMA TagsTaken ==
  ASSUME TypeOK, NEW th \in Thread, NEW steps \in Seq(Step), Takes(th, steps)
  PROVE  /\ \A o \in Thread \ {th} : todo'[o] = todo[o]
         /\ todo'[th] = steps \o Rest(th) /\ Rest(th) \in Seq(Step)
         /\ Tags(todo'[th]) = Tags(steps) \cup Tags(Rest(th))
         /\ todo[th] = << >> => Tags(todo[th]) = {} /\ Rest(th) = << >>
         /\ todo[th] # << >> => Tags(todo[th]) = {Tag(Now(th))} \cup Tags(Rest(th)) /\ Now(th) \in Step
<1>1. /\ Rest(th) \in Seq(Step) /\ todo'[th] = steps \o Rest(th)
      /\ \A o \in Thread \ {th} : todo'[o] = todo[o]
  BY StepTaken DEF TypeOK
<1>2. Tags(todo'[th]) = Tags(steps) \cup Tags(Rest(th))
  BY <1>1, TagsTogether
<1>3. CASE todo[th] = << >>
  BY <1>1, <1>2, <1>3 DEF Tags, Rest
<1>4. CASE todo[th] # << >>
  <2> DEFINE a == todo[th]
             b == Rest(th)
             x == Now(th)
  <2>1. /\ 1 \in DOMAIN a /\ a[1] = x /\ x \in Step
        /\ \A i \in DOMAIN b : i + 1 \in DOMAIN a /\ b[i] = a[i + 1]
        /\ \A i \in DOMAIN a : i # 1 => i - 1 \in DOMAIN b /\ a[i] = b[i - 1]
    BY <1>4, HeadAndTail DEF TypeOK, Rest, Now
  <2> HIDE DEF a, b, x
  <2>2. Tags(a) = {Tag(x)} \cup Tags(b)
    BY <2>1 DEF Tags
  <2> QED
    BY <1>1, <1>2, <1>4, <2>1, <2>2 DEF a, b, x
<1> QED
  BY <1>3, <1>4

LEMMA FollowedAhead ==
  ASSUME NEW T, NEW a \in Seq(T), a # << >>, NEW S, NEW U, Followed(a, S, U)
  PROVE  /\ Followed(Tail(a), S, U) /\ Tail(a) \in Seq(T)
         /\ Head(a) \in S => ~FreeOf(Tail(a), U)
<1>1. /\ Tail(a) \in Seq(T) /\ 1 \in DOMAIN a /\ a[1] = Head(a)
      /\ \A i \in DOMAIN Tail(a) : i + 1 \in DOMAIN a /\ Tail(a)[i] = a[i + 1]
      /\ \A i \in DOMAIN a : i # 1 => i - 1 \in DOMAIN Tail(a) /\ a[i] = Tail(a)[i - 1]
      /\ DOMAIN a \subseteq Nat /\ DOMAIN Tail(a) \subseteq Nat \ {0}
  <2>1. DOMAIN a = 1 .. Len(a) /\ Len(a) \in Nat
    OBVIOUS
  <2>2. DOMAIN Tail(a) = 1 .. Len(Tail(a)) /\ Len(Tail(a)) \in Nat
    OBVIOUS
  <2> QED
    BY <2>1, <2>2, HeadAndTail
<1>2. ASSUME NEW i \in DOMAIN Tail(a), Tail(a)[i] \in S PROVE \E j \in DOMAIN Tail(a) : i < j /\ Tail(a)[j] \in U
  <2>1. PICK j \in DOMAIN a : i + 1 < j /\ a[j] \in U
    BY <1>1, <1>2 DEF Followed
  <2>2. j # 1 /\ i < j - 1
    BY <1>1, <2>1
  <2> QED
    BY <1>1, <2>1, <2>2
<1>3. ASSUME Head(a) \in S PROVE ~FreeOf(Tail(a), U)
  <2>1. PICK j \in DOMAIN a : 1 < j /\ a[j] \in U
    BY <1>1, <1>3 DEF Followed
  <2>2. j # 1
    BY <1>1, <2>1
  <2>3. j - 1 \in DOMAIN Tail(a) /\ Tail(a)[j - 1] \in U
    BY <1>1, <2>1, <2>2
  <2> QED
    BY <2>3 DEF FreeOf
<1> QED
  BY <1>1, <1>2, <1>3 DEF Followed

LEMMA FollowedTogether ==
  ASSUME NEW T, NEW a \in Seq(T), NEW b \in Seq(T), NEW S, NEW U, Followed(b, S, U),
         Followed(a, S, U) \/ ~FreeOf(b, U)
  PROVE  Followed(a \o b, S, U)
<1> DEFINE n == Len(a)
           c == a \o b
<1>1. /\ n \in Nat /\ DOMAIN a = 1 .. n /\ DOMAIN b \subseteq Nat \ {0}
      /\ \A i \in DOMAIN a : i \in DOMAIN c /\ c[i] = a[i]
      /\ \A i \in DOMAIN b : n + i \in DOMAIN c /\ c[n + i] = b[i]
      /\ \A i \in DOMAIN c : \/ i \in DOMAIN a /\ c[i] = a[i]
                             \/ i - n \in DOMAIN b /\ c[i] = b[i - n]
      /\ DOMAIN c \subseteq Nat
  <2>1. Len(c) \in Nat /\ DOMAIN c = 1 .. Len(c) /\ n \in Nat /\ DOMAIN a = 1 .. n
    OBVIOUS
  <2>2. DOMAIN b = 1 .. Len(b) /\ Len(b) \in Nat
    OBVIOUS
  <2> QED
    BY <2>1, <2>2, Concatenated
<1> HIDE DEF n, c
<1> SUFFICES ASSUME NEW i \in DOMAIN c, c[i] \in S PROVE \E j \in DOMAIN c : i < j /\ c[j] \in U
  BY DEF Followed, c
<1>2. CASE i \in DOMAIN a /\ c[i] = a[i] /\ Followed(a, S, U)
  BY <1>1, <1>2 DEF Followed
<1>3. CASE i \in DOMAIN a /\ ~FreeOf(b, U)
  <2>1. PICK j \in DOMAIN b : b[j] \in U
    BY <1>3 DEF FreeOf
  <2>2. i < n + j
    BY <1>1, <1>3, <2>1
  <2> QED
    BY <1>1, <2>1, <2>2
<1>4. CASE i - n \in DOMAIN b /\ c[i] = b[i - n]
  <2>1. PICK j \in DOMAIN b : i - n < j /\ b[j] \in U
    BY <1>4 DEF Followed
  <2>2. i < n + j
    BY <1>1, <2>1
  <2> QED
    BY <1>1, <2>1, <2>2
<1> QED
  BY <1>1, <1>2, <1>3, <1>4

\* What is said of tags is said of steps.
LEMMA TaggedSteps ==
  ASSUME NEW steps \in Seq(Step), NEW T
  PROVE  /\ FreeOf(steps, Tagged(T)) <=> Tags(steps) \cap T = {}
         /\ \A U : Tags(steps) \cap T = {} => Followed(steps, Tagged(T), U)
<1>1. \A i \in DOMAIN steps : steps[i] \in Step
  OBVIOUS
<1>2. FreeOf(steps, Tagged(T)) <=> Tags(steps) \cap T = {}
  BY <1>1 DEF FreeOf, Tags, Tagged
<1> QED
  BY <1>2 DEF FreeOf, Followed

\* Steps of one kind, and after them one of another.
LEMMA FollowedBy ==
  ASSUME NEW a, NEW b, NEW T, NEW U, NEW S, NEW E, Bundle(a, T), Bundle(b, U), U \cap S = {}, U \cap E # {}
  PROVE  Followed(a \o b, Tagged(S), Tagged(E))
<1>1. a \in Seq(Step) /\ b \in Seq(Step) /\ Followed(b, Tagged(S), Tagged(E)) /\ ~FreeOf(b, Tagged(E))
  BY TaggedSteps DEF Bundle
<1> QED
  BY <1>1, FollowedTogether

LEMMA AdoptsLast ==
  ASSUME NEW a \in Seq(Step)
  PROVE  /\ "adopt" \notin Tags(a) => AdoptLast(a)
         /\ a # << >> /\ AdoptLast(a) => AdoptLast(Tail(a)) /\ (Head(a).op = "adopt" => Tail(a) = << >>)
         /\ \A b \in Seq(Step) : "adopt" \notin Tags(a) /\ AdoptLast(b) => AdoptLast(a \o b)
<1>0. \A b \in Seq(Step) : "adopt" \notin Tags(b) => \A i \in DOMAIN b : b[i].op # "adopt"
  BY DEF Tags, Tag
<1>1. "adopt" \notin Tags(a) => AdoptLast(a)
  BY <1>0 DEF AdoptLast
<1>2. ASSUME a # << >>, AdoptLast(a) PROVE AdoptLast(Tail(a)) /\ (Head(a).op = "adopt" => Tail(a) = << >>)
  <2>1. /\ 1 \in DOMAIN a /\ a[1] = Head(a) /\ Tail(a) \in Seq(Step)
        /\ \A i \in DOMAIN Tail(a) : i + 1 \in DOMAIN a /\ Tail(a)[i] = a[i + 1]
    BY <1>2, HeadAndTail
  <2>2. DOMAIN Tail(a) \subseteq Nat \ {0} /\ (Tail(a) # << >> => 1 \in DOMAIN Tail(a))
    <3>1. DOMAIN Tail(a) = 1 .. Len(Tail(a)) /\ Len(Tail(a)) \in Nat /\ (Tail(a) # << >> => Len(Tail(a)) # 0)
      BY <2>1
    <3> QED
      BY <3>1
  <2>3. AdoptLast(Tail(a))
    <3> SUFFICES ASSUME NEW i \in DOMAIN Tail(a), NEW j \in DOMAIN Tail(a), Tail(a)[i].op = "adopt" PROVE j <= i
      BY DEF AdoptLast
    <3>1. j + 1 <= i + 1
      BY <1>2, <2>1 DEF AdoptLast
    <3> QED
      BY <2>2, <3>1
  <2>4. ASSUME Head(a).op = "adopt", Tail(a) # << >> PROVE FALSE
    <3>1. 1 + 1 <= 1
      BY <1>2, <2>1, <2>2, <2>4 DEF AdoptLast
    <3> QED
      BY <3>1
  <2> QED
    BY <2>3, <2>4
<1>3. ASSUME NEW b \in Seq(Step), "adopt" \notin Tags(a), AdoptLast(b) PROVE AdoptLast(a \o b)
  <2> DEFINE n == Len(a)
             c == a \o b
  <2>1. /\ n \in Nat /\ DOMAIN a = 1 .. n /\ DOMAIN b \subseteq Nat \ {0}
        /\ \A i \in DOMAIN c : \/ i \in DOMAIN a /\ c[i] = a[i]
                               \/ i - n \in DOMAIN b /\ c[i] = b[i - n]
        /\ DOMAIN c \subseteq Nat
    <3>1. Len(c) \in Nat /\ DOMAIN c = 1 .. Len(c) /\ n \in Nat /\ DOMAIN a = 1 .. n
      OBVIOUS
    <3>2. DOMAIN b = 1 .. Len(b) /\ Len(b) \in Nat
      OBVIOUS
    <3> QED
      BY <3>1, <3>2, Concatenated
  <2> HIDE DEF n, c
  <2> SUFFICES ASSUME NEW i \in DOMAIN c, NEW j \in DOMAIN c, c[i].op = "adopt" PROVE j <= i
    BY DEF AdoptLast, c
  <2>2. i - n \in DOMAIN b /\ c[i] = b[i - n]
    BY <1>0, <1>3, <2>1
  <2>3. CASE j \in DOMAIN a
    BY <2>1, <2>2, <2>3
  <2>4. CASE j - n \in DOMAIN b
    <3>1. j - n <= i - n
      BY <1>3, <2>2, <2>4 DEF AdoptLast
    <3> QED
      BY <2>1, <3>1
  <2> QED
    BY <2>1, <2>3, <2>4
<1> QED
  BY <1>1, <1>2, <1>3

-----------------------------------------------------------------------------
(* What every step of the program puts into a list, and takes from it.     *)

Done(th) == IF todo[th] = << >> THEN {} ELSE {Tag(Now(th))}

RareTags == LateTags \cup {"write_interrupt", "adopt", "close_stdin"}

\* Signs of life come from signs of life, with an end, or from what the CLI says.
Signed(th, T) ==
  \/ Done(th) \cap SignTags # {} \/ T \cap EndTags # {}
  \/ th = Reader /\ outbox # << >> /\ Head(outbox).kind \in {"content", "refusal"}
SignedLate(th, steps) ==
  \/ th = Reader \/ Done(th) \cap (SignTags \cup {"judge"}) # {}
  \/ Happened("gone")' \/ ~stdin' \/ exit' # "no"
  \/ Followed(steps, Tagged(SignTags), Tagged(EndTags))

Modest(th, steps, T) ==
  /\ T \cap AskTags # {} => ~Unasked
  /\ "write_interrupt" \in T => Happened("interrupt")'
  /\ T \cap LateTags # {} => exit # "no"
  /\ "adopt" \in T => th = Reader /\ todo[th] = << >> /\ AdoptLast(steps)
  /\ Followed(steps, Tagged({"close_stdin"}), Tagged(StopTags))
  /\ T \cap SignTags # {} => ~Unasked \/ (Signed(th, T) /\ SignedLate(th, steps))

Leaves(th, T) ==
  /\ Done(th) \cap EndTags # {} =>
       T \cap EndTags # {} \/ s'.phase \notin Active \/ ToSet(inbox') \cap Message # {}
  /\ Done(th) \cap StopTags # {} => T \cap StopTags # {} \/ s'.delivered = << >>

Orderly(th) == \E steps, T : Bundle(steps, T) /\ Takes(th, steps) /\ Modest(th, steps, T) /\ Leaves(th, T)

LEMMA DoneAt ==
  ASSUME NEW th \in Thread, NEW op, At(th, op)
  PROVE  /\ todo[th] # << >> /\ Now(th).op = op
         /\ op # "set_phase" => Done(th) = {op}
BY DEF At, Done, Tag, Now

LEMMA BornBefore ==
  ASSUME TypeOK, NEW th \in Thread
  PROVE  Done(th) \subseteq Tags(todo[th])
<1>1. CASE todo[th] # << >>
  <2>1. 1 \in DOMAIN todo[th] /\ todo[th][1] = Now(th)
    BY <1>1, HeadAndTail DEF TypeOK, Now
  <2> QED
    BY <1>1, <2>1 DEF Done, Tags
<1> QED
  BY <1>1 DEF Done

LEMMA AskDone ==
  ASSUME TypeOK, NEW th \in Thread, Done(th) \cap AskTags # {}
  PROVE  ~Unasked
BY BornBefore DEF Unasked, Bears

\* Nothing rare.
LEMMA CommonModest ==
  ASSUME NEW th, NEW steps, NEW T, Bundle(steps, T), T \cap RareTags = {},
         T \cap AskTags # {} => ~Unasked,
         T \cap SignTags # {} => ~Unasked \/ (Signed(th, T) /\ SignedLate(th, steps))
  PROVE  Modest(th, steps, T)
<1>1. Followed(steps, Tagged({"close_stdin"}), Tagged(StopTags))
  <2>1. Tags(steps) \cap {"close_stdin"} = {}
    BY DEF Bundle, RareTags
  <2> QED
    BY <2>1, TaggedSteps DEF Bundle
<1> QED
  BY <1>1 DEF Modest, RareTags

LEMMA OrderlyThen ==
  ASSUME NEW th, NEW steps, NEW T, Bundle(steps, T), T \cap (RareTags \cup AskTags \cup SignTags) = {},
         Takes(th, steps), Leaves(th, T)
  PROVE  Orderly(th)
BY CommonModest DEF Orderly

LEMMA OrderlyBegin ==
  ASSUME NEW th, NEW steps, NEW T, Bundle(steps, T), Begin(th, steps), Modest(th, steps, T)
  PROVE  Orderly(th)
BY DEF Orderly, Begin, Takes, Leaves, Done

LEMMA OrderlyQuiet1 ==
  ASSUME TypeOK, NEW th \in Thread, Quiet1(th)
  PROVE  Orderly(th)
<1> USE DEF EndTags, StopTags
<1>1. todo[th] # << >> /\ Then(th, << >>)
  BY DEF Quiet1, Unclaim, Refuse, forget_delivery, Unflag, set_phase, apply_turn_event, ClearTurn,
         apply_error_event, Progress, Preserve, CloseStdin, release_account_runtime, ReleaseChild, At
<1>2. Leaves(th, {})
  <2>1. CASE Unclaim(th)
    <3>1. Done(th) = {"unclaim"}
      BY <2>1, DoneAt DEF Unclaim
    <3>2. s'.phase \notin Active
      BY <2>1 DEF Unclaim, Active, TypeOK, StateOK, RuntimeState
    <3> QED
      BY <3>1, <3>2 DEF Leaves
  <2>2. CASE set_phase(th)
    <3>1. Now(th).op = "set_phase" /\ s'.phase = Now(th).phase
      BY <2>2 DEF set_phase, At, Now, TypeOK, StateOK, RuntimeState
    <3>2. Done(th) = {IF Now(th).phase \in Active THEN "activate" ELSE "settle"}
      BY <1>1, <3>1 DEF Done, Tag
    <3> QED
      BY <3>1, <3>2 DEF Leaves
  <2>3. CASE Refuse(th) \/ forget_delivery(th) \/ Unflag(th) \/ apply_turn_event(th) \/ ClearTurn(th)
    <3>1. \E op \in {"refuse", "forget", "unflag", "turn_event", "clear_turn"} : Done(th) = {op}
      BY <2>3, DoneAt DEF Refuse, forget_delivery, Unflag, apply_turn_event, ClearTurn
    <3> QED
      BY <3>1 DEF Leaves
  <2>4. CASE \/ apply_error_event(th) \/ Progress(th) \/ Preserve(th) \/ CloseStdin(th)
             \/ release_account_runtime(th) \/ ReleaseChild(th)
    <3>1. \E op \in {"error", "progress", "preserve", "close_stdin", "release_stdin", "release", "release_child"} :
            Done(th) = {op}
      BY <2>4, DoneAt DEF apply_error_event, Progress, Preserve, CloseStdin, release_account_runtime, ReleaseChild
    <3> QED
      BY <3>1 DEF Leaves
  <2> QED
    BY <2>1, <2>2, <2>3, <2>4 DEF Quiet1
<1> QED
  BY <1>1, <1>2, BundleNone, OrderlyThen DEF Takes

LEMMA OrderlyQuiet2 ==
  ASSUME TypeOK, NEW th \in Thread, Quiet2(th)
  PROVE  Orderly(th)
<1> USE DEF EndTags, StopTags, SignTags, AskTags, RareTags, LateTags, DoOp, EasyOp
<1>0. todo[th] # << >> /\ Now(th) \in Step
  BY QuietHead, HeadStep
<1>1. SUFFICES \E steps, T : Bundle(steps, T) /\ Then(th, steps) /\ Modest(th, steps, T) /\ Leaves(th, T)
  BY <1>0 DEF Orderly, Takes
<1>2. CASE Note(th)
  <2>1. Done(th) = {"note"}
    BY <1>2, DoneAt DEF Note
  <2>2. ~Unasked
    BY <2>1, AskDone
  <2>3. Bundle(SetPhase(approval_phase(s.approvals)), {"activate"}) /\ Bundle(Do("progress"), {"progress"})
    BY Bundles DEF approval_phase, Active
  <2>4. Bundle(SetPhase(approval_phase(s.approvals)) \o Do("progress"), {"activate"} \cup {"progress"})
    BY <2>3, BundleBoth
  <2>5. Leaves(th, {"activate"} \cup {"progress"})
    BY <2>1 DEF Leaves
  <2> QED
    BY <1>2, <2>2, <2>4, <2>5, CommonModest DEF Note
<1>3. CASE WriteInterrupt(th)
  <2>1. Done(th) = {"write_interrupt"}
    BY <1>3, DoneAt DEF WriteInterrupt, Writing
  <2>2. Bundle(Do("unflag"), {"unflag"}) /\ Leaves(th, {"unflag"}) /\ Leaves(th, {})
    BY <2>1, Bundles DEF Leaves
  <2>3. Modest(th, Do("unflag"), {"unflag"}) /\ Modest(th, << >>, {})
    BY <2>2, BundleNone, CommonModest
  <2> QED
    BY <1>3, <2>2, <2>3, BundleNone DEF WriteInterrupt
<1>4. CASE emit_turn(th)
  <2> DEFINE report == <<[op |-> "turn_event", turn |-> s.turn, status |-> Now(th).status]>>
  <2>1. Done(th) = {"emit_turn"} /\ Now(th).op = "emit_turn"
    BY <1>4, DoneAt DEF emit_turn
  <2>2. Now(th).status \in Status /\ s.turn \in Nat
    BY <1>0, <2>1, StepFields DEF TypeOK, StateOK, RuntimeState
  <2>3. Bundle(report, {"turn_event"}) /\ Bundle(Do("clear_turn"), {"clear_turn"})
    BY <2>2, Bundles
  <2>4. Bundle(report \o Do("clear_turn"), {"turn_event"} \cup {"clear_turn"})
    BY <2>3, BundleBoth
  <2>5. Signed(th, {"turn_event"} \cup {"clear_turn"}) /\ SignedLate(th, report \o Do("clear_turn"))
    BY <2>1 DEF Signed, SignedLate
  <2>6. Leaves(th, {"turn_event"} \cup {"clear_turn"})
    BY <2>1 DEF Leaves
  <2>7. Modest(th, report \o Do("clear_turn"), {"turn_event"} \cup {"clear_turn"})
    BY <2>4, <2>5, CommonModest
  <2> QED
    BY <1>4, <2>4, <2>6, <2>7 DEF emit_turn
<1>5. CASE discard_pending_approvals(th)
  <2>1. Done(th) = {"discard"}
    BY <1>5, DoneAt DEF discard_pending_approvals
  <2>2. Bundle(Do("progress"), {"progress"}) /\ Leaves(th, {"progress"}) /\ Leaves(th, {})
    BY <2>1, Bundles DEF Leaves
  <2>3. Modest(th, << >>, {}) /\ (s.approvals # {} => Modest(th, Do("progress"), {"progress"}))
    BY <2>2, BundleNone, CommonModest DEF Unasked
  <2> QED
    BY <1>5, <2>2, <2>3, BundleNone DEF discard_pending_approvals
<1>6. CASE Adopt(th)
  <2>1. Done(th) = {"adopt"}
    BY <1>6, DoneAt DEF Adopt
  <2>2. Bundle(Do("drain"), {"drain"}) /\ Leaves(th, {"drain"}) /\ Leaves(th, {})
    BY <2>1, Bundles DEF Leaves
  <2>3. Modest(th, << >>, {}) /\ Modest(th, Do("drain"), {"drain"})
    BY <2>2, BundleNone, CommonModest
  <2> QED
    BY <1>6, <2>2, <2>3, BundleNone DEF Adopt
<1>7. CASE Kill(th) \/ Reap(th)
  <2>1. /\ Bundle(Do("reap"), {"reap"}) /\ Leaves(th, {"reap"}) /\ Leaves(th, {"clear"})
        /\ \A x \in BOOLEAN : Bundle(<<[op |-> "clear", terminated |-> x]>>, {"clear"})
    BY Bundles DEF Leaves
  <2>2. /\ Modest(th, Do("reap"), {"reap"})
        /\ \A x \in BOOLEAN : Modest(th, <<[op |-> "clear", terminated |-> x]>>, {"clear"})
    BY <2>1, CommonModest
  <2> QED
    BY <1>7, <2>1, <2>2 DEF Kill, Reap
<1>8. CASE Clear(th)
  <2>1. /\ Bundle(SetPhase("stopped"), {"settle"}) /\ Bundle(SetPhase("failed"), {"settle"})
        /\ Bundle(Do("release"), {"release"})
    BY Bundles DEF Phase, Active, Terminal
  <2>2. Bundle(SetPhase("stopped") \o Do("release"), {"settle"} \cup {"release"})
    BY <2>1, BundleBoth
  <2>3. s'.delivered = << >>
    BY <1>8 DEF Clear, TypeOK, StateOK, RuntimeState
  <2>4. Leaves(th, {"settle"}) /\ Leaves(th, {"settle"} \cup {"release"})
    BY <2>3 DEF Leaves
  <2>5. /\ Modest(th, SetPhase("failed"), {"settle"})
        /\ Modest(th, SetPhase("stopped") \o Do("release"), {"settle"} \cup {"release"})
    BY <2>1, <2>2, CommonModest
  <2> QED
    BY <1>8, <2>1, <2>2, <2>4, <2>5 DEF Clear
<1>9. CASE Judge(th)
  <2> DEFINE failure == SetPhase("failed") \o <<[op |-> "error", limit |-> FALSE]>>
             end == IF exit = "ok" THEN SetPhase("stopped") ELSE failure
             E == IF exit = "ok" THEN {"settle"} ELSE {"settle"} \cup {"error"}
             report == IF s.turn # 0 THEN EmitTurn("failed") ELSE << >>
             R == IF s.turn # 0 THEN {"emit_turn"} ELSE {}
  <2>1. Done(th) = {"judge"}
    BY <1>9, DoneAt DEF Judge
  <2>2. /\ Bundle(SetPhase("stopped"), {"settle"}) /\ Bundle(SetPhase("failed"), {"settle"})
        /\ Bundle(<<[op |-> "error", limit |-> FALSE]>>, {"error"}) /\ Bundle(EmitTurn("failed"), {"emit_turn"})
    BY Bundles DEF Phase, Active, Terminal, Status
  <2>3. Bundle(failure, {"settle"} \cup {"error"})
    BY <2>2, BundleBoth
  <2>4. Bundle(end, E) /\ Bundle(report, R)
    BY <2>2, <2>3, BundleNone
  <2>5. "settle" \in E /\ E \subseteq {"settle", "error"} /\ R \subseteq {"emit_turn"}
    OBVIOUS
  <2>6. Then(th, IF s.phase = "stopped" THEN << >> ELSE end \o report)
    BY <1>9 DEF Judge
  <2> HIDE DEF end, report, E, R
  <2>7. Bundle(end \o report, E \cup R)
    BY <2>4, BundleBoth
  <2>8. Leaves(th, E \cup R) /\ Leaves(th, {})
    BY <2>1 DEF Leaves
  <2>9. Signed(th, E \cup R) /\ SignedLate(th, end \o report)
    BY <2>1, <2>5 DEF Signed, SignedLate
  <2>10. (E \cup R) \cap RareTags = {} /\ (E \cup R) \cap AskTags = {}
    BY <2>5
  <2>11. Modest(th, end \o report, E \cup R) /\ Modest(th, << >>, {})
    BY <2>7, <2>9, <2>10, BundleNone, CommonModest
  <2> QED
    BY <2>6, <2>7, <2>8, <2>11, BundleNone
<1> QED
  BY <1>2, <1>3, <1>4, <1>5, <1>6, <1>7, <1>8, <1>9 DEF Quiet2

\* A turn that cannot be written.
LEMMA FailBundle ==
  ASSUME TypeOK, NEW th \in Thread, todo[th] # << >>, Now(th).op \in {"open_turn", "write_turn"}
  PROVE  \E x \in {"requeue", "refuse"} : Bundle(FailTurn(Now(th)), {"unclaim", "error", "emit_turn", x})
<1> DEFINE x == IF Now(th).back THEN "requeue" ELSE "refuse"
           m == Now(th).msg
<1>1. Now(th) \in Step
  BY HeadStep
<1>2. m \in Msg
  BY <1>1, StepFields
<1>3. /\ Bundle(Do("unclaim"), {"unclaim"}) /\ Bundle(<<[op |-> "error", limit |-> FALSE]>>, {"error"})
      /\ Bundle(EmitTurn("failed"), {"emit_turn"}) /\ Bundle(ForMsg(x, m), {x})
  BY <1>2, Bundles DEF DoOp, MsgOp, Status
<1>4. Bundle(FailTurn(Now(th)), {"unclaim"} \cup {"error"} \cup {"emit_turn"} \cup {x})
  <2>1. FailTurn(Now(th)) =
          Do("unclaim") \o <<[op |-> "error", limit |-> FALSE]>> \o EmitTurn("failed") \o ForMsg(x, m)
    BY DEF FailTurn
  <2> HIDE DEF x, m
  <2>2. Bundle(Do("unclaim") \o <<[op |-> "error", limit |-> FALSE]>>, {"unclaim"} \cup {"error"})
    BY <1>3, BundleBoth
  <2>3. Bundle(Do("unclaim") \o <<[op |-> "error", limit |-> FALSE]>> \o EmitTurn("failed"),
               {"unclaim"} \cup {"error"} \cup {"emit_turn"})
    BY <1>3, <2>2, BundleBoth
  <2> QED
    BY <1>3, <2>1, <2>3, BundleBoth
<1>5. {"unclaim"} \cup {"error"} \cup {"emit_turn"} \cup {x} = {"unclaim", "error", "emit_turn", x}
  OBVIOUS
<1>6. x \in {"requeue", "refuse"}
  OBVIOUS
<1> QED
  BY <1>4, <1>5, <1>6

LEMMA FailOrderly ==
  ASSUME TypeOK, NEW th \in Thread, todo[th] # << >>, Now(th).op \in {"open_turn", "write_turn"},
         Then(th, FailTurn(Now(th))), Happened("gone")' \/ ~stdin' \/ exit' # "no"
  PROVE  Orderly(th)
<1> USE DEF EndTags, StopTags, SignTags, AskTags, RareTags, LateTags
<1>1. PICK x \in {"requeue", "refuse"} : Bundle(FailTurn(Now(th)), {"unclaim", "error", "emit_turn", x})
  BY FailBundle
<1> DEFINE T == {"unclaim", "error", "emit_turn", x}
<1>2. T \cap RareTags = {} /\ T \cap AskTags = {}
  OBVIOUS
<1>3. Signed(th, T) /\ SignedLate(th, FailTurn(Now(th)))
  BY DEF Signed, SignedLate
<1>4. Leaves(th, T)
  <2>1. Done(th) \cap StopTags = {}
    BY DEF Done, Tag
  <2> QED
    BY <2>1 DEF Leaves
<1>5. Modest(th, FailTurn(Now(th)), T)
  BY <1>1, <1>2, <1>3, CommonModest
<1> QED
  BY <1>1, <1>4, <1>5 DEF Orderly, Takes

LEMMA OrderlyTurn ==
  ASSUME TypeOK, NEW th \in Thread, OpenedTurn(th) \/ WriteTurn(th)
  PROVE  Orderly(th)
<1> USE DEF EndTags, StopTags, SignTags, AskTags, RareTags, LateTags
<1>1. todo[th] # << >> /\ Now(th).op \in {"open_turn", "write_turn"} /\ Done(th) \subseteq {"open_turn", "write_turn"}
  BY DoneAt DEF OpenedTurn, WriteTurn, Writing
<1>2. Now(th) \in Step
  BY <1>1, HeadStep
<1>3. CASE Then(th, <<[Now(th) EXCEPT !.op = "write_turn"]>>) /\ OpenedTurn(th)
  <2> DEFINE step == [Now(th) EXCEPT !.op = "write_turn"]
  <2>1. Now(th) \in [op : {"open_turn", "write_turn"}, msg : Msg, turn : Nat, back : BOOLEAN]
    BY <1>1, <1>2 DEF Step
  <2>2. step \in [op : {"open_turn", "write_turn"}, msg : Msg, turn : Nat, back : BOOLEAN] /\ step.op = "write_turn"
    BY <2>1
  <2> HIDE DEF step
  <2>3. step \in Step /\ Tag(step) = "write_turn"
    BY <2>2 DEF Step, Tag
  <2>4. Bundle(<<step>>, {"write_turn"})
    BY <2>3, BundleOne
  <2>5. Leaves(th, {"write_turn"})
    BY <1>1 DEF Leaves
  <2>6. Takes(th, <<step>>)
    BY <1>1, <1>3 DEF Takes, step
  <2> QED
    BY <2>4, <2>5, <2>6, OrderlyThen
<1>4. CASE Spend("gone") /\ Then(th, FailTurn(Now(th)))
  BY <1>1, <1>4, FailOrderly, SpentHappens DEF Kind
<1>5. CASE WriteTurn(th) /\ ~CanWrite
  <2>1. Then(th, FailTurn(Now(th))) /\ UNCHANGED <<stdin, exit>>
    BY <1>5 DEF WriteTurn
  <2>2. ~stdin' \/ exit' # "no"
    BY <1>5, <2>1 DEF CanWrite, Alive
  <2> QED
    BY <1>1, <2>1, <2>2, FailOrderly
<1>6. CASE WriteTurn(th) /\ CanWrite
  <2> DEFINE f == [kind |-> "message", msg |-> Now(th).msg, tracked |-> FALSE]
  <2>1. Then(th, << >>) /\ inbox' = Append(inbox, f)
    BY <1>6 DEF WriteTurn
  <2>2. Now(th).msg \in Msg
    BY <1>1, <1>2, StepFields
  <2>3. f \in Input /\ f \in Message
    BY <2>2 DEF Input, Message
  <2> HIDE DEF f
  <2>4. ToSet(inbox') \cap Message # {}
    <3>1. inbox \in Seq(Input)
      BY DEF TypeOK, CliOK
    <3>2. ToSet(inbox') = ToSet(inbox) \cup {f}
      BY <2>1, <2>3, <3>1, AppendedRange
    <3> QED
      BY <2>3, <3>2
  <2>5. Leaves(th, {})
    BY <1>1, <2>4 DEF Leaves
  <2> QED
    BY <1>1, <2>1, <2>5, BundleNone, OrderlyThen DEF Takes
<1> QED
  BY <1>3, <1>4, <1>5, <1>6 DEF OpenedTurn

LEMMA OrderlyLaden ==
  ASSUME TypeOK, NEW th \in Thread, Laden(th)
  PROVE  Orderly(th)
<1> USE DEF EndTags, StopTags, SignTags, AskTags, RareTags, LateTags, DoOp, EasyOp, MsgOp
<1>0. todo[th] # << >> /\ Now(th) \in Step
  BY LadenHead, HeadStep
<1>1. CASE Drain(th)
  <2>1. Done(th) = {"drain"}
    BY <1>1, DoneAt DEF Drain
  <2>2. Leaves(th, {"open_turn"}) /\ Leaves(th, {})
    BY <2>1 DEF Leaves
  <2>3. CASE s.phase = "ready" /\ s.queue # << >>
    <3>1. Head(s.queue) \in Msg /\ s.claims + 1 \in Nat
      BY <2>3 DEF TypeOK, StateOK, RuntimeState
    <3>2. Bundle(OpenTurn(Head(s.queue), s.claims + 1, TRUE), {"open_turn"})
      BY <3>1, Bundles
    <3> QED
      BY <1>0, <1>1, <2>2, <2>3, <3>2, OrderlyThen DEF Drain, Takes
  <2>4. CASE ~(s.phase = "ready" /\ s.queue # << >>)
    BY <1>0, <1>1, <2>2, <2>4, BundleNone, OrderlyThen DEF Drain, Takes
  <2> QED
    BY <2>3, <2>4
<1>2. CASE OpenedTurn(th) \/ WriteTurn(th)
  BY <1>2, OrderlyTurn
<1>3. CASE requeue_front(th) \/ Reinsert(th)
  <2>1. Done(th) \subseteq {"requeue", "reinsert"} /\ Then(th, << >>)
    BY <1>3, DoneAt DEF requeue_front, Reinsert
  <2>2. Leaves(th, {})
    BY <2>1 DEF Leaves
  <2> QED
    BY <1>0, <2>1, <2>2, BundleNone, OrderlyThen DEF Takes
<1>4. CASE Deliver(th) \/ WriteDelivery(th)
  <2>1. Done(th) \subseteq {"deliver", "write_delivery"} /\ Now(th).op \in {"deliver", "write_delivery"}
    BY <1>4, DoneAt DEF Deliver, WriteDelivery, Writing
  <2>2. Now(th).msg \in Msg
    BY <1>0, <2>1, StepFields DEF HasMsg
  <2>3. \A op \in MsgOp : Bundle(ForMsg(op, Now(th).msg), {op})
    BY <2>2, Bundles
  <2>4. Bundle(ForMsg("forget", Now(th).msg) \o ForMsg("refuse", Now(th).msg), {"forget"} \cup {"refuse"})
    BY <2>3, BundleBoth
  <2>5. \A T : Leaves(th, T)
    BY <2>1 DEF Leaves
  <2>6. CASE Then(th, ForMsg("write_delivery", Now(th).msg)) \/ Then(th, ForMsg("refuse", Now(th).msg))
    BY <1>0, <2>3, <2>5, <2>6, OrderlyThen DEF Takes
  <2>7. CASE Then(th, << >>)
    BY <1>0, <2>5, <2>7, BundleNone, OrderlyThen DEF Takes
  <2>8. CASE Then(th, ForMsg("forget", Now(th).msg) \o ForMsg("refuse", Now(th).msg))
    BY <1>0, <2>4, <2>5, <2>8, OrderlyThen DEF Takes
  <2> QED
    BY <1>4, <2>6, <2>7, <2>8 DEF Deliver, WriteDelivery
<1>5. CASE WriteAnswer(th)
  <2>1. Done(th) = {"answer"} /\ Now(th).op = "answer"
    BY <1>5, DoneAt DEF WriteAnswer, Writing
  <2>2. Now(th).ask \in Ask /\ Now(th).decision \in Decision
    BY <1>0, <2>1, StepFields
  <2>3. /\ Bundle(<<[op |-> "note", decision |-> Now(th).decision]>>, {"note"})
        /\ Bundle(<<[op |-> "reinsert", ask |-> Now(th).ask]>>, {"reinsert"})
    BY <2>2, Bundles
  <2>4. ~Unasked /\ \A T : Leaves(th, T)
    BY <2>1, AskDone DEF Leaves
  <2>5. /\ Modest(th, <<[op |-> "note", decision |-> Now(th).decision]>>, {"note"})
        /\ Modest(th, <<[op |-> "reinsert", ask |-> Now(th).ask]>>, {"reinsert"})
    BY <2>3, <2>4, CommonModest
  <2> QED
    BY <1>0, <1>5, <2>3, <2>4, <2>5 DEF WriteAnswer, Orderly, Takes
<1>6. CASE cancel_pending_approvals(th)
  <2>1. Done(th) = {"cancel"} /\ Then(th, Responses(s.approvals))
    BY <1>6, DoneAt DEF cancel_pending_approvals
  <2> DEFINE T == IF s.approvals = {} THEN {} ELSE {"respond"}
  <2>2. Bundle(Responses(s.approvals), T)
    BY Bundles DEF TypeOK, StateOK, RuntimeState
  <2>3. T \cap (RareTags \cup SignTags) = {} /\ (T # {} => ~Unasked)
    BY DEF Unasked
  <2>4. Modest(th, Responses(s.approvals), T)
    BY <2>2, <2>3, CommonModest
  <2>5. Leaves(th, T)
    BY <2>1 DEF Leaves
  <2> QED
    BY <1>0, <2>1, <2>2, <2>4, <2>5 DEF Orderly, Takes
<1>7. CASE Respond(th)
  <2>1. Done(th) = {"respond"} /\ Now(th).op = "respond"
    BY <1>7, DoneAt DEF Respond, Writing
  <2>2. Now(th).asks \in SUBSET Ask /\ ~Unasked /\ \A T : Leaves(th, T)
    BY <1>0, <2>1, StepFields, AskDone DEF Leaves
  <2>3. PICK a : Then(th, Do("progress") \o Responses(Now(th).asks \ {a}))
    BY <1>7 DEF Respond
  <2>4. PICK A \in SUBSET Ask : A = Now(th).asks \ {a}
    BY <2>2
  <2> DEFINE T == IF A = {} THEN {} ELSE {"respond"}
  <2>5. Bundle(Do("progress"), {"progress"}) /\ Bundle(Responses(A), T)
    BY Bundles
  <2>6. T \subseteq {"respond"}
    OBVIOUS
  <2> HIDE DEF T
  <2>7. Bundle(Do("progress") \o Responses(A), {"progress"} \cup T)
    BY <2>5, BundleBoth
  <2>8. Modest(th, Do("progress") \o Responses(A), {"progress"} \cup T)
    BY <2>2, <2>6, <2>7, CommonModest
  <2> QED
    BY <1>0, <2>2, <2>3, <2>4, <2>7, <2>8 DEF Orderly, Takes
<1> QED
  BY <1>1, <1>2, <1>3, <1>4, <1>5, <1>6, <1>7 DEF Laden

\* The stop of a conversation.
LEMMA StopBundle ==
  /\ Bundle(StopSteps, {"cancel", "close_stdin", "kill"})
  /\ Followed(StopSteps, Tagged({"close_stdin"}), Tagged(StopTags))
  /\ \A a, T : Bundle(a, T) /\ "close_stdin" \notin T =>
       /\ Followed(a \o StopSteps, Tagged({"close_stdin"}), Tagged(StopTags))
       /\ Followed(a \o StopSteps, Tagged(SignTags), Tagged(EndTags))
<1> USE DEF EndTags, StopTags, SignTags
<1>1. Bundle(Do("cancel"), {"cancel"}) /\ Bundle(Do("close_stdin"), {"close_stdin"}) /\ Bundle(Do("kill"), {"kill"})
  BY Bundles DEF DoOp, EasyOp
<1>2. Bundle(Do("cancel") \o Do("close_stdin"), {"cancel"} \cup {"close_stdin"})
  BY <1>1, BundleBoth
<1>3. Bundle(StopSteps, {"cancel"} \cup {"close_stdin"} \cup {"kill"})
  BY <1>1, <1>2, BundleBoth DEF StopSteps
<1>4. {"cancel"} \cup {"close_stdin"} \cup {"kill"} = {"cancel", "close_stdin", "kill"}
  OBVIOUS
<1>5. Followed(StopSteps, Tagged({"close_stdin"}), Tagged(StopTags))
  BY <1>1, <1>2, FollowedBy DEF StopSteps
<1>6. Bundle(StopSteps, {"cancel", "close_stdin", "kill"})
  BY <1>3, <1>4
<1>7. ASSUME NEW a, NEW T, Bundle(a, T), "close_stdin" \notin T
      PROVE  /\ Followed(a \o StopSteps, Tagged({"close_stdin"}), Tagged(StopTags))
             /\ Followed(a \o StopSteps, Tagged(SignTags), Tagged(EndTags))
  <2>1. Followed(a, Tagged({"close_stdin"}), Tagged(StopTags))
    <3>1. Tags(a) \cap {"close_stdin"} = {} /\ a \in Seq(Step)
      BY <1>7 DEF Bundle
    <3> QED
      BY <3>1, TaggedSteps
  <2>2. Followed(a \o StopSteps, Tagged({"close_stdin"}), Tagged(StopTags))
    BY <1>5, <1>6, <1>7, <2>1, FollowedTogether DEF Bundle
  <2>3. Followed(a \o StopSteps, Tagged(SignTags), Tagged(EndTags))
    BY <1>6, <1>7, FollowedBy
  <2> QED
    BY <2>2, <2>3
<1> QED
  BY <1>5, <1>6, <1>7

LEMMA OrderlyCalls ==
  ASSUME TypeOK, NEW th \in Thread, Call(th)
  PROVE  UNCHANGED todo \/ Orderly(th)
<1> USE DEF EndTags, StopTags, SignTags, AskTags, RareTags, LateTags, DoOp, EasyOp, MsgOp
<1>1. ASSUME NEW m \in Msg, Send(th, m) PROVE UNCHANGED todo \/ Orderly(th)
  <2>1. CASE SendRefused(th, m)
    BY <2>1 DEF SendRefused
  <2>2. CASE SendStart(th, m)
    <3>1. s.claims + 1 \in Nat
      BY DEF TypeOK, StateOK, RuntimeState
    <3>2. Bundle(OpenTurn(m, s.claims + 1, FALSE), {"open_turn"})
      BY <3>1, Bundles
    <3>3. Modest(th, OpenTurn(m, s.claims + 1, FALSE), {"open_turn"})
      BY <3>2, CommonModest
    <3> QED
      BY <2>2, <3>2, <3>3, OrderlyBegin DEF SendStart
  <2>3. CASE SendDeliver(th, m)
    <3>1. Bundle(ForMsg("deliver", m), {"deliver"})
      BY Bundles
    <3>2. Modest(th, ForMsg("deliver", m), {"deliver"})
      BY <3>1, CommonModest
    <3> QED
      BY <2>3, <3>1, <3>2, OrderlyBegin DEF SendDeliver
  <2>4. CASE SendQueue(th, m)
    <3>1. Bundle(Do("drain"), {"drain"})
      BY Bundles
    <3>2. Modest(th, Do("drain"), {"drain"})
      BY <3>1, CommonModest
    <3> QED
      BY <2>4, <3>1, <3>2, OrderlyBegin DEF SendQueue
  <2> QED
    BY <1>1, <2>1, <2>2, <2>3, <2>4 DEF Send
<1>2. ASSUME NEW i \in DOMAIN s.queue, remove_queued(th, i) PROVE UNCHANGED todo
  BY <1>2 DEF remove_queued
<1>3. ASSUME NEW a \in Ask, NEW d \in Decision, Approve(th, a, d) PROVE Orderly(th)
  <2>1. ~Unasked
    BY <1>3 DEF Approve, Unasked
  <2>2. /\ Bundle(<<[op |-> "answer", ask |-> a, decision |-> d]>>, {"answer"})
        /\ Bundle(<<[op |-> "reinsert", ask |-> a]>>, {"reinsert"})
    BY Bundles
  <2>3. /\ Modest(th, <<[op |-> "answer", ask |-> a, decision |-> d]>>, {"answer"})
        /\ Modest(th, <<[op |-> "reinsert", ask |-> a]>>, {"reinsert"})
    BY <2>1, <2>2, CommonModest
  <2> QED
    BY <1>3, <2>2, <2>3, OrderlyBegin DEF Approve
<1>4. CASE Interrupt(th)
  <2>1. Bundle(Do("write_interrupt"), {"write_interrupt"}) /\ Happened("interrupt")'
    BY <1>4, Bundles, SpentHappens DEF Interrupt, Kind
  <2>2. Followed(Do("write_interrupt"), Tagged({"close_stdin"}), Tagged(StopTags))
    BY <2>1, TaggedSteps DEF Bundle
  <2>3. Modest(th, Do("write_interrupt"), {"write_interrupt"})
    BY <2>1, <2>2 DEF Modest
  <2> QED
    BY <1>4, <2>1, <2>3, OrderlyBegin DEF Interrupt
<1>5. CASE Stop(th)
  <2>1. Modest(th, StopSteps, {"cancel", "close_stdin", "kill"})
    BY StopBundle DEF Modest
  <2> QED
    BY <1>5, <2>1, StopBundle, OrderlyBegin DEF Stop
<1> QED
  BY <1>1, <1>2, <1>3, <1>4, <1>5 DEF Call

LEMMA OrderlyWatch ==
  ASSUME TypeOK
  PROVE  /\ Poll => Orderly(Monitor)
         /\ TurnWatchdog \/ InterruptWatchdog => Orderly(Dog)
<1> USE Threads DEF EndTags, StopTags, SignTags, AskTags, RareTags, LateTags, DoOp, EasyOp, MsgOp
<1>1. ASSUME Poll PROVE Orderly(Monitor)
  <2>1. /\ Bundle(Do("release_child"), {"release_child"}) /\ Bundle(Do("release_stdin"), {"release_stdin"})
        /\ Bundle(Do("release"), {"release"}) /\ Bundle(Do("discard"), {"discard"}) /\ Bundle(Do("judge"), {"judge"})
    BY Bundles
  <2>2. Bundle(Do("release_child") \o Do("release_stdin"), {"release_child"} \cup {"release_stdin"})
    BY <2>1, BundleBoth
  <2>3. Bundle(Do("release_child") \o Do("release_stdin") \o Do("release"),
               {"release_child"} \cup {"release_stdin"} \cup {"release"})
    BY <2>1, <2>2, BundleBoth
  <2>4. Bundle(Do("release_child") \o Do("release_stdin") \o Do("release") \o Do("discard"),
               {"release_child"} \cup {"release_stdin"} \cup {"release"} \cup {"discard"})
    BY <2>1, <2>3, BundleBoth
  <2> DEFINE steps == Do("release_child") \o Do("release_stdin") \o Do("release") \o Do("discard") \o Do("judge")
             T == {"release_child"} \cup {"release_stdin"} \cup {"release"} \cup {"discard"} \cup {"judge"}
  <2>5. Bundle(steps, T) /\ Begin(Monitor, steps) /\ exit # "no"
    BY <1>1, <2>1, <2>4, BundleBoth DEF Poll, Alive
  <2> HIDE DEF steps
  <2>6. Followed(steps, Tagged({"close_stdin"}), Tagged(StopTags))
    BY <2>5, TaggedSteps DEF Bundle
  <2>7. Modest(Monitor, steps, T)
    BY <2>5, <2>6 DEF Modest
  <2> QED
    BY <2>5, <2>7, OrderlyBegin
<1>2. ASSUME TurnWatchdog \/ InterruptWatchdog PROVE Orderly(Dog)
  <2>1. PICK x \in Status : Begin(Dog, <<[op |-> "error", limit |-> FALSE]>> \o EmitTurn(x) \o StopSteps)
    BY <1>2 DEF TurnWatchdog, InterruptWatchdog, Status
  <2> DEFINE a == <<[op |-> "error", limit |-> FALSE]>> \o EmitTurn(x)
             T == {"error"} \cup {"emit_turn"} \cup {"cancel", "close_stdin", "kill"}
  <2>2. Bundle(a, {"error"} \cup {"emit_turn"})
    BY Bundles, BundleBoth
  <2>3. Begin(Dog, a \o StopSteps)
    BY <2>1
  <2> HIDE DEF a
  <2>4. Bundle(a \o StopSteps, T)
    BY <2>2, StopBundle, BundleBoth
  <2>5. /\ Followed(a \o StopSteps, Tagged({"close_stdin"}), Tagged(StopTags))
        /\ Followed(a \o StopSteps, Tagged(SignTags), Tagged(EndTags))
    <3>1. "close_stdin" \notin {"error"} \cup {"emit_turn"}
      OBVIOUS
    <3> QED
      BY <2>2, <3>1, StopBundle
  <2>6. Signed(Dog, T) /\ SignedLate(Dog, a \o StopSteps)
    BY <2>5 DEF Signed, SignedLate
  <2>7. Modest(Dog, a \o StopSteps, T)
    BY <2>5, <2>6 DEF Modest
  <2> QED
    BY <2>3, <2>4, <2>7, OrderlyBegin
<1> QED
  BY <1>1, <1>2

\* What the reader does with the end of a turn.
LEMMA OrderlyResult ==
  ASSUME TypeOK, ReadResult
  PROVE  Orderly(Reader) /\ Bears(Reader, EndTags)'
<1> USE Threads DEF EndTags, StopTags, SignTags, AskTags, RareTags, LateTags, DoOp, EasyOp, MsgOp
<1> DEFINE r == Head(outbox).result
           status == TurnStatus(r, s.interrupting)
           limited == status = "failed" /\ r = "limit"
           report == IF status = "failed" THEN <<[op |-> "error", limit |-> limited]>> ELSE << >>
           R == IF status = "failed" THEN {"error"} ELSE {}
           end == IF limited THEN Do("preserve") \o StopSteps ELSE Do("adopt")
           E == IF limited THEN {"preserve"} \cup {"cancel", "close_stdin", "kill"} ELSE {"adopt"}
           a == Do("discard") \o report \o SetPhase("ready") \o EmitTurn(status)
           A == {"discard"} \cup R \cup {"settle"} \cup {"emit_turn"}
<1>1. Begin(Reader, a \o end) /\ todo[Reader] = << >>
  BY DEF ReadResult, Begin
<1>2. status \in Status /\ limited \in BOOLEAN
  BY TurnStatusTyped
<1>3. /\ Bundle(Do("discard"), {"discard"}) /\ Bundle(SetPhase("ready"), {"settle"})
      /\ Bundle(EmitTurn(status), {"emit_turn"}) /\ Bundle(report, R)
  <2>1. /\ Bundle(<<[op |-> "error", limit |-> limited]>>, {"error"}) /\ Bundle(EmitTurn(status), {"emit_turn"})
        /\ Bundle(Do("discard"), {"discard"})
    BY <1>2, Bundles
  <2>2. "ready" \in Phase \ Active
    BY DEF Phase, Active
  <2>3. Bundle(SetPhase("ready"), {"settle"})
    BY <2>2, Bundles
  <2> QED
    BY <2>1, <2>3, BundleNone
<1>4. R \subseteq {"error"}
  OBVIOUS
<1> HIDE DEF report, R, status
<1>5. Bundle(a, A)
  <2>1. Bundle(Do("discard") \o report, {"discard"} \cup R)
    BY <1>3, BundleBoth
  <2>2. Bundle(Do("discard") \o report \o SetPhase("ready"), {"discard"} \cup R \cup {"settle"})
    BY <1>3, <2>1, BundleBoth
  <2> QED
    BY <1>3, <2>2, BundleBoth
<1> HIDE DEF a
<1>6. /\ Bundle(end, E) /\ AdoptLast(end) /\ Followed(end, Tagged({"close_stdin"}), Tagged(StopTags))
  <2>1. Bundle(Do("preserve"), {"preserve"}) /\ Bundle(Do("adopt"), {"adopt"})
    BY Bundles
  <2>2. AdoptLast(Do("adopt"))
    BY DEF AdoptLast, Do
  <2>3. Followed(Do("adopt"), Tagged({"close_stdin"}), Tagged(StopTags))
    BY <2>1, TaggedSteps DEF Bundle
  <2>4. Bundle(Do("preserve") \o StopSteps, {"preserve"} \cup {"cancel", "close_stdin", "kill"})
    BY <2>1, StopBundle, BundleBoth
  <2>5. AdoptLast(Do("preserve") \o StopSteps)
    <3>1. "adopt" \notin {"preserve"} \cup {"cancel", "close_stdin", "kill"}
      OBVIOUS
    <3> QED
      BY <2>4, <3>1, AdoptsLast DEF Bundle
  <2>6. Followed(Do("preserve") \o StopSteps, Tagged({"close_stdin"}), Tagged(StopTags))
    <3>1. "close_stdin" \notin {"preserve"}
      OBVIOUS
    <3> QED
      BY <2>1, <3>1, StopBundle
  <2>7. CASE limited
    BY <2>4, <2>5, <2>6, <2>7
  <2>8. CASE ~limited
    BY <2>1, <2>2, <2>3, <2>8
  <2> QED
    BY <2>7, <2>8
<1>7. E \cap (AskTags \cup SignTags \cup LateTags \cup {"write_interrupt"}) = {}
  OBVIOUS
<1> HIDE DEF end, E
<1>8. Bundle(a \o end, A \cup E)
  BY <1>5, <1>6, BundleBoth
<1>9. AdoptLast(a \o end)
  <2>1. "adopt" \notin A
    BY <1>4
  <2> QED
    BY <1>5, <1>6, <2>1, AdoptsLast DEF Bundle
<1>10. Followed(a \o end, Tagged({"close_stdin"}), Tagged(StopTags))
  <2>1. A \cap {"close_stdin"} = {}
    BY <1>4
  <2>2. Followed(a, Tagged({"close_stdin"}), Tagged(StopTags))
    BY <1>5, <2>1, TaggedSteps DEF Bundle
  <2> QED
    BY <1>5, <1>6, <2>2, FollowedTogether DEF Bundle
<1>11. Signed(Reader, A \cup E) /\ SignedLate(Reader, a \o end)
  BY DEF Signed, SignedLate
<1>12. Modest(Reader, a \o end, A \cup E)
  <2>1. /\ (A \cup E) \cap AskTags = {} /\ (A \cup E) \cap LateTags = {}
        /\ "write_interrupt" \notin A \cup E
    BY <1>4, <1>7
  <2> QED
    BY <1>1, <1>9, <1>10, <1>11, <2>1 DEF Modest
<1>13. "settle" \in Tags(todo'[Reader])
  <2> PICK c : c = a \o end
    OBVIOUS
  <2>1. Takes(Reader, c) /\ c \in Seq(Step) /\ "settle" \in Tags(c)
    BY <1>1, <1>8 DEF Takes, Bundle
  <2>2. Tags(todo'[Reader]) = Tags(c) \cup Tags(Rest(Reader))
    BY <2>1, Threads, TagsTaken
  <2> QED
    BY <2>1, <2>2
<1> QED
  BY <1>1, <1>8, <1>12, <1>13, OrderlyBegin DEF Bears

LEMMA OrderlyReads ==
  ASSUME TypeOK, Read
  PROVE  UNCHANGED todo \/ Orderly(Reader)
<1> USE Threads DEF EndTags, StopTags, SignTags, AskTags, RareTags, LateTags, DoOp, EasyOp, MsgOp
<1>1. /\ Bundle(Do("progress"), {"progress"})
      /\ \A x \in BOOLEAN : Bundle(<<[op |-> "error", limit |-> x]>>, {"error"})
  BY Bundles
<1>2. Bundle(<<[op |-> "error", limit |-> TRUE]>> \o Do("progress"), {"error"} \cup {"progress"})
  BY <1>1, BundleBoth
<1>3. CASE ReadContent
  <2>1. outbox # << >> /\ Head(outbox).kind = "content"
    BY <1>3 DEF ReadContent, Frame
  <2>2. \A T, steps : Signed(Reader, T) /\ SignedLate(Reader, steps)
    BY <2>1 DEF Signed, SignedLate
  <2>3. /\ Modest(Reader, Do("progress"), {"progress"})
        /\ Modest(Reader, <<[op |-> "error", limit |-> TRUE]>> \o Do("progress"), {"error"} \cup {"progress"})
    BY <1>1, <1>2, <2>2, CommonModest
  <2> QED
    BY <1>1, <1>2, <1>3, <2>3, OrderlyBegin DEF ReadContent
<1>4. CASE ReadRefusal
  <2>1. outbox # << >> /\ Head(outbox).kind = "refusal"
    BY <1>4 DEF ReadRefusal, Frame
  <2>2. \A T, steps : Signed(Reader, T) /\ SignedLate(Reader, steps)
    BY <2>1 DEF Signed, SignedLate
  <2>3. Modest(Reader, <<[op |-> "error", limit |-> FALSE]>>, {"error"})
    BY <1>1, <2>2, CommonModest
  <2> QED
    BY <1>1, <1>4, <2>3, OrderlyBegin DEF ReadRefusal
<1>5. CASE ReadAsk \/ ReadCancel
  <2>1. outbox # << >> /\ Head(outbox).kind \in {"ask", "cancel"}
    BY <1>5 DEF ReadAsk, ReadCancel, Frame
  <2>2. ~Unasked
    <3>1. Head(outbox) \in ToSet(outbox)
      BY <2>1, TailRange DEF TypeOK, CliOK
    <3> QED
      BY <2>1, <3>1 DEF Unasked
  <2>3. Modest(Reader, Do("progress"), {"progress"})
    BY <1>1, <2>2, CommonModest
  <2> QED
    BY <1>1, <1>5, <2>3, OrderlyBegin DEF ReadAsk, ReadCancel
<1>6. CASE ReadLifecycle
  BY <1>6 DEF ReadLifecycle
<1> QED
  BY <1>3, <1>4, <1>5, <1>6, OrderlyResult DEF Read

\* Every step of the program is one of a thread, and orderly; the CLI's own are not the program's.
LEMMA OrderlyNext ==
  ASSUME TypeOK, Next
  PROVE  UNCHANGED todo \/ \E th \in Thread : Orderly(th)
<1>1. ASSUME NEW th \in Thread, Advance(th) PROVE UNCHANGED todo \/ Orderly(th)
  <2>1. Wait(th) => UNCHANGED todo
    BY DEF Wait
  <2> QED
    BY <1>1, <2>1, AdvanceSplit, OrderlyQuiet1, OrderlyQuiet2, OrderlyLaden
<1>2. ASSUME NEW th \in Client, Call(th) PROVE UNCHANGED todo \/ Orderly(th)
  BY <1>2, Threads, OrderlyCalls
<1>3. Read => UNCHANGED todo \/ Orderly(Reader)
  BY OrderlyReads
<1>4. InterruptSeen \/ Cli \/ CliMay => UNCHANGED todo
  BY DEF InterruptSeen, Cli, CliMay, CliTakesMessage, CliTakesInterrupt, CliTakesAnswer, CliSpeaks, CliNext, CliEnds,
         CliAsks, CliWithdraws, CliWakes, CliExits, CliFreezes
<1> QED
  BY <1>1, <1>2, <1>3, <1>4, OrderlyWatch, Threads DEF Next

-----------------------------------------------------------------------------
(* What the CLI says, and why.                                             *)

SaysWhy(f) ==
  /\ f.kind \in {"ask", "cancel"} => ~Unasked \/ Happened("ask")'
  /\ f.kind = "refusal" => Happened("refuse")'
  /\ f.kind = "lifecycle" => \E g \in ToSet(inbox) \cup ToSet(backlog) : g.kind = "message" /\ g.msg = f.msg

Spoken(frames) ==
  /\ frames \in Seq(Output) /\ outbox' = outbox \o frames
  /\ \A f \in ToSet(frames) : SaysWhy(f)
  /\ cli' = "idle" => Followed(frames, Lively, Results) /\ (cli = "idle" \/ ~FreeOf(frames, Results))
  /\ ~CliTakesInterrupt => \A m \in Msg :
       /\ Queued(m) \in ToSet(frames) => Tracked(m) \in ToSet(backlog')
       /\ Tracked(m) \in ToSet(backlog) => Tracked(m) \in ToSet(backlog') \/ Started(m) \in ToSet(frames)

LEMMA FollowedFree == ASSUME NEW a, NEW S, NEW U, FreeOf(a, S) PROVE Followed(a, S, U)
BY DEF FreeOf, Followed

LEMMA NotFreeBehind ==
  ASSUME NEW T, NEW a \in Seq(T), NEW b \in Seq(T), NEW U, ~FreeOf(b, U)
  PROVE  ~FreeOf(a \o b, U)
<1> PICK c : c = a \o b
  OBVIOUS
<1>1. PICK i \in DOMAIN b : b[i] \in U
  BY DEF FreeOf
<1>2. Len(a) + i \in DOMAIN c /\ c[Len(a) + i] = b[i]
  BY Concatenated
<1>3. ~FreeOf(c, U)
  BY <1>1, <1>2 DEF FreeOf
<1> QED
  BY <1>3

LEMMA Alone == \A x : ToSet(<<x>>) = {x} /\ \A S : FreeOf(<<x>>, S) <=> x \notin S
BY DEF ToSet, FreeOf

\* A frame that is not about a message, and one or none that says how far a message is.
LEMMA SpokenOne ==
  ASSUME TypeOK, NEW f \in Output, Say(<<f>>), UNCHANGED backlog, f.kind # "lifecycle", SaysWhy(f),
         cli' = "idle" => f \in Results
  PROVE  Spoken(<<f>>)
<1>1. <<f>> \in Seq(Output) /\ ToSet(<<f>>) = {f} /\ \A S : FreeOf(<<f>>, S) <=> f \notin S
  BY Alone
<1>2. f \in Results => f \notin Lively
  BY DEF Results, Lively
<1>3. cli' = "idle" => Followed(<<f>>, Lively, Results) /\ (cli = "idle" \/ ~FreeOf(<<f>>, Results))
  BY <1>1, <1>2, FollowedFree
<1>4. \A m \in Msg : Queued(m) # f
  BY DEF Queued
<1> QED
  BY <1>1, <1>3, <1>4 DEF Spoken, Say

LEMMA SpokenNothing ==
  ASSUME TypeOK, UNCHANGED <<outbox, backlog>>, cli' = "idle" => cli = "idle"
  PROVE  Spoken(<< >>)
<1>1. << >> \in Seq(Output) /\ outbox \o << >> = outbox /\ ToSet(<< >>) = {}
  BY EmptyRange DEF TypeOK, CliOK
<1>2. Followed(<< >>, Lively, Results)
  BY FreeNone, FollowedFree
<1> QED
  BY <1>1, <1>2 DEF Spoken

LEMMA LifecycleSaid ==
  ASSUME NEW f \in Message, NEW x \in {"queued", "started", "cancelled"}
  PROVE  /\ Lifecycle(f, x) \in Seq(Output)
         /\ \A g \in ToSet(Lifecycle(f, x)) : g.kind = "lifecycle" /\ g.msg = f.msg /\ g.state = x
         /\ f.tracked => ToSet(Lifecycle(f, x)) = {[kind |-> "lifecycle", msg |-> f.msg, state |-> x]}
<1>1. Lifecycle(f, x) \in Seq(Output)
  BY FramesTyped
<1>2. CASE f.tracked
  BY <1>1, <1>2, Alone DEF Lifecycle
<1>3. CASE ~f.tracked
  BY <1>1, <1>3, EmptyRange DEF Lifecycle
<1> QED
  BY <1>2, <1>3

LEMMA TrackedMessage ==
  ASSUME NEW f \in Message
  PROVE  /\ f.kind = "message" /\ f.msg \in Msg
         /\ \A m \in Msg : f = Tracked(m) <=> (f.tracked /\ f.msg = m)
BY DEF Message, Tracked

\* A message is taken from the pipe, or from what was kept.
LEMMA SpokenLifecycle ==
  ASSUME TypeOK, NEW f \in Message, NEW x \in {"queued", "started"}, Say(Lifecycle(f, x)),
         f \in ToSet(inbox) \cup ToSet(backlog), cli' # "idle",
         \A g \in ToSet(backlog) : g \in ToSet(backlog') \/ (g = f /\ x = "started"),
         x = "queued" => f \in ToSet(backlog')
  PROVE  Spoken(Lifecycle(f, x))
<1> PICK frames : frames = Lifecycle(f, x)
  OBVIOUS
<1>1. /\ frames \in Seq(Output)
      /\ \A g \in ToSet(frames) : g.kind = "lifecycle" /\ g.msg = f.msg /\ g.state = x
      /\ f.tracked => ToSet(frames) = {[kind |-> "lifecycle", msg |-> f.msg, state |-> x]}
  BY LifecycleSaid
<1>2. f.kind = "message" /\ f.msg \in Msg /\ \A m \in Msg : f = Tracked(m) <=> (f.tracked /\ f.msg = m)
  BY TrackedMessage
<1>3. \A g \in ToSet(frames) : SaysWhy(g)
  BY <1>1, <1>2 DEF SaysWhy
<1>4. ASSUME NEW m \in Msg, Queued(m) \in ToSet(frames) PROVE Tracked(m) \in ToSet(backlog')
  <2>1. x = "queued" /\ m = f.msg
    BY <1>1, <1>4 DEF Queued
  <2>2. f.tracked
    <3>1. ~f.tracked => frames = << >>
      BY DEF Lifecycle
    <3> QED
      BY <1>4, <3>1, EmptyRange
  <2> QED
    BY <1>2, <2>1, <2>2
<1>5. ASSUME NEW m \in Msg, Tracked(m) \in ToSet(backlog)
      PROVE  Tracked(m) \in ToSet(backlog') \/ Started(m) \in ToSet(frames)
  <2>1. CASE Tracked(m) = f /\ x = "started"
    BY <1>1, <1>2, <2>1 DEF Started
  <2> QED
    BY <1>5, <2>1
<1> QED
  BY <1>1, <1>3, <1>4, <1>5 DEF Spoken, Say

\* The answer to an interrupt.
LEMMA SpokenInterrupt ==
  ASSUME TypeOK, CliTakesInterrupt
  PROVE  \E frames : Spoken(frames)
<1>0. /\ outbox \in Seq(Output) /\ backlog \in Seq(Message)
  BY DEF TypeOK, CliOK
<1>1. CASE Spend("refuse") /\ Say(<<[kind |-> "refusal"]>>) /\ UNCHANGED <<cli, backlog>>
  <2> PICK f : f = [kind |-> "refusal"]
    OBVIOUS
  <2>1. <<f>> \in Seq(Output) /\ ToSet(<<f>>) = {f} /\ \A S : FreeOf(<<f>>, S) <=> f \notin S
    BY FramesTyped, Alone
  <2>2. Happened("refuse")' /\ f \notin Lively
    BY <1>1, SpentHappens DEF Kind, Lively
  <2>3. SaysWhy(f) /\ Followed(<<f>>, Lively, Results)
    BY <2>1, <2>2, FollowedFree DEF SaysWhy
  <2> QED
    BY <1>1, <2>1, <2>3 DEF Spoken, Say
<1>2. CASE cli' = "idle" /\ Say(Cancelled(backlog) \o (IF cli = "idle" THEN << >> ELSE Result("aborted")))
  <2>1. PICK a, b : a = Cancelled(backlog) /\ b = IF cli = "idle" THEN << >> ELSE Result("aborted")
    OBVIOUS
  <2>2. a \in Seq(Output) /\ b \in Seq(Output)
    BY <1>0, <2>1, FramesTyped
  <2>3. \A i \in DOMAIN a : /\ a[i].kind = "lifecycle" /\ a[i].state = "cancelled"
                            /\ \E g \in ToSet(backlog) : g.kind = "message" /\ g.msg = a[i].msg
    <3>1. \A i \in DOMAIN backlog : backlog[i] \in Message /\ backlog[i] \in ToSet(backlog)
      BY <1>0 DEF ToSet
    <3>2. \A i \in DOMAIN a : i \in DOMAIN backlog /\ a[i] = [kind |-> "lifecycle", msg |-> backlog[i].msg, state |-> "cancelled"]
      BY <2>1 DEF Cancelled
    <3> QED
      BY <3>1, <3>2, TrackedMessage
  <2>4. \A f \in ToSet(b) : f.kind = "result"
    BY <2>1, Alone, EmptyRange DEF Result
  <2>5. cli # "idle" => ~FreeOf(b, Results)
    <3>1. [kind |-> "result", result |-> "aborted"] \in Results
      BY DEF Results, Output
    <3> QED
      BY <2>1, <3>1, Alone DEF Result
  <2>6. FreeOf(a, Lively) /\ FreeOf(b, Lively)
    <3>1. FreeOf(a, Lively)
      BY <2>3 DEF FreeOf, Lively
    <3>2. \A i \in DOMAIN b : b[i] \in ToSet(b)
      BY DEF ToSet
    <3>3. FreeOf(b, Lively)
      BY <2>4, <3>2 DEF FreeOf, Lively
    <3> QED
      BY <3>1, <3>3
  <2>7. a \o b \in Seq(Output) /\ ToSet(a \o b) = ToSet(a) \cup ToSet(b)
    BY <2>2, Concatenated, ConcatenatedRange
  <2>8. \A f \in ToSet(a \o b) : SaysWhy(f)
    <3>1. \A f \in ToSet(a) : SaysWhy(f)
      BY <2>3 DEF ToSet, SaysWhy
    <3>2. \A f \in ToSet(b) : SaysWhy(f)
      BY <2>4 DEF SaysWhy
    <3> QED
      BY <2>7, <3>1, <3>2
  <2>9. Followed(a \o b, Lively, Results) /\ (cli = "idle" \/ ~FreeOf(a \o b, Results))
    <3>1. Followed(a \o b, Lively, Results)
      BY <2>2, <2>6, FollowedFree, FollowedTogether
    <3>2. ~FreeOf(b, Results) => ~FreeOf(a \o b, Results)
      BY <2>2, NotFreeBehind
    <3> QED
      BY <2>5, <3>1, <3>2
  <2> QED
    BY <1>2, <2>1, <2>7, <2>8, <2>9 DEF Spoken, Say
<1> QED
  BY <1>1, <1>2 DEF CliTakesInterrupt

\* The end of a turn.
LEMMA SpokenEnd ==
  ASSUME TypeOK, NEW r \in {"ok", "error", "limit"}, CliEnds(r)
  PROVE  \E frames : Spoken(frames)
<1> PICK f, g : f = [kind |-> "content", limit |-> TRUE] /\ g = [kind |-> "result", result |-> r]
  OBVIOUS
<1>1. f \in Output /\ g \in Output /\ g \in Results /\ g \notin Lively /\ UNCHANGED backlog
  BY DEF Output, Results, Lively, CliEnds
<1>2. \A x : x.kind \in {"content", "result"} => SaysWhy(x)
  BY DEF SaysWhy
<1>3. CASE r # "limit"
  <2>1. Say(<<g>>)
    BY <1>3 DEF CliEnds, Result
  <2> QED
    BY <1>1, <1>2, <2>1, SpokenOne
<1>4. CASE r = "limit"
  <2>0. PICK a, b : a = <<f>> /\ b = <<g>>
    OBVIOUS
  <2>1. Say(a \o b)
    BY <1>4, <2>0 DEF CliEnds, Result, Content
  <2>2. /\ a \in Seq(Output) /\ ToSet(a) = {f} /\ b \in Seq(Output) /\ ToSet(b) = {g}
        /\ FreeOf(b, Lively) /\ ~FreeOf(b, Results)
    <3>1. a \in Seq(Output) /\ b \in Seq(Output)
      BY <1>1, <2>0
    <3>2. ToSet(a) = {f} /\ ToSet(b) = {g} /\ \A S : FreeOf(b, S) <=> g \notin S
      BY <2>0, Alone
    <3> QED
      BY <1>1, <3>1, <3>2
  <2>3. a \o b \in Seq(Output) /\ ToSet(a \o b) = {f, g} /\ Followed(a \o b, Lively, Results)
    <3>1. a \o b \in Seq(Output) /\ ToSet(a \o b) = ToSet(a) \cup ToSet(b)
      BY <2>2, Concatenated, ConcatenatedRange
    <3>2. Followed(b, Lively, Results)
      BY <2>2, FollowedFree
    <3>3. Followed(a \o b, Lively, Results)
      BY <2>2, <3>2, FollowedTogether
    <3> QED
      BY <2>2, <3>1, <3>3
  <2>4. ~FreeOf(a \o b, Results)
    BY <2>2, NotFreeBehind
  <2>5. \A m \in Msg : Queued(m) \notin {f, g}
    BY DEF Queued
  <2> QED
    <3> PICK c : c = a \o b
      OBVIOUS
    <3>1. /\ c \in Seq(Output) /\ outbox' = outbox \o c /\ ToSet(c) = {f, g} /\ Followed(c, Lively, Results)
          /\ ~FreeOf(c, Results) /\ UNCHANGED backlog
      BY <1>1, <2>1, <2>3, <2>4 DEF Say
    <3>2. SaysWhy(f) /\ SaysWhy(g)
      BY <1>2
    <3> QED
      BY <2>5, <3>1, <3>2 DEF Spoken
<1> QED
  BY <1>3, <1>4

LEMMA CliSpoken ==
  ASSUME TypeOK, Cli \/ CliMay
  PROVE  \E frames : Spoken(frames)
<1>0. /\ inbox \in Seq(Input) /\ backlog \in Seq(Message)
      /\ cli \in {"idle", "thinking", "speaking"} \cup Ask
  BY DEF TypeOK, CliOK
<1>1. CASE CliTakesMessage
  <2> PICK f : f = Head(inbox)
    OBVIOUS
  <2>1. f \in Message /\ f \in ToSet(inbox)
    BY <1>0, <1>1, InputFields, TailRange DEF CliTakesMessage
  <2>2. CASE Say(Lifecycle(f, "started")) /\ UNCHANGED backlog /\ cli' # "idle"
    BY <2>1, <2>2, SpokenLifecycle
  <2>3. CASE Say(Lifecycle(f, "queued")) /\ backlog' = Append(backlog, f) /\ cli' # "idle"
    <3>1. ToSet(backlog') = ToSet(backlog) \cup {f}
      BY <1>0, <2>1, <2>3, AppendedRange
    <3> QED
      BY <2>1, <2>3, <3>1, SpokenLifecycle
  <2> QED
    BY <1>1, <2>2, <2>3 DEF CliTakesMessage
<1>2. CASE CliTakesInterrupt
  BY <1>2, SpokenInterrupt
<1>3. CASE CliTakesAnswer
  <2>1. CASE UNCHANGED outbox
    <3>1. UNCHANGED backlog /\ (cli' = "idle" => cli = "idle")
      <4>1. CASE UNCHANGED <<cli, outbox>>
        BY <1>3, <4>1 DEF CliTakesAnswer
      <4>2. CASE cli' = "speaking"
        BY <1>3, <4>2 DEF CliTakesAnswer
      <4>3. CASE Say(Result("aborted"))
        <5>1. outbox # outbox \o Result("aborted")
          <6>0. PICK a, b : a = outbox /\ b = Result("aborted")
            OBVIOUS
          <6>1. a \in Seq(Output) /\ b \in Seq(Output) /\ Len(b) = 1
            BY <6>0, FramesTyped DEF TypeOK, CliOK, Result
          <6>2. Len(a \o b) = Len(a) + 1 /\ Len(a) \in Nat
            <7>1. Len(a \o b) = Len(a) + Len(b)
              BY <6>1, Concatenated
            <7> QED
              BY <6>1, <7>1
          <6> QED
            BY <6>0, <6>2
        <5> QED
          BY <2>1, <4>3, <5>1 DEF Say
      <4> QED
        BY <1>3, <4>1, <4>2, <4>3 DEF CliTakesAnswer
    <3> QED
      BY <2>1, <3>1, SpokenNothing
  <2>2. CASE Say(Result("aborted"))
    <3> PICK g : g = [kind |-> "result", result |-> "aborted"]
      OBVIOUS
    <3>1. g \in Output /\ g \in Results /\ SaysWhy(g)
      BY DEF Output, Results, SaysWhy
    <3> QED
      BY <1>3, <2>2, <3>1, SpokenOne DEF CliTakesAnswer, Result
  <2> QED
    BY <1>3, <2>1, <2>2 DEF CliTakesAnswer
<1>4. CASE CliSpeaks \/ CliWakes
  <2> PICK f : f = [kind |-> "content", limit |-> FALSE]
    OBVIOUS
  <2>1. f \in Output /\ SaysWhy(f)
    BY DEF Output, SaysWhy
  <2> QED
    BY <1>4, <2>1, SpokenOne DEF CliSpeaks, CliWakes, Content
<1>5. ASSUME NEW a \in Ask, CliAsks(a) PROVE \E frames : Spoken(frames)
  <2> PICK f : f = [kind |-> "ask", ask |-> a]
    OBVIOUS
  <2>1. f \in Output /\ SaysWhy(f) /\ cli' # "idle"
    BY <1>5, SpentHappens, RuntimeAssumption DEF Output, SaysWhy, CliAsks, Kind
  <2> QED
    BY <1>5, <2>1, SpokenOne DEF CliAsks
<1>6. CASE CliWithdraws
  <2> PICK f : f = [kind |-> "cancel", ask |-> cli]
    OBVIOUS
  <2>1. f \in Output /\ SaysWhy(f)
    BY <1>6 DEF Output, SaysWhy, CliWithdraws, Unasked
  <2> QED
    BY <1>6, <2>1, SpokenOne DEF CliWithdraws
<1>7. ASSUME NEW r \in {"ok", "error", "limit"}, CliEnds(r) PROVE \E frames : Spoken(frames)
  BY <1>7, SpokenEnd
<1>8. CASE CliNext
  <2> PICK f : f = Head(backlog)
    OBVIOUS
  <2>1. f \in Message /\ f \in ToSet(backlog) /\ ToSet(backlog) = {f} \cup ToSet(backlog')
    BY <1>0, <1>8, HeadAndTail, TailRange DEF CliNext
  <2> QED
    BY <1>8, <2>1, SpokenLifecycle DEF CliNext
<1>9. CASE CliExits \/ CliFreezes
  BY <1>9, SpokenNothing DEF CliExits, CliFreezes
<1> QED
  BY <1>1, <1>2, <1>3, <1>4, <1>5, <1>6, <1>7, <1>8, <1>9 DEF Cli, CliMay

-----------------------------------------------------------------------------
(* Who touches the pipes, and with what.                                   *)

\* What goes into the CLI's stdin.
Inward ==
  \/ UNCHANGED <<inbox, handed>>
  \/ \E m \in Msg, t \in BOOLEAN :
       /\ stdin /\ inbox' = Append(inbox, [kind |-> "message", msg |-> m, tracked |-> t])
       /\ handed' = Append(handed, m)
  \/ /\ inbox' = Append(inbox, [kind |-> "interrupt"]) /\ UNCHANGED handed
     /\ \E th \in Thread : "write_interrupt" \in Tags(todo[th])
  \/ \E a \in Ask, d \in Decision :
       inbox' = Append(inbox, [kind |-> "answer", ask |-> a, decision |-> d]) /\ UNCHANGED handed

LEMMA InwardLaden ==
  ASSUME TypeOK, NEW th \in Thread, Laden(th)
  PROVE  Inward
<1>0. todo[th] # << >> /\ Now(th) \in Step
  BY LadenHead, HeadStep
<1>1. CASE WriteTurn(th) \/ WriteDelivery(th)
  <2>1. Now(th).op \in {"write_turn", "write_delivery"}
    BY <1>1 DEF WriteTurn, WriteDelivery, Writing, At, Now
  <2>2. Now(th).msg \in Msg
    BY <1>0, <2>1, StepFields DEF HasMsg
  <2>3. CASE CanWrite
    BY <1>1, <2>2, <2>3 DEF WriteTurn, WriteDelivery, CanWrite, Inward
  <2>4. CASE ~CanWrite
    BY <1>1, <2>4 DEF WriteTurn, WriteDelivery, Inward
  <2> QED
    BY <2>3, <2>4
<1>2. CASE WriteAnswer(th)
  <2>1. Now(th).op = "answer"
    BY <1>2 DEF WriteAnswer, Writing, At, Now
  <2>2. Now(th).ask \in Ask /\ Now(th).decision \in Decision
    BY <1>0, <2>1, StepFields
  <2>3. UNCHANGED handed /\ (UNCHANGED inbox \/ inbox' = Append(inbox, [kind |-> "answer", ask |-> Now(th).ask,
                                                                         decision |-> Now(th).decision]))
    BY <1>2 DEF WriteAnswer
  <2> QED
    BY <2>2, <2>3 DEF Inward
<1>3. CASE Respond(th)
  <2>1. Now(th).op = "respond" /\ "cancel" \in Decision
    BY <1>3 DEF Respond, Writing, At, Now, Decision
  <2>2. Now(th).asks \in SUBSET Ask
    BY <1>0, <2>1, StepFields
  <2>3. PICK a \in Now(th).asks :
          IF CanWrite THEN inbox' = Append(inbox, [kind |-> "answer", ask |-> a, decision |-> "cancel"])
                      ELSE UNCHANGED inbox
    BY <1>3 DEF Respond
  <2>4. UNCHANGED handed /\ a \in Ask
    BY <1>3, <2>2 DEF Respond
  <2> QED
    BY <2>1, <2>3, <2>4 DEF Inward
<1>4. CASE Drain(th) \/ OpenedTurn(th) \/ requeue_front(th) \/ Deliver(th) \/ Reinsert(th) \/ cancel_pending_approvals(th)
  <2>1. UNCHANGED <<inbox, handed>>
    BY <1>4 DEF Drain, OpenedTurn, requeue_front, Deliver, Reinsert, cancel_pending_approvals, external, history
  <2> QED
    BY <2>1 DEF Inward
<1> QED
  BY <1>1, <1>2, <1>3, <1>4 DEF Laden

\* The program, the reader of the CLI's stdout, or the CLI.
Programs == UNCHANGED <<outbox, cli, backlog>> /\ Inward
Reads ==
  /\ Read /\ outbox # << >> /\ outbox' = Tail(outbox)
  /\ UNCHANGED <<cli, backlog, inbox, handed, stdin, exit, armed>>

LEMMA Sides ==
  ASSUME TypeOK, Next
  PROVE  Programs \/ Reads \/ Cli \/ CliMay
<1> USE DEF external, history, process, dogs
<1>1. ASSUME NEW th \in Thread, Advance(th) PROVE Programs
  <2>1. CASE Quiet1(th)
    <3>1. UNCHANGED <<outbox, cli, backlog, inbox, handed>>
      BY <2>1 DEF Quiet1, Unclaim, Refuse, forget_delivery, Unflag, set_phase, apply_turn_event, ClearTurn,
           apply_error_event, Progress, Preserve, CloseStdin, release_account_runtime, ReleaseChild
    <3> QED
      BY <3>1 DEF Programs, Inward
  <2>2. CASE WriteInterrupt(th)
    <3>1. "write_interrupt" \in Tags(todo[th])
      BY <2>2, DoneAt, BornBefore DEF WriteInterrupt, Writing
    <3>2. /\ UNCHANGED <<outbox, cli, backlog, handed>>
          /\ UNCHANGED inbox \/ inbox' = Append(inbox, [kind |-> "interrupt"])
      BY <2>2 DEF WriteInterrupt
    <3> QED
      BY <3>1, <3>2 DEF Programs, Inward
  <2>3. CASE Quiet2(th) /\ ~WriteInterrupt(th)
    <3>1. UNCHANGED <<outbox, cli, backlog, inbox, handed>>
      BY <2>3 DEF Quiet2, Note, emit_turn, discard_pending_approvals, Adopt, Kill, Reap, Clear, Judge
    <3> QED
      BY <3>1 DEF Programs, Inward
  <2>4. CASE Laden(th)
    <3>1. UNCHANGED <<outbox, cli, backlog>>
      BY <2>4 DEF Laden, Drain, OpenedTurn, WriteTurn, requeue_front, Deliver, WriteDelivery,
                  WriteAnswer, Reinsert, cancel_pending_approvals, Respond
    <3> QED
      BY <2>4, <3>1, InwardLaden DEF Programs
  <2>5. CASE Wait(th)
    BY <2>5 DEF Wait, Programs, Inward
  <2> QED
    BY <1>1, <2>1, <2>2, <2>3, <2>4, <2>5, AdvanceSplit
<1>2. ASSUME NEW th \in Client, Call(th) PROVE Programs
  <2>1. UNCHANGED <<outbox, cli, backlog, inbox, handed>>
    BY <1>2 DEF Call, Send, SendRefused, SendStart, SendDeliver, SendQueue, remove_queued, Approve, Interrupt, Stop
  <2> QED
    BY <2>1 DEF Programs, Inward
<1>3. CASE Read
  <2>1. outbox # << >> /\ outbox' = Tail(outbox) /\ UNCHANGED <<cli, backlog, inbox, handed, stdin, exit, armed>>
    BY <1>3 DEF Read, ReadContent, ReadAsk, ReadCancel, ReadLifecycle, ReadRefusal, ReadResult, Frame
  <2> QED
    BY <1>3, <2>1 DEF Reads
<1>4. CASE Poll \/ TurnWatchdog \/ InterruptWatchdog \/ InterruptSeen
  <2>1. UNCHANGED <<outbox, cli, backlog, inbox, handed>>
    BY <1>4 DEF Poll, TurnWatchdog, InterruptWatchdog, InterruptSeen
  <2> QED
    BY <2>1 DEF Programs, Inward
<1> QED
  BY <1>1, <1>2, <1>3, <1>4 DEF Next

\* The CLI's own steps.
LEMMA CliMoves ==
  ASSUME TypeOK, Cli \/ CliMay
  PROVE  /\ UNCHANGED <<s, todo, stdin, armed, handed>>
         /\ ToSet(inbox') \subseteq ToSet(inbox)
         /\ ToSet(backlog') \subseteq ToSet(backlog) \cup ToSet(inbox)
         /\ ToSet(inbox) \cap Message # {} => ToSet(inbox') \cap Message # {} \/ cli' # "idle"
         /\ ~CliTakesInterrupt /\ backlog # << >> => backlog' # << >> \/ cli' # "idle"
         /\ cli' \in Ask => ~Unasked \/ Happened("ask")'
<1> USE DEF process, dogs, history
<1>0. /\ inbox \in Seq(Input) /\ backlog \in Seq(Message) /\ outbox \in Seq(Output)
      /\ cli \in {"idle", "thinking", "speaking"} \cup Ask
  BY DEF TypeOK, CliOK
<1>1. UNCHANGED <<s, todo, stdin, armed, handed>>
  BY DEF Cli, CliMay, CliTakesMessage, CliTakesInterrupt, CliTakesAnswer, CliSpeaks, CliNext, CliEnds,
         CliAsks, CliWithdraws, CliWakes, CliExits, CliFreezes
<1>2. inbox' = inbox \/ (inbox # << >> /\ inbox' = Tail(inbox) /\ Head(inbox).kind \in {"message", "interrupt", "answer"})
  BY DEF Cli, CliMay, CliTakesMessage, CliTakesInterrupt, CliTakesAnswer, CliSpeaks, CliNext, CliEnds,
         CliAsks, CliWithdraws, CliWakes, CliExits, CliFreezes
<1>3. /\ inbox' = inbox \/ (inbox # << >> /\ ToSet(inbox) = {Head(inbox)} \cup ToSet(inbox'))
  BY <1>0, <1>2, TailRange
<1>4. CASE CliTakesMessage
  <2>1. inbox # << >> /\ Head(inbox) \in Message
    BY <1>4, InputFields DEF CliTakesMessage
  <2>2. ToSet(inbox) = {Head(inbox)} \cup ToSet(inbox')
    BY <1>0, <1>4, <2>1, TailRange DEF CliTakesMessage
  <2>3. cli' # "idle" /\ cli' \in {cli, "thinking"}
    BY <1>4 DEF CliTakesMessage
  <2>4. backlog' = backlog \/ (ToSet(backlog') = ToSet(backlog) \cup {Head(inbox)})
    <3>1. CASE backlog' = Append(backlog, Head(inbox))
      BY <1>0, <2>1, <3>1, AppendedRange
    <3> QED
      BY <1>4, <3>1 DEF CliTakesMessage
  <2>5. cli' \in Ask => ~Unasked
    BY <2>3, RuntimeAssumption DEF Unasked
  <2> QED
    BY <1>1, <2>2, <2>3, <2>4, <2>5
<1>5. CASE CliTakesInterrupt
  <2>1. ToSet(backlog') \subseteq ToSet(backlog) /\ cli' \in {cli, "idle"}
    BY <1>5, EmptyRange DEF CliTakesInterrupt
  <2>2. Head(inbox) \notin Message
    BY <1>5 DEF CliTakesInterrupt, Message
  <2>3. cli' \in Ask => ~Unasked
    BY <2>1, RuntimeAssumption DEF Unasked
  <2> QED
    BY <1>1, <1>3, <1>5, <2>1, <2>2, <2>3
<1>6. CASE CliTakesAnswer
  <2>1. Head(inbox) \notin Message /\ UNCHANGED backlog /\ cli' \in {cli, "idle", "speaking"}
    BY <1>6 DEF CliTakesAnswer, Message
  <2>2. cli' \in Ask => ~Unasked
    BY <2>1, RuntimeAssumption DEF Unasked
  <2> QED
    BY <1>1, <1>3, <2>1, <2>2
<1>7. ASSUME NEW a \in Ask, CliAsks(a)
      PROVE  UNCHANGED <<inbox, backlog>> /\ Happened("ask")'
  BY <1>7, SpentHappens DEF CliAsks, Kind
<1>8. CASE CliNext
  <2>1. backlog # << >> /\ backlog' = Tail(backlog) /\ UNCHANGED inbox /\ cli' = "thinking"
    BY <1>8 DEF CliNext
  <2>2. ToSet(backlog') \subseteq ToSet(backlog)
    BY <1>0, <2>1, TailRange
  <2> QED
    BY <1>1, <2>1, <2>2, RuntimeAssumption
<1>9. CASE CliSpeaks \/ CliWithdraws \/ CliWakes \/ CliExits \/ CliFreezes \/ \E r \in {"ok", "error", "limit"} : CliEnds(r)
  <2>1. UNCHANGED <<inbox, backlog>> /\ cli' \in {cli, "idle", "speaking"}
    BY <1>9 DEF CliSpeaks, CliWithdraws, CliWakes, CliExits, CliFreezes, CliEnds
  <2>2. cli' \in Ask => ~Unasked
    BY <2>1, RuntimeAssumption DEF Unasked
  <2> QED
    BY <1>1, <2>1, <2>2
<1> QED
  BY <1>1, <1>4, <1>5, <1>6, <1>7, <1>8, <1>9 DEF Cli, CliMay

-----------------------------------------------------------------------------
(* The lists.                                                              *)

LEMMA Parts ==
  ASSUME TypeOK, NEW th \in Thread, NEW steps, NEW T, Bundle(steps, T), Takes(th, steps)
  PROVE  /\ steps \in Seq(Step) /\ Rest(th) \in Seq(Step) /\ todo'[th] = steps \o Rest(th)
         /\ \A o \in Thread \ {th} : todo'[o] = todo[o]
         /\ Tags(steps) = T /\ Tags(todo'[th]) = T \cup Tags(Rest(th))
         /\ Tags(todo[th]) = Done(th) \cup Tags(Rest(th))
<1>1. steps \in Seq(Step) /\ Tags(steps) = T
  BY DEF Bundle
<1>2. /\ \A o \in Thread \ {th} : todo'[o] = todo[o]
      /\ todo'[th] = steps \o Rest(th) /\ Rest(th) \in Seq(Step)
      /\ Tags(todo'[th]) = Tags(steps) \cup Tags(Rest(th))
      /\ todo[th] = << >> => Tags(todo[th]) = {} /\ Rest(th) = << >>
      /\ todo[th] # << >> => Tags(todo[th]) = {Tag(Now(th))} \cup Tags(Rest(th)) /\ Now(th) \in Step
  BY <1>1, TagsTaken
<1>3. Tags(todo[th]) = Done(th) \cup Tags(Rest(th))
  <2>1. CASE todo[th] = << >>
    BY <1>2, <2>1 DEF Done
  <2>2. CASE todo[th] # << >>
    BY <1>2, <2>2 DEF Done
  <2> QED
    BY <2>1, <2>2
<1> QED
  BY <1>1, <1>2, <1>3

LEMMA RestFollowed ==
  ASSUME TypeOK, NEW th \in Thread, NEW S, NEW U, Followed(todo[th], S, U)
  PROVE  Followed(Rest(th), S, U) /\ (todo[th] # << >> /\ Now(th) \in S => ~FreeOf(Rest(th), U))
<1>1. CASE todo[th] = << >>
  BY <1>1, FreeNone, FollowedFree DEF Rest
<1>2. CASE todo[th] # << >>
  BY <1>2, FollowedAhead DEF Rest, Now, TypeOK
<1> QED
  BY <1>1, <1>2

LEMMA ListsOKKept ==
  ASSUME TypeOK, Next, ListsOK
  PROVE  ListsOK'
<1>0. exit # "no" => exit' # "no"
  BY Monotone DEF Less
<1>1. CASE UNCHANGED todo
  BY <1>0, <1>1 DEF ListsOK, Bears
<1>2. ASSUME NEW th \in Thread, Orderly(th) PROVE ListsOK'
  <2>1. PICK steps, T : Bundle(steps, T) /\ Takes(th, steps) /\ Modest(th, steps, T)
    BY <1>2 DEF Orderly
  <2>2. /\ steps \in Seq(Step) /\ Rest(th) \in Seq(Step) /\ todo'[th] = steps \o Rest(th)
        /\ \A o \in Thread \ {th} : todo'[o] = todo[o]
        /\ Tags(steps) = T /\ Tags(todo'[th]) = T \cup Tags(Rest(th))
        /\ Tags(todo[th]) = Done(th) \cup Tags(Rest(th))
    BY <2>1, Parts
  <2>3. AdoptLast(todo'[th]) /\ (th = Reader \/ "adopt" \notin Tags(todo'[th]))
    <3>1. CASE "adopt" \notin T
      <4>1. AdoptLast(Rest(th))
        <5>1. CASE todo[th] = << >>
          BY <5>1 DEF Rest, AdoptLast
        <5>2. CASE todo[th] # << >>
          BY <5>2, AdoptsLast DEF Rest, ListsOK, TypeOK
        <5> QED
          BY <5>1, <5>2
      <4>2. AdoptLast(todo'[th])
        BY <2>2, <3>1, <4>1, AdoptsLast
      <4> QED
        BY <2>2, <3>1, <4>2 DEF ListsOK, Bears
    <3>2. CASE "adopt" \in T
      <4>1. th = Reader /\ todo[th] = << >> /\ AdoptLast(steps)
        BY <2>1, <3>2 DEF Modest
      <4>2. steps \o << >> = steps
        BY <2>2
      <4> QED
        BY <2>2, <4>1, <4>2 DEF Rest
    <3> QED
      BY <3>1, <3>2
  <2>4. Followed(todo'[th], Tagged({"close_stdin"}), Tagged(StopTags))
    <3>1. Followed(Rest(th), Tagged({"close_stdin"}), Tagged(StopTags))
      BY RestFollowed DEF ListsOK
    <3>2. Followed(steps, Tagged({"close_stdin"}), Tagged(StopTags))
      BY <2>1 DEF Modest
    <3> QED
      BY <2>2, <3>1, <3>2, FollowedTogether
  <2>5. exit' # "no" \/ Tags(todo'[th]) \cap LateTags = {}
    BY <1>0, <2>1, <2>2 DEF ListsOK, Bears, Modest
  <2> QED
    BY <1>0, <2>2, <2>3, <2>4, <2>5 DEF ListsOK, Bears
<1> QED
  BY <1>1, <1>2, OrderlyNext

-----------------------------------------------------------------------------
(* What has never happened leaves nothing.                                 *)

\* The first frame, or what is left when it is read, is among the frames.
LEMMA FirstFrame ==
  ASSUME TypeOK, outbox # << >>
  PROVE  Head(outbox) \in ToSet(outbox) /\ ToSet(outbox) = {Head(outbox)} \cup ToSet(Tail(outbox))
BY TailRange DEF TypeOK, CliOK

LEMMA NoneAsks ==
  ASSUME TypeOK, Unasked
  PROVE  ~ReadAsk /\ ~ReadCancel /\ \A th \in Thread : Asking(th) => s'.approvals = {}
<1>1. ~ReadAsk /\ ~ReadCancel
  BY FirstFrame DEF ReadAsk, ReadCancel, Frame, Unasked
<1>2. ASSUME NEW th \in Thread, Asking(th) PROVE s'.approvals = {}
  <2>1. ~WriteAnswer(th) /\ ~Reinsert(th) /\ ~Respond(th)
    <3>1. /\ WriteAnswer(th) => Done(th) = {"answer"}
          /\ Reinsert(th) => Done(th) = {"reinsert"}
          /\ Respond(th) => Done(th) = {"respond"}
      <4>1. WriteAnswer(th) => At(th, "answer")
        BY DEF WriteAnswer, Writing
      <4>2. Reinsert(th) => At(th, "reinsert")
        BY DEF Reinsert
      <4>3. Respond(th) => At(th, "respond")
        BY DEF Respond, Writing
      <4> QED
        BY <4>1, <4>2, <4>3, DoneAt
    <3> QED
      BY <3>1, AskDone DEF AskTags
  <2>2. \A a \in Ask, d \in Decision : ~Approve(th, a, d)
    BY DEF Approve, Unasked
  <2>3. cancel_pending_approvals(th)
    BY <1>2, <2>1, <2>2 DEF Asking
  <2> QED
    BY <2>3 DEF cancel_pending_approvals, TypeOK, StateOK, RuntimeState
<1> QED
  BY <1>1, <1>2

LEMMA UnaskedKept ==
  ASSUME TypeOK, Next, Unasked, ~Happened("ask")'
  PROVE  Unasked'
<1>1. s'.approvals = {}
  <2>1. AskCalm => s'.approvals = {}
    BY DEF AskCalm, Unasked
  <2>2. \A th \in Thread : Advance(th) => s'.approvals = {}
    BY <2>1, CalmAdvance, NoneAsks
  <2>3. \A th \in Client : Call(th) => s'.approvals = {}
    BY <2>1, CalmCalls, NoneAsks, Threads
  <2>4. Read \/ Poll \/ TurnWatchdog \/ InterruptWatchdog \/ InterruptSeen => s'.approvals = {}
    BY <2>1, CalmRead, NoneAsks
  <2>5. Cli \/ CliMay => s'.approvals = {}
    BY CliMoves DEF Unasked
  <2> QED
    BY <2>2, <2>3, <2>4, <2>5 DEF Next
<1>2. cli' \notin Ask
  <2>1. CASE Programs \/ Reads
    BY <2>1 DEF Programs, Reads, Unasked
  <2>2. CASE Cli \/ CliMay
    BY <2>2, CliMoves
  <2> QED
    BY <2>1, <2>2, Sides
<1>3. \A f \in ToSet(outbox') : f.kind \notin {"ask", "cancel"}
  <2>1. CASE Programs
    BY <2>1 DEF Programs, Unasked
  <2>2. CASE Reads
    BY <2>2, FirstFrame DEF Reads, Unasked
  <2>3. CASE Cli \/ CliMay
    <3>1. PICK frames : Spoken(frames)
      BY <2>3, CliSpoken
    <3>2. ToSet(outbox') = ToSet(outbox) \cup ToSet(frames)
      BY <3>1, ConcatenatedRange DEF Spoken, TypeOK, CliOK
    <3> QED
      BY <3>1, <3>2 DEF Spoken, SaysWhy, Unasked
  <2> QED
    BY <2>1, <2>2, <2>3, Sides
<1>4. \A th \in Thread : Tags(todo'[th]) \cap AskTags = {}
  <2>1. CASE UNCHANGED todo
    BY <2>1 DEF Unasked, Bears
  <2>2. ASSUME NEW o \in Thread, Orderly(o) PROVE \A th \in Thread : Tags(todo'[th]) \cap AskTags = {}
    <3>1. PICK steps, T : Bundle(steps, T) /\ Takes(o, steps) /\ T \cap AskTags = {}
      BY <2>2 DEF Orderly, Modest
    <3>2. /\ \A p \in Thread \ {o} : todo'[p] = todo[p]
          /\ Tags(todo'[o]) = T \cup Tags(Rest(o)) /\ Tags(todo[o]) = Done(o) \cup Tags(Rest(o))
      BY <3>1, Parts
    <3> QED
      BY <3>1, <3>2 DEF Unasked, Bears
  <2> QED
    BY <2>1, <2>2, OrderlyNext
<1> QED
  BY <1>1, <1>2, <1>3, <1>4 DEF Unasked, Bears

LEMMA UnrefusedKept ==
  ASSUME TypeOK, Next, Unrefused, ~Happened("refuse")'
  PROVE  Unrefused'
<1>1. CASE Programs
  BY <1>1 DEF Programs, Unrefused
<1>2. CASE Reads
  BY <1>2, FirstFrame DEF Reads, Unrefused
<1>3. CASE Cli \/ CliMay
  <2>1. PICK frames : Spoken(frames)
    BY <1>3, CliSpoken
  <2>2. ToSet(outbox') = ToSet(outbox) \cup ToSet(frames)
    BY <2>1, ConcatenatedRange DEF Spoken, TypeOK, CliOK
  <2> QED
    BY <2>1, <2>2 DEF Spoken, SaysWhy, Unrefused
<1> QED
  BY <1>1, <1>2, <1>3, Sides

\* What comes into the CLI's stdin.
LEMMA InwardFrames ==
  ASSUME TypeOK, Inward
  PROVE  /\ ToSet(inbox) \subseteq ToSet(inbox') /\ ToSet(handed) \subseteq ToSet(handed')
         /\ ~stdin => UNCHANGED handed
         /\ \A f \in ToSet(inbox') \ ToSet(inbox) :
              /\ f.kind = "message" => f.msg \in ToSet(handed')
              /\ f.kind = "interrupt" => \E th \in Thread : "write_interrupt" \in Tags(todo[th])
<1>0. inbox \in Seq(Input) /\ handed \in Seq(Msg)
  BY DEF TypeOK, CliOK, HistoryOK
<1>1. CASE UNCHANGED <<inbox, handed>>
  BY <1>1
<1>2. ASSUME NEW m \in Msg, NEW t \in BOOLEAN, inbox' = Append(inbox, [kind |-> "message", msg |-> m, tracked |-> t]),
             handed' = Append(handed, m)
      PROVE  /\ ToSet(inbox) \subseteq ToSet(inbox') /\ ToSet(handed) \subseteq ToSet(handed')
             /\ \A f \in ToSet(inbox') \ ToSet(inbox) : f.kind = "message" /\ f.msg \in ToSet(handed')
  <2> PICK g : g = [kind |-> "message", msg |-> m, tracked |-> t]
    OBVIOUS
  <2>1. g \in Input
    BY FramesTyped
  <2>2. ToSet(inbox') = ToSet(inbox) \cup {g} /\ ToSet(handed') = ToSet(handed) \cup {m}
    BY <1>0, <1>2, <2>1, AppendedRange
  <2> QED
    BY <2>2
<1>3. CASE /\ inbox' = Append(inbox, [kind |-> "interrupt"]) /\ UNCHANGED handed
           /\ \E th \in Thread : "write_interrupt" \in Tags(todo[th])
  <2>1. [kind |-> "interrupt"] \in Input
    BY FramesTyped
  <2>2. ToSet(inbox') = ToSet(inbox) \cup {[kind |-> "interrupt"]}
    BY <1>0, <1>3, <2>1, AppendedRange
  <2> QED
    BY <1>3, <2>2
<1>4. ASSUME NEW a \in Ask, NEW d \in Decision, inbox' = Append(inbox, [kind |-> "answer", ask |-> a, decision |-> d]),
             UNCHANGED handed
      PROVE  /\ ToSet(inbox) \subseteq ToSet(inbox')
             /\ \A f \in ToSet(inbox') \ ToSet(inbox) : f.kind = "answer"
  <2> PICK g : g = [kind |-> "answer", ask |-> a, decision |-> d]
    OBVIOUS
  <2>1. g \in Input
    BY FramesTyped
  <2>2. ToSet(inbox') = ToSet(inbox) \cup {g}
    BY <1>0, <1>4, <2>1, AppendedRange
  <2> QED
    BY <2>2
<1> QED
  BY <1>1, <1>2, <1>3, <1>4 DEF Inward

LEMMA UninterruptedKept ==
  ASSUME TypeOK, Next, Uninterrupted, ~Happened("interrupt")'
  PROVE  Uninterrupted' /\ ~CliTakesInterrupt
<1>1. \A th \in Thread : "write_interrupt" \notin Tags(todo'[th])
  <2>1. CASE UNCHANGED todo
    BY <2>1 DEF Uninterrupted, Bears
  <2>2. ASSUME NEW o \in Thread, Orderly(o) PROVE \A th \in Thread : "write_interrupt" \notin Tags(todo'[th])
    <3>1. PICK steps, T : Bundle(steps, T) /\ Takes(o, steps) /\ "write_interrupt" \notin T
      BY <2>2 DEF Orderly, Modest
    <3>2. /\ \A p \in Thread \ {o} : todo'[p] = todo[p]
          /\ Tags(todo'[o]) = T \cup Tags(Rest(o)) /\ Tags(todo[o]) = Done(o) \cup Tags(Rest(o))
      BY <3>1, Parts
    <3> QED
      BY <3>1, <3>2 DEF Uninterrupted, Bears
  <2> QED
    BY <2>1, <2>2, OrderlyNext
<1>2. \A f \in ToSet(inbox') : f.kind # "interrupt"
  <2>1. CASE Programs
    <3>1. \A th \in Thread : "write_interrupt" \notin Tags(todo[th])
      BY DEF Uninterrupted, Bears
    <3> QED
      BY <2>1, <3>1, InwardFrames DEF Programs, Uninterrupted
  <2>2. CASE Reads
    BY <2>2 DEF Reads, Uninterrupted
  <2>3. CASE Cli \/ CliMay
    BY <2>3, CliMoves DEF Uninterrupted
  <2> QED
    BY <2>1, <2>2, <2>3, Sides
<1>3. ~CliTakesInterrupt
  <2>1. inbox # << >> => Head(inbox) \in ToSet(inbox)
    BY TailRange DEF TypeOK, CliOK
  <2> QED
    BY <2>1 DEF CliTakesInterrupt, Uninterrupted
<1> QED
  BY <1>1, <1>2, <1>3 DEF Uninterrupted, Bears

-----------------------------------------------------------------------------
(* What the CLI has said, and has still to say.                            *)

LEMMA ResultFollowsKept ==
  ASSUME TypeOK, Next, ResultFollows
  PROVE  ResultFollows'
<1>0. outbox \in Seq(Output)
  BY DEF TypeOK, CliOK
<1>1. CASE Programs
  BY <1>1 DEF Programs, ResultFollows
<1>2. CASE Reads
  BY <1>0, <1>2, FollowedAhead DEF Reads, ResultFollows
<1>3. CASE Cli \/ CliMay
  <2>1. PICK frames : Spoken(frames)
    BY <1>3, CliSpoken
  <2>2. ASSUME cli' = "idle" PROVE Followed(outbox', Lively, Results)
    <3>1. /\ frames \in Seq(Output) /\ outbox' = outbox \o frames
          /\ Followed(frames, Lively, Results) /\ (cli = "idle" \/ ~FreeOf(frames, Results))
      BY <2>1, <2>2 DEF Spoken
    <3>2. Followed(outbox \o frames, Lively, Results)
      BY <1>0, <3>1, FollowedTogether DEF ResultFollows
    <3> QED
      BY <3>1, <3>2
  <2> QED
    BY <2>2 DEF ResultFollows
<1> QED
  BY <1>1, <1>2, <1>3, Sides

\* How far a message is: as before, sent just now, or as the CLI has said.
Marked(m) ==
  \/ m \in DOMAIN s.delivered /\ s'.delivered[m] = s.delivered[m]
  \/ s'.delivered[m] = "sent" /\ \E th \in Thread : Deliver(th) /\ Now(th).msg = m
  \/ ReadLifecycle /\ m = Head(outbox).msg /\ m \in DOMAIN s.delivered /\ s'.delivered[m] = Head(outbox).state

LEMMA DeliveriesNext ==
  ASSUME TypeOK, Next
  PROVE  \A m \in DOMAIN s'.delivered : Marked(m)
<1>0. s \in RuntimeState /\ s.delivered \in Deliveries
  BY DEF TypeOK, StateOK, RuntimeState
<1>1. ASSUME s'.delivered = s.delivered \/ s'.delivered = << >> \/ \E S : s'.delivered = Without(s.delivered, S)
      PROVE  \A m \in DOMAIN s'.delivered : Marked(m)
  <2>1. CASE s'.delivered = s.delivered
    BY <2>1 DEF Marked
  <2>2. CASE s'.delivered = << >>
    BY <2>2, NoDelivery
  <2>3. ASSUME NEW S, s'.delivered = Without(s.delivered, S) PROVE \A m \in DOMAIN s'.delivered : Marked(m)
    <3>1. \A m \in DOMAIN s'.delivered : m \in DOMAIN s.delivered /\ s'.delivered[m] = s.delivered[m]
      BY <2>3 DEF Without, Restrict
    <3> QED
      BY <3>1 DEF Marked
  <2> QED
    BY <1>1, <2>1, <2>2, <2>3
<1>2. ASSUME NEW th \in Thread, Advance(th) PROVE \A m \in DOMAIN s'.delivered : Marked(m)
  <2>1. CASE Quiet1(th)
    <3>1. CASE forget_delivery(th)
      <4>1. s'.delivered = Without(s.delivered, {Now(th).msg})
        BY <1>0, <3>1 DEF forget_delivery, RuntimeState
      <4> QED
        BY <1>1, <4>1
    <3>2. CASE ~forget_delivery(th)
      <4>1. s'.delivered = s.delivered
        BY <1>0, <2>1, <3>2 DEF Quiet1, Unclaim, Refuse, Unflag, set_phase, apply_turn_event, ClearTurn,
             apply_error_event, Progress, Preserve, CloseStdin, release_account_runtime, ReleaseChild, RuntimeState
      <4> QED
        BY <1>1, <4>1
    <3> QED
      BY <3>1, <3>2
  <2>2. CASE Adopt(th)
    <3> PICK rest : rest = [s EXCEPT !.delivered = << >>]
      OBVIOUS
    <3>1. rest.delivered = << >> /\ \A texts : claim_turn(rest, texts).delivered = << >>
      BY <1>0 DEF claim_turn, RuntimeState
    <3>2. s' = rest \/ \E texts : s' = claim_turn(rest, texts)
      BY <2>2 DEF Adopt
    <3> QED
      BY <1>1, <3>1, <3>2
  <2>3. CASE Quiet2(th) /\ ~Adopt(th)
    <3>1. s'.delivered = s.delivered \/ s'.delivered = << >>
      BY <1>0, <2>3 DEF Quiet2, Note, WriteInterrupt, emit_turn, discard_pending_approvals, Kill, Reap, Clear, Judge,
             history, RuntimeState
    <3> QED
      BY <1>1, <3>1
  <2>4. CASE Deliver(th)
    <3> PICK m : m = Now(th).msg
      OBVIOUS
    <3>1. CASE UNCHANGED s
      BY <1>1, <3>1
    <3>2. CASE s' = [s EXCEPT !.delivered = [x \in DOMAIN @ \cup {m} |-> IF x = m THEN "sent" ELSE @[x]]]
      <4>1. s'.delivered = [x \in DOMAIN s.delivered \cup {m} |-> IF x = m THEN "sent" ELSE s.delivered[x]]
        BY <1>0, <3>2 DEF RuntimeState
      <4> QED
        BY <2>4, <4>1 DEF Marked
    <3> QED
      BY <2>4, <3>1, <3>2 DEF Deliver
  <2>5. CASE Drain(th)
    <3>1. \A texts : claim_turn([s EXCEPT !.queue = Tail(@)], texts).delivered = s.delivered
      BY <1>0 DEF claim_turn, RuntimeState
    <3>2. s'.delivered = s.delivered
      BY <2>5, <3>1 DEF Drain
    <3> QED
      BY <1>1, <3>2
  <2>6. CASE Laden(th) /\ ~Deliver(th) /\ ~Drain(th)
    <3>1. s'.delivered = s.delivered
      BY <1>0, <2>6 DEF Laden, OpenedTurn, WriteTurn, requeue_front, WriteDelivery,
                  WriteAnswer, Reinsert, cancel_pending_approvals, Respond, RuntimeState
    <3> QED
      BY <1>1, <3>1
  <2>7. CASE Wait(th)
    BY <1>1, <2>7 DEF Wait
  <2> QED
    BY <1>2, <2>1, <2>2, <2>3, <2>4, <2>5, <2>6, <2>7, AdvanceSplit
<1>3. ASSUME NEW th \in Client, Call(th) PROVE \A m \in DOMAIN s'.delivered : Marked(m)
  <2>1. s'.delivered = s.delivered \/ s'.delivered = << >>
    BY <1>0, <1>3 DEF Call, Send, SendRefused, SendStart, SendDeliver, SendQueue, remove_queued, Approve, Interrupt, Stop,
           claim_turn, RuntimeState
  <2> QED
    BY <1>1, <2>1
<1>4. CASE ReadLifecycle
  <2> PICK m : m = Head(outbox).msg
    OBVIOUS
  <2>1. CASE s' = [s EXCEPT !.delivered = Without(@, {m})]
    <3>1. s'.delivered = Without(s.delivered, {m})
      BY <1>0, <2>1 DEF RuntimeState
    <3> QED
      BY <1>1, <3>1
  <2>2. CASE m \in DOMAIN s.delivered /\ s' = [s EXCEPT !.delivered[m] = Head(outbox).state]
    <3>1. /\ DOMAIN s'.delivered = DOMAIN s.delivered /\ s'.delivered[m] = Head(outbox).state
          /\ \A n \in DOMAIN s.delivered \ {m} : s'.delivered[n] = s.delivered[n]
      BY <1>0, <2>2 DEF RuntimeState, Deliveries
    <3> QED
      BY <1>4, <2>2, <3>1 DEF Marked
  <2>3. CASE s' = s
    BY <1>1, <2>3
  <2> QED
    BY <1>4, <2>1, <2>2, <2>3 DEF ReadLifecycle
<1>5. CASE Read /\ ~ReadLifecycle
  <2>1. s'.delivered = s.delivered
    BY <1>0, <1>5 DEF Read, ReadContent, ReadAsk, ReadCancel, ReadRefusal, ReadResult, claim_turn, RuntimeState
  <2> QED
    BY <1>1, <2>1
<1>6. CASE Poll \/ TurnWatchdog \/ InterruptWatchdog \/ InterruptSeen
  BY <1>1, <1>6 DEF Poll, TurnWatchdog, InterruptWatchdog, InterruptSeen
<1>7. CASE Cli \/ CliMay
  BY <1>1, <1>7, CliMoves
<1> QED
  BY <1>2, <1>3, <1>4, <1>5, <1>6, <1>7 DEF Next

LEMMA WrittenBeforeKept ==
  ASSUME TypeOK, Next, WrittenBefore
  PROVE  WrittenBefore'
<1>0. /\ outbox \in Seq(Output) /\ backlog \in Seq(Message)
  BY DEF TypeOK, CliOK
<1>1. ToSet(handed) \subseteq ToSet(handed')
  <2>1. CASE Programs
    BY <2>1, InwardFrames DEF Programs
  <2> QED
    BY <2>1, Sides, CliMoves DEF Reads
<1>2. \A m \in DOMAIN s'.delivered : s'.delivered[m] # "sent" => m \in ToSet(handed')
  <2> SUFFICES ASSUME NEW m \in DOMAIN s'.delivered, s'.delivered[m] # "sent", Marked(m) PROVE m \in ToSet(handed')
    BY DeliveriesNext
  <2>1. CASE m \in DOMAIN s.delivered /\ s'.delivered[m] = s.delivered[m]
    BY <1>1, <2>1 DEF WrittenBefore
  <2>2. CASE ReadLifecycle /\ m = Head(outbox).msg
    <3>1. outbox # << >> /\ Head(outbox).kind = "lifecycle"
      BY <2>2 DEF ReadLifecycle, Frame
    <3> QED
      BY <1>1, <2>2, <3>1, FirstFrame DEF WrittenBefore
  <2> QED
    BY <2>1, <2>2 DEF Marked
<1>3. \A f \in ToSet(outbox') : f.kind = "lifecycle" => f.msg \in ToSet(handed')
  <2>1. CASE Programs
    BY <1>1, <2>1 DEF Programs, WrittenBefore
  <2>2. CASE Reads
    BY <1>1, <2>2, FirstFrame DEF Reads, WrittenBefore
  <2>3. CASE Cli \/ CliMay
    <3>1. PICK frames : Spoken(frames)
      BY <2>3, CliSpoken
    <3>2. ToSet(outbox') = ToSet(outbox) \cup ToSet(frames)
      BY <1>0, <3>1, ConcatenatedRange DEF Spoken
    <3>3. \A f \in ToSet(frames) : f.kind = "lifecycle" => f.msg \in ToSet(handed)
      BY <3>1 DEF Spoken, SaysWhy, WrittenBefore
    <3> QED
      BY <1>1, <3>2, <3>3 DEF WrittenBefore
  <2> QED
    BY <2>1, <2>2, <2>3, Sides
<1>4. \A f \in ToSet(inbox') : f.kind = "message" => f.msg \in ToSet(handed')
  <2>1. CASE Programs
    BY <1>1, <2>1, InwardFrames DEF Programs, WrittenBefore
  <2>2. CASE Reads
    BY <1>1, <2>2 DEF Reads, WrittenBefore
  <2>3. CASE Cli \/ CliMay
    BY <1>1, <2>3, CliMoves DEF WrittenBefore
  <2> QED
    BY <2>1, <2>2, <2>3, Sides
<1>5. \A f \in ToSet(backlog') : f.msg \in ToSet(handed')
  <2>1. CASE Programs \/ Reads
    BY <1>1, <2>1 DEF Programs, Reads, WrittenBefore
  <2>2. CASE Cli \/ CliMay
    <3>1. backlog' \in Seq(Message)
      BY <2>2, CliTypedCli DEF CliOK
    <3>2. \A f \in ToSet(backlog') : f.kind = "message"
      BY <3>1, SeqTyped, TrackedMessage
    <3> QED
      BY <1>1, <2>2, <3>2, CliMoves DEF WrittenBefore
  <2> QED
    BY <2>1, <2>2, Sides
<1> QED
  BY <1>2, <1>3, <1>4, <1>5 DEF WrittenBefore

\* Only a stop, or the end of the process, closes the pipe.
LEMMA ClosedBy ==
  ASSUME TypeOK, Next, ListsOK, stdin, ~stdin', exit = "no"
  PROVE  \E th \in Thread : Bears(th, StopTags)'
<1>1. ASSUME NEW th \in Thread, Advance(th) PROVE CloseStdin(th)
  <2>1. CASE Quiet1(th)
    BY <2>1 DEF Quiet1, Unclaim, Refuse, forget_delivery, Unflag, set_phase, apply_turn_event, ClearTurn,
           apply_error_event, Progress, Preserve, release_account_runtime, ReleaseChild, process
  <2>2. CASE Quiet2(th)
    BY <2>2 DEF Quiet2, Note, WriteInterrupt, emit_turn, discard_pending_approvals, Adopt, Kill, Reap, Clear, Judge, process
  <2>3. CASE Laden(th) \/ Wait(th)
    BY <2>3 DEF Wait, Laden, Drain, OpenedTurn, WriteTurn, requeue_front, Deliver, WriteDelivery,
                  WriteAnswer, Reinsert, cancel_pending_approvals, Respond, process
  <2> QED
    BY <1>1, <2>1, <2>2, <2>3, AdvanceSplit
<1>2. ASSUME NEW th \in Client, Call(th) PROVE FALSE
  BY <1>2 DEF Call, Send, SendRefused, SendStart, SendDeliver, SendQueue, remove_queued, Approve, Interrupt, Stop, process
<1>3. ~(Read \/ Poll \/ TurnWatchdog \/ InterruptWatchdog \/ InterruptSeen)
  BY DEF Read, ReadContent, ReadAsk, ReadCancel, ReadLifecycle, ReadRefusal, ReadResult,
         Poll, TurnWatchdog, InterruptWatchdog, InterruptSeen, process
<1>4. ~(Cli \/ CliMay)
  BY CliMoves
<1>5. PICK th \in Thread : CloseStdin(th)
  BY <1>1, <1>2, <1>3, <1>4 DEF Next
<1>6. todo[th] # << >> /\ Now(th).op \in {"close_stdin", "release_stdin"} /\ Then(th, << >>) /\ Done(th) = {Now(th).op}
  BY <1>5, DoneAt DEF CloseStdin, At, Now
<1>7. Now(th).op = "close_stdin"
  <2>1. Done(th) \subseteq Tags(todo[th])
    BY BornBefore
  <2> QED
    BY <1>6, <2>1 DEF ListsOK, Bears, LateTags
<1>8. Now(th) \in Tagged({"close_stdin"})
  BY <1>6, <1>7, HeadStep DEF Tagged, Tag
<1>9. ~FreeOf(Rest(th), Tagged(StopTags))
  BY <1>6, <1>8, RestFollowed DEF ListsOK
<1>10. Bundle(<< >>, {}) /\ Takes(th, << >>)
  BY <1>6, BundleNone DEF Takes
<1>11. Rest(th) \in Seq(Step) /\ Tags(todo'[th]) = {} \cup Tags(Rest(th))
  BY <1>10, Parts
<1>12. Tags(Rest(th)) \cap StopTags # {}
  BY <1>9, <1>11, TaggedSteps
<1> QED
  BY <1>11, <1>12 DEF Bears

LEMMA StoppedEmptyKept ==
  ASSUME TypeOK, Next, ListsOK, StoppedEmpty, MessagesApart
  PROVE  StoppedEmpty'
<1> SUFFICES ASSUME ~stdin', exit' = "no", \A th \in Thread : ~Bears(th, StopTags)'
             PROVE  DOMAIN s'.delivered \cap ToSet(handed') = {}
  BY DEF StoppedEmpty
<1>1. exit = "no" /\ ~stdin
  BY Monotone, ClosedBy DEF Less
<1>2. CASE \E th \in Thread : Bears(th, StopTags)
  <2>1. PICK th \in Thread : Bears(th, StopTags)
    BY <1>2
  <2>2. ~UNCHANGED todo
    BY <2>1 DEF Bears
  <2>3. PICK o \in Thread : Orderly(o)
    BY <2>2, OrderlyNext
  <2>4. PICK steps, T : Bundle(steps, T) /\ Takes(o, steps) /\ Leaves(o, T)
    BY <2>3 DEF Orderly
  <2>5. /\ \A p \in Thread \ {o} : todo'[p] = todo[p]
        /\ Tags(todo'[o]) = T \cup Tags(Rest(o)) /\ Tags(todo[o]) = Done(o) \cup Tags(Rest(o))
    BY <2>4, Parts
  <2>6. o = th /\ Done(o) \cap StopTags # {} /\ T \cap StopTags = {}
    BY <2>1, <2>5 DEF Bears
  <2>7. s'.delivered = << >>
    BY <2>4, <2>6 DEF Leaves
  <2> QED
    BY <2>7, NoDelivery
<1>3. CASE \A th \in Thread : ~Bears(th, StopTags)
  <2>1. DOMAIN s.delivered \cap ToSet(handed) = {}
    BY <1>1, <1>3 DEF StoppedEmpty
  <2>2. UNCHANGED handed
    <3>1. CASE Programs
      BY <1>1, <3>1, InwardFrames DEF Programs
    <3> QED
      BY <3>1, Sides, CliMoves DEF Reads
  <2>3. ASSUME NEW m \in DOMAIN s'.delivered PROVE m \notin ToSet(handed)
    <3>1. Marked(m)
      BY DeliveriesNext
    <3>2. CASE \E th \in Thread : Deliver(th) /\ Now(th).msg = m
      <4>1. PICK th \in Thread : Deliver(th) /\ Now(th).msg = m
        BY <3>2
      <4>2. m \in MsgsIn(todo[th])
        <5>1. todo[th] # << >> /\ Now(th).op = "deliver"
          BY <4>1 DEF Deliver, At, Now
        <5>2. MsgsIn(todo[th]) = MsgsOf(Now(th)) \cup MsgsIn(Rest(th))
          BY <5>1, RestOf DEF TypeOK
        <5> QED
          BY <4>1, <5>1, <5>2 DEF MsgsOf
      <4> QED
        BY <4>2 DEF MessagesApart
    <3> QED
      BY <2>1, <3>1, <3>2 DEF Marked
  <2> QED
    BY <2>2, <2>3
<1> QED
  BY <1>2, <1>3

LEMMA SignsOfStopsKept ==
  ASSUME TypeOK, Next, ListsOK, SignsOfStops, Unasked, ~Happened("gone")', stdin', exit' = "no"
  PROVE  SignsOfStops'
<1>0. exit = "no"
  BY Monotone DEF Less
<1>1. CASE UNCHANGED todo
  BY <1>1 DEF SignsOfStops
<1>2. ASSUME NEW th \in Thread, Orderly(th) PROVE SignsOfStops'
  <2>1. PICK steps, T : Bundle(steps, T) /\ Takes(th, steps) /\ Modest(th, steps, T)
    BY <1>2 DEF Orderly
  <2>2. /\ steps \in Seq(Step) /\ Rest(th) \in Seq(Step) /\ todo'[th] = steps \o Rest(th)
        /\ \A o \in Thread \ {th} : todo'[o] = todo[o]
        /\ Tags(steps) = T /\ Tags(todo[th]) = Done(th) \cup Tags(Rest(th))
    BY <2>1, Parts
  <2>3. ASSUME th # Reader PROVE Followed(todo'[th], Tagged(SignTags), Tagged(EndTags))
    <3>1. Followed(Rest(th), Tagged(SignTags), Tagged(EndTags))
      BY <2>3, RestFollowed DEF SignsOfStops
    <3>2. Followed(steps, Tagged(SignTags), Tagged(EndTags)) \/ ~FreeOf(Rest(th), Tagged(EndTags))
      <4>1. CASE T \cap SignTags = {}
        BY <2>2, <4>1, TaggedSteps
      <4>2. CASE SignedLate(th, steps)
        <5>1. "judge" \notin Done(th)
          BY <1>0, <2>2 DEF ListsOK, Bears, LateTags
        <5>2. CASE Done(th) \cap SignTags # {}
          <6>1. todo[th] # << >> /\ Now(th) \in Tagged(SignTags)
            <7>1. todo[th] # << >> /\ Tag(Now(th)) \in SignTags
              BY <5>2 DEF Done
            <7> QED
              BY <7>1, HeadStep DEF Tagged
          <6> QED
            BY <2>3, <6>1, RestFollowed DEF SignsOfStops
        <5> QED
          BY <2>3, <4>2, <5>1, <5>2 DEF SignedLate
      <4> QED
        BY <2>1, <4>1, <4>2 DEF Modest
    <3> QED
      BY <2>2, <3>1, <3>2, FollowedTogether
  <2> QED
    BY <2>2, <2>3 DEF SignsOfStops
<1> QED
  BY <1>1, <1>2, OrderlyNext

LEMMA KeptOrStartedKept ==
  ASSUME TypeOK, Promises, Next, KeptOrStarted, ~CliTakesInterrupt
  PROVE  KeptOrStarted'
<1>0. outbox \in Seq(Output)
  BY DEF TypeOK, CliOK
\* A message that is kept, or announced as started, stays so, or its start is read.
<1>1. ASSUME NEW m \in Msg, Tracked(m) \in ToSet(backlog) \/ Started(m) \in ToSet(outbox)
      PROVE  \/ Tracked(m) \in ToSet(backlog') \/ Started(m) \in ToSet(outbox')
             \/ Reads /\ Head(outbox) = Started(m)
  <2>1. CASE Programs
    BY <1>1, <2>1 DEF Programs
  <2>2. CASE Reads
    BY <1>1, <2>2, FirstFrame DEF Reads
  <2>3. CASE Cli \/ CliMay
    <3>1. PICK frames : Spoken(frames)
      BY <2>3, CliSpoken
    <3>2. ToSet(outbox') = ToSet(outbox) \cup ToSet(frames)
      BY <1>0, <3>1, ConcatenatedRange DEF Spoken
    <3> QED
      BY <1>1, <3>1, <3>2 DEF Spoken
  <2> QED
    BY <2>1, <2>2, <2>3, Sides
<1>2. ASSUME NEW m \in DOMAIN s'.delivered, s'.delivered[m] = "queued"
      PROVE  Tracked(m) \in ToSet(backlog') \/ Started(m) \in ToSet(outbox')
  <2>1. Marked(m) /\ m \in Msg
    <3>1. s'.delivered \in Deliveries
      BY StateTypedNext DEF StateOK, RuntimeState
    <3> QED
      BY <3>1, DeliveriesNext DEF Deliveries
  <2>2. CASE m \in DOMAIN s.delivered /\ s'.delivered[m] = s.delivered[m]
    <3>1. Tracked(m) \in ToSet(backlog) \/ Started(m) \in ToSet(outbox)
      BY <1>2, <2>2 DEF KeptOrStarted
    <3>2. ~(Reads /\ Head(outbox) = Started(m))
      <4>1. SUFFICES ASSUME Reads, Head(outbox) = Started(m) PROVE FALSE
        OBVIOUS
      <4>2. Head(outbox).kind = "lifecycle" /\ Head(outbox).msg = m /\ Head(outbox).state = "started"
        BY <4>1 DEF Started
      <4>3. ReadLifecycle
        BY <4>1, <4>2 DEF Reads, Read, ReadContent, ReadAsk, ReadCancel, ReadRefusal, ReadResult, Frame
      <4>4. s' = [s EXCEPT !.delivered[m] = "started"]
        BY <1>2, <2>2, <4>2, <4>3 DEF ReadLifecycle
      <4>5. s'.delivered[m] = "started"
        BY <2>2, <4>4 DEF TypeOK, StateOK, RuntimeState, Deliveries
      <4> QED
        BY <1>2, <4>5
    <3> QED
      BY <1>1, <2>1, <3>1, <3>2
  <2>3. CASE ReadLifecycle /\ m = Head(outbox).msg /\ Head(outbox).state = "queued"
    <3>1. /\ outbox # << >> /\ Head(outbox).kind = "lifecycle" /\ outbox' = Tail(outbox) /\ UNCHANGED backlog
      BY <2>3 DEF ReadLifecycle, Frame
    <3>2. Head(outbox) = Queued(m)
      BY <2>3, <3>1, OutputFields DEF Output, Queued
    <3>3. Followed(outbox, {Queued(m)}, {Started(m)}) => Started(m) \in ToSet(Tail(outbox))
      <4>1. ASSUME Followed(outbox, {Queued(m)}, {Started(m)}) PROVE ~FreeOf(Tail(outbox), {Started(m)})
        BY <1>0, <3>1, <3>2, <4>1, FollowedAhead
      <4> QED
        BY <4>1 DEF FreeOf, ToSet
    <3> QED
      BY <2>1, <3>1, <3>3 DEF KeptOrStarted
  <2> QED
    BY <1>2, <2>1, <2>2, <2>3 DEF Marked
<1>3. ASSUME NEW m \in Msg, Tracked(m) \notin ToSet(backlog')
      PROVE  Followed(outbox', {Queued(m)}, {Started(m)})
  <2>1. CASE Programs
    BY <1>3, <2>1 DEF Programs, KeptOrStarted
  <2>2. CASE Reads
    <3>1. Followed(outbox, {Queued(m)}, {Started(m)})
      BY <1>3, <2>2 DEF Reads, KeptOrStarted
    <3> QED
      BY <1>0, <2>2, <3>1, FollowedAhead DEF Reads
  <2>3. CASE Cli \/ CliMay
    <3>1. PICK frames : Spoken(frames)
      BY <2>3, CliSpoken
    <3>2. /\ frames \in Seq(Output) /\ outbox' = outbox \o frames /\ Queued(m) \notin ToSet(frames)
          /\ Tracked(m) \in ToSet(backlog) => Started(m) \in ToSet(frames)
      BY <1>3, <3>1 DEF Spoken
    <3>3. Followed(frames, {Queued(m)}, {Started(m)})
      BY <3>2 DEF Followed, ToSet
    <3>4. Followed(outbox, {Queued(m)}, {Started(m)}) \/ ~FreeOf(frames, {Started(m)})
      <4>1. Started(m) \in ToSet(frames) => ~FreeOf(frames, {Started(m)})
        BY DEF FreeOf, ToSet
      <4> QED
        BY <3>2, <4>1 DEF KeptOrStarted
    <3> QED
      BY <1>0, <3>2, <3>3, <3>4, FollowedTogether
  <2> QED
    BY <2>1, <2>2, <2>3, Sides
<1> QED
  BY <1>2, <1>3 DEF KeptOrStarted

-----------------------------------------------------------------------------
(* What is under way stays under way until the phase is set.               *)

LEMMA BusyKept ==
  ASSUME TypeOK, Next, Busy
  PROVE  Busy' \/ s'.phase \notin Active
<1>0. outbox \in Seq(Output)
  BY DEF TypeOK, CliOK
<1>1. ASSUME NEW th \in Thread, Bears(th, EndTags) PROVE Busy' \/ s'.phase \notin Active
  <2>1. CASE UNCHANGED todo
    BY <1>1, <2>1 DEF Bears, Busy
  <2>2. ASSUME NEW o \in Thread, Orderly(o) PROVE Busy' \/ s'.phase \notin Active
    <3>1. PICK steps, T : Bundle(steps, T) /\ Takes(o, steps) /\ Leaves(o, T)
      BY <2>2 DEF Orderly
    <3>2. /\ \A p \in Thread \ {o} : todo'[p] = todo[p]
          /\ Tags(todo'[o]) = T \cup Tags(Rest(o)) /\ Tags(todo[o]) = Done(o) \cup Tags(Rest(o))
      BY <3>1, Parts
    <3>3. CASE o # th \/ Tags(Rest(o)) \cap EndTags # {} \/ T \cap EndTags # {}
      <4>1. Bears(o, EndTags)' \/ Bears(th, EndTags)'
        BY <1>1, <3>2, <3>3 DEF Bears
      <4> QED
        BY <4>1 DEF Busy
    <3>4. CASE Done(o) \cap EndTags # {}
      BY <3>1, <3>3, <3>4 DEF Leaves, Busy
    <3> QED
      BY <1>1, <3>2, <3>3, <3>4 DEF Bears
  <2> QED
    BY <2>1, <2>2, OrderlyNext
<1>2. CASE cli # "idle" \/ ToSet(inbox) \cap Message # {} \/ ToSet(outbox) \cap Results # {}
  <2>1. CASE Programs
    BY <1>2, <2>1, InwardFrames DEF Programs, Busy
  <2>2. CASE Reads
    <3>1. CASE ReadResult
      BY <3>1, OrderlyResult, Threads DEF Busy
    <3>2. CASE ~ReadResult
      <4>1. Head(outbox) \notin Results
        BY <2>2, <3>2 DEF Reads, Read, ReadContent, ReadAsk, ReadCancel, ReadRefusal, ReadLifecycle, Frame, Results
      <4> QED
        BY <1>2, <2>2, <4>1, FirstFrame DEF Reads, Busy
    <3> QED
      BY <3>1, <3>2
  <2>3. CASE Cli \/ CliMay
    <3>1. PICK frames : Spoken(frames)
      BY <2>3, CliSpoken
    <3>2. ToSet(outbox') = ToSet(outbox) \cup ToSet(frames)
      BY <1>0, <3>1, ConcatenatedRange DEF Spoken
    <3>3. cli # "idle" /\ cli' = "idle" => ToSet(frames) \cap Results # {}
      BY <3>1 DEF Spoken, FreeOf, ToSet
    <3> QED
      BY <1>2, <2>3, <3>2, <3>3, CliMoves DEF Busy
  <2> QED
    BY <2>1, <2>2, <2>3, Sides
<1> QED
  BY <1>1, <1>2 DEF Busy

LEMMA LivelyBusy ==
  ASSUME TypeOK, ResultFollows, NEW f \in ToSet(outbox), f \in Lively
  PROVE  Busy
<1>1. ASSUME cli = "idle" PROVE ToSet(outbox) \cap Results # {}
  <2>1. Followed(outbox, Lively, Results)
    BY <1>1 DEF ResultFollows
  <2>2. PICK i \in DOMAIN outbox : outbox[i] = f
    BY DEF ToSet
  <2>3. PICK j \in DOMAIN outbox : outbox[j] \in Results
    BY <2>1, <2>2 DEF Followed
  <2> QED
    BY <2>3 DEF ToSet
<1> QED
  BY <1>1 DEF Busy

\* An adopted delivery claims a turn.
Claims(th) == Adopt(th) /\ s.phase = "ready" /\ take_unstarted_deliveries(s.delivered) # {}

Signs == \E th \in Thread : Done(th) \cap SignTags # {}
EndsNext == \E th \in Thread : Bears(th, EndTags)'

\* How the phase comes to be one of work, and the turn to be another.
PhaseMoves ==
  \/ s'.phase \notin Active
  \/ s'.phase = s.phase /\ (s'.turn = s.turn \/ Signs)
  \/ s.phase = "ready" /\ (EndsNext \/ ReadContent \/ \E th \in Thread : Claims(th))

LEMMA PhaseSame ==
  ASSUME s'.phase = s.phase, s'.turn = s.turn
  PROVE  PhaseMoves
BY DEF PhaseMoves

LEMMA ClaimBegun ==
  ASSUME TypeOK, NEW th \in Thread, NEW m \in Msg, NEW x \in BOOLEAN,
         NEW steps, steps = OpenTurn(m, s.claims + 1, x), Takes(th, steps)
  PROVE  EndsNext
<1>1. s.claims + 1 \in Nat
  BY DEF TypeOK, StateOK, RuntimeState
<1>2. Bundle(steps, {"open_turn"})
  BY <1>1, Bundles
<1>3. Tags(todo'[th]) = {"open_turn"} \cup Tags(Rest(th))
  BY <1>2, Parts
<1> QED
  BY <1>3 DEF EndsNext, Bears, EndTags

LEMMA PhaseQuiet1 ==
  ASSUME TypeOK, Unasked, NEW th \in Thread, Quiet1(th)
  PROVE  PhaseMoves
<1>0. s \in RuntimeState
  BY DEF TypeOK, StateOK
<1>1. CASE Unclaim(th)
  <2>1. s'.phase = "ready"
    BY <1>0, <1>1 DEF Unclaim, RuntimeState
  <2> QED
    BY <2>1 DEF PhaseMoves, Active
<1>2. CASE set_phase(th)
  <2>1. s'.phase = Now(th).phase /\ todo[th] # << >> /\ Now(th).op = "set_phase"
    BY <1>0, <1>2 DEF set_phase, At, Now, RuntimeState
  <2>2. Tag(Now(th)) \in Tags(todo[th])
    BY <2>1, BornBefore DEF Done
  <2>3. s'.phase \notin Active
    BY <2>1, <2>2 DEF Tag, Unasked, Bears, AskTags
  <2> QED
    BY <2>3 DEF PhaseMoves
<1>3. CASE ClearTurn(th)
  <2>1. Done(th) = {"clear_turn"}
    BY <1>3, DoneAt DEF ClearTurn
  <2>2. s'.phase = s.phase
    BY <1>0, <1>3 DEF ClearTurn, RuntimeState
  <2> QED
    BY <2>1, <2>2 DEF PhaseMoves, Signs, SignTags
<1>4. CASE Refuse(th) \/ Progress(th) \/ CloseStdin(th) \/ release_account_runtime(th) \/ ReleaseChild(th)
  BY <1>4, PhaseSame DEF Refuse, Progress, CloseStdin, release_account_runtime, ReleaseChild
<1>5. CASE forget_delivery(th) \/ Unflag(th) \/ apply_turn_event(th) \/ Preserve(th)
  BY <1>0, <1>5, PhaseSame DEF forget_delivery, Unflag, apply_turn_event, Preserve, RuntimeState
<1>6. CASE apply_error_event(th)
  BY <1>0, <1>6, PhaseSame DEF apply_error_event, RuntimeState
<1> QED
  BY <1>1, <1>2, <1>3, <1>4, <1>5, <1>6 DEF Quiet1

LEMMA PhaseAdvance ==
  ASSUME TypeOK, Unasked, NEW th \in Thread, Advance(th)
  PROVE  PhaseMoves
<1>0. s \in RuntimeState
  BY DEF TypeOK, StateOK
<1>1. CASE Quiet2(th)
  <2>1. CASE Adopt(th)
    <3>1. CASE Claims(th)
      BY <3>1 DEF PhaseMoves, Claims
    <3>2. CASE ~Claims(th)
      <4>1. s' = [s EXCEPT !.delivered = << >>]
        BY <2>1, <3>2 DEF Adopt, Claims
      <4> QED
        BY <1>0, <4>1, PhaseSame DEF RuntimeState
    <3> QED
      BY <3>1, <3>2
  <2>2. CASE Note(th) \/ discard_pending_approvals(th) \/ Clear(th) \/ Judge(th)
    BY <1>0, <2>2, PhaseSame DEF Note, discard_pending_approvals, Clear, Judge, RuntimeState
  <2>3. CASE WriteInterrupt(th) \/ emit_turn(th) \/ Kill(th) \/ Reap(th)
    BY <2>3, PhaseSame DEF WriteInterrupt, emit_turn, Kill, Reap
  <2> QED
    BY <1>1, <2>1, <2>2, <2>3 DEF Quiet2
<1>2. CASE Laden(th)
  <2>1. CASE Drain(th)
    <3>1. CASE s.phase = "ready" /\ s.queue # << >>
      <4>1. Head(s.queue) \in Msg
        BY <1>0, <3>1 DEF RuntimeState
      <4>2. Takes(th, OpenTurn(Head(s.queue), s.claims + 1, TRUE))
        BY <2>1, <3>1 DEF Drain, At, Takes
      <4> QED
        BY <3>1, <4>1, <4>2, ClaimBegun DEF PhaseMoves
    <3>2. CASE ~(s.phase = "ready" /\ s.queue # << >>)
      BY <2>1, <3>2, PhaseSame DEF Drain
    <3> QED
      BY <3>1, <3>2
  <2>2. CASE OpenedTurn(th) \/ WriteTurn(th) \/ WriteDelivery(th) \/ WriteAnswer(th) \/ Respond(th)
    BY <2>2, PhaseSame DEF OpenedTurn, WriteTurn, WriteDelivery, WriteAnswer, Respond
  <2>3. CASE requeue_front(th) \/ Reinsert(th) \/ cancel_pending_approvals(th)
    BY <1>0, <2>3, PhaseSame DEF requeue_front, Reinsert, cancel_pending_approvals, RuntimeState
  <2>4. CASE Deliver(th)
    BY <1>0, <2>4, PhaseSame DEF Deliver, RuntimeState
  <2> QED
    BY <1>2, <2>1, <2>2, <2>3, <2>4 DEF Laden
<1>3. CASE Wait(th)
  BY <1>3, PhaseSame DEF Wait
<1> QED
  BY <1>1, <1>2, <1>3, AdvanceSplit, PhaseQuiet1

LEMMA PhaseNext ==
  ASSUME TypeOK, Unasked, Next
  PROVE  PhaseMoves
<1>0. s \in RuntimeState
  BY DEF TypeOK, StateOK
<1>1. ASSUME NEW th \in Client, Call(th) PROVE PhaseMoves
  <2>1. ASSUME NEW m \in Msg, SendStart(th, m) PROVE PhaseMoves
    <3>1. Takes(th, OpenTurn(m, s.claims + 1, FALSE)) /\ s.phase = "ready"
      BY <2>1 DEF SendStart, CanStart, Takes
    <3> QED
      BY <3>1, ClaimBegun, Threads DEF PhaseMoves
  <2>2. ASSUME NEW m \in Msg, SendRefused(th, m) \/ SendDeliver(th, m) \/ SendQueue(th, m) PROVE PhaseMoves
    BY <1>0, <2>2, PhaseSame DEF SendRefused, SendDeliver, SendQueue, RuntimeState
  <2>3. ASSUME NEW i \in DOMAIN s.queue, remove_queued(th, i) PROVE PhaseMoves
    BY <1>0, <2>3, PhaseSame DEF remove_queued, RuntimeState
  <2>4. ASSUME NEW a \in Ask, NEW d \in Decision, Approve(th, a, d) PROVE PhaseMoves
    BY <1>0, <2>4, PhaseSame DEF Approve, RuntimeState
  <2>5. CASE Interrupt(th) \/ Stop(th)
    BY <1>0, <2>5, PhaseSame DEF Interrupt, Stop, RuntimeState
  <2> QED
    BY <1>1, <2>1, <2>2, <2>3, <2>4, <2>5 DEF Call, Send
<1>2. CASE Read
  <2>1. CASE ReadContent
    <3>1. s.phase = "ready" \/ UNCHANGED s
      BY <2>1 DEF ReadContent
    <3> QED
      BY <2>1, <3>1, PhaseSame DEF PhaseMoves
  <2>2. CASE ReadLifecycle
    BY <1>0, <2>2, PhaseSame DEF ReadLifecycle, RuntimeState
  <2>3. CASE ReadRefusal \/ ReadResult
    BY <1>0, <2>3, PhaseSame DEF ReadRefusal, ReadResult, RuntimeState
  <2> QED
    BY <1>2, <2>1, <2>2, <2>3, NoneAsks DEF Read
<1>3. CASE Poll \/ TurnWatchdog \/ InterruptWatchdog \/ InterruptSeen
  BY <1>3, PhaseSame DEF Poll, TurnWatchdog, InterruptWatchdog, InterruptSeen
<1>4. CASE Cli \/ CliMay
  BY <1>4, CliMoves, PhaseSame
<1> QED
  BY <1>1, <1>2, <1>3, <1>4, PhaseAdvance DEF Next

\* The watchdogs' turns go with a sign of life, or when a turn could not be written.
LEMMA ArmedNext ==
  ASSUME TypeOK, Next
  PROVE  armed \subseteq armed' \/ Signs \/ EndsNext
<1> USE DEF process, dogs
<1>1. ASSUME NEW th \in Thread, Advance(th) PROVE armed \subseteq armed' \/ Signs \/ EndsNext
  <2>1. CASE apply_turn_event(th) \/ apply_error_event(th) \/ Progress(th)
    <3>1. Done(th) \in {{"turn_event"}, {"error"}, {"progress"}}
      BY <2>1, DoneAt DEF apply_turn_event, apply_error_event, Progress
    <3> QED
      BY <3>1 DEF Signs, SignTags
  <2>2. CASE WriteTurn(th)
    <3>1. CASE CanWrite
      BY <2>2, <3>1 DEF WriteTurn
    <3>2. CASE ~CanWrite
      <4>1. todo[th] # << >> /\ Now(th).op = "write_turn" /\ Then(th, FailTurn(Now(th)))
        BY <2>2, <3>2 DEF WriteTurn, Writing, At, Now
      <4>2. PICK steps, T : Bundle(steps, T) /\ Takes(th, steps) /\ "unclaim" \in T
        BY <4>1, HeadStep, FailBundle DEF Takes
      <4>3. "unclaim" \in Tags(todo'[th])
        BY <4>2, Parts
      <4> QED
        BY <4>3 DEF EndsNext, Bears, EndTags
    <3> QED
      BY <3>1, <3>2
  <2>3. CASE Adopt(th) \/ OpenedTurn(th)
    BY <2>3 DEF Adopt, OpenedTurn
  <2>4. CASE Quiet1(th) /\ ~(apply_turn_event(th) \/ apply_error_event(th) \/ Progress(th))
    BY <2>4 DEF Quiet1, Unclaim, Refuse, forget_delivery, Unflag, set_phase, ClearTurn,
         Preserve, CloseStdin, release_account_runtime, ReleaseChild
  <2>5. CASE Quiet2(th) /\ ~Adopt(th)
    BY <2>5 DEF Quiet2, Note, WriteInterrupt, emit_turn, discard_pending_approvals, Kill, Reap, Clear, Judge
  <2>6. CASE (Laden(th) \/ Wait(th)) /\ ~OpenedTurn(th) /\ ~WriteTurn(th)
    BY <2>6 DEF Laden, Drain, requeue_front, Deliver, WriteDelivery, WriteAnswer, Reinsert,
                cancel_pending_approvals, Respond, Wait
  <2> QED
    BY <1>1, <2>1, <2>2, <2>3, <2>4, <2>5, <2>6, AdvanceSplit
<1>2. ASSUME NEW th \in Client, Call(th) PROVE armed \subseteq armed'
  BY <1>2 DEF Call, Send, SendRefused, SendStart, SendDeliver, SendQueue, remove_queued, Approve, Interrupt, Stop
<1>3. Read => armed \subseteq armed'
  BY DEF Read, ReadContent, ReadAsk, ReadCancel, ReadLifecycle, ReadRefusal, ReadResult
<1>4. Poll \/ TurnWatchdog \/ InterruptWatchdog \/ InterruptSeen => armed \subseteq armed'
  BY DEF Poll, TurnWatchdog, InterruptWatchdog, InterruptSeen
<1> QED
  BY <1>1, <1>2, <1>3, <1>4, CliMoves DEF Next

\* Content that is read was said at work: its result is still to come.
LEMMA ContentBusy == ASSUME TypeOK, ResultFollows, ReadContent PROVE Busy
<1>1. Head(outbox) \in ToSet(outbox) /\ Head(outbox).kind = "content" /\ Head(outbox) \in Output
  BY FirstFrame, OutputFields DEF ReadContent, Frame
<1> QED
  BY <1>1, LivelyBusy DEF Lively

\* The adopting reader has nothing left to do, and the others as much as before.
LEMMA ClaimsLast ==
  ASSUME TypeOK, ListsOK, NEW th \in Thread, Claims(th)
  PROVE  /\ Tags(todo'[Reader]) = {} /\ \A o \in Thread \ {Reader} : todo'[o] = todo[o]
         /\ s'.turn \in armed'
         /\ UNCHANGED <<handed, backlog, outbox, stdin, exit>>
         /\ \E m \in DOMAIN s.delivered : s.delivered[m] = "queued"
<1>1. /\ At(th, "adopt") /\ Then(th, << >>) /\ armed' = armed \cup {s.claims + 1}
      /\ s' = claim_turn([s EXCEPT !.delivered = << >>], take_unstarted_deliveries(s.delivered))
      /\ UNCHANGED <<handed, backlog, outbox, stdin, exit>>
  BY DEF Claims, Adopt, external, history, process
<1>2. todo[th] # << >> /\ Now(th).op = "adopt" /\ Done(th) = {"adopt"}
  BY <1>1, DoneAt
<1>3. th = Reader
  BY <1>2, BornBefore DEF ListsOK, Bears
<1>4. Rest(th) = << >>
  <2>1. todo[th] \in Seq(Step) /\ AdoptLast(todo[th])
    BY DEF TypeOK, ListsOK
  <2> QED
    BY <1>2, <2>1, AdoptsLast DEF Rest, Now
<1>5. Bundle(<< >>, {}) /\ Takes(th, << >>)
  BY <1>1, <1>2, BundleNone DEF Takes
<1>6. Tags(todo'[th]) = {} \cup Tags(Rest(th)) /\ \A o \in Thread \ {th} : todo'[o] = todo[o]
  BY <1>5, Parts
<1>7. s'.turn = s.claims + 1
  BY <1>1 DEF claim_turn, TypeOK, StateOK, RuntimeState
<1>8. Tags(Rest(th)) = {}
  BY <1>4 DEF Tags
<1> QED
  BY <1>1, <1>3, <1>6, <1>7, <1>8 DEF Claims, take_unstarted_deliveries

\* Without interrupts it is busy, or the CLI has kept a message for its next turn.
LEMMA WorkKept ==
  ASSUME TypeOK, Next, ResultFollows, ListsOK, Unasked, Uninterrupted, KeptOrStarted, ~Happened("interrupt")',
         s.phase \in Active => Busy \/ backlog # << >>, s'.phase \in Active
  PROVE  Busy' \/ backlog' # << >>
<1>1. ASSUME Busy PROVE Busy'
  BY <1>1, BusyKept
<1>2. CASE s.phase \in Active /\ backlog # << >>
  <2>1. ~CliTakesInterrupt
    BY UninterruptedKept
  <2>2. Cli \/ CliMay => backlog' # << >> \/ cli' # "idle"
    BY <1>2, <2>1, CliMoves
  <2> QED
    BY <1>2, <2>2, Sides DEF Programs, Reads, Busy
<1>3. CASE s.phase \notin Active
  <2>1. s'.phase # s.phase
    BY <1>3
  <2>2. EndsNext \/ ReadContent \/ \E th \in Thread : Claims(th)
    BY <2>1, PhaseNext DEF PhaseMoves
  <2>3. CASE EndsNext
    BY <2>3 DEF EndsNext, Busy
  <2>4. CASE ReadContent
    BY <1>1, <2>4, ContentBusy
  <2>5. ASSUME NEW th \in Thread, Claims(th) PROVE Busy' \/ backlog' # << >>
    <3>1. PICK m \in DOMAIN s.delivered : s.delivered[m] = "queued"
      BY <2>5, ClaimsLast
    <3>2. UNCHANGED backlog
      BY <2>5, ClaimsLast
    <3>3. CASE Tracked(m) \in ToSet(backlog)
      BY <3>2, <3>3, EmptyRange
    <3>4. CASE Started(m) \in ToSet(outbox)
      <4>1. Started(m) \in Output
        BY <3>4 DEF ToSet, TypeOK, CliOK
      <4>2. Started(m) \in Lively
        BY <4>1 DEF Started, Lively
      <4> QED
        BY <1>1, <3>4, <4>2, LivelyBusy
    <3> QED
      BY <3>1, <3>3, <3>4 DEF KeptOrStarted
  <2> QED
    BY <2>2, <2>3, <2>4, <2>5
<1> QED
  BY <1>1, <1>2, <1>3

\* While it is busy with an adopted delivery only, a watchdog counts and nothing is a sign of life.
LEMMA ArmedKept ==
  ASSUME TypeOK, Next, ResultFollows, ListsOK, WrittenBefore, StoppedEmpty, Unasked, Unrefused,
         stdin => SignsOfStops, exit = "no",
         s.phase \in Active => Busy \/ (s.turn \in armed /\ NoSign), s'.phase \in Active
  PROVE  Busy' \/ (s'.turn \in armed' /\ NoSign')
<1> SUFFICES ASSUME ~Busy' PROVE s'.turn \in armed' /\ NoSign'
  OBVIOUS
<1>1. ~Busy
  BY BusyKept
<1>2. ~EndsNext
  BY DEF EndsNext, Busy
<1>3. CASE s.phase \in Active
  <2>1. s.turn \in armed /\ NoSign
    BY <1>1, <1>3
  <2>2. ~Signs
    BY <2>1, BornBefore DEF Signs, NoSign, Bears
  <2>3. s'.turn = s.turn /\ armed \subseteq armed'
    BY <1>2, <1>3, <2>2, PhaseNext, ArmedNext DEF PhaseMoves, Active
  <2>4. NoSign'
    <3>1. CASE UNCHANGED todo
      BY <2>1, <3>1 DEF NoSign, Bears
    <3>2. ASSUME NEW th \in Thread, Orderly(th) PROVE NoSign'
      <4>1. PICK steps, T : Bundle(steps, T) /\ Takes(th, steps) /\ Modest(th, steps, T)
        BY <3>2 DEF Orderly
      <4>2. /\ \A o \in Thread \ {th} : todo'[o] = todo[o]
            /\ Tags(todo'[th]) = T \cup Tags(Rest(th)) /\ Tags(todo[th]) = Done(th) \cup Tags(Rest(th))
        BY <4>1, Parts
      <4>3. T \cap EndTags = {}
        BY <1>2, <4>2 DEF EndsNext, Bears
      <4>4. outbox # << >> => Head(outbox).kind \notin {"content", "refusal"}
        <5>1. outbox # << >> => Head(outbox) \in ToSet(outbox) /\ Head(outbox) \in Output
          BY FirstFrame, OutputFields
        <5>2. outbox # << >> => Head(outbox) \notin Lively
          BY <1>1, <5>1, LivelyBusy
        <5> QED
          BY <5>1, <5>2 DEF Unrefused, Lively
      <4>5. T \cap SignTags = {}
        BY <2>2, <4>1, <4>3, <4>4 DEF Modest, Signed, Signs
      <4> QED
        BY <2>1, <4>2, <4>5 DEF NoSign, Bears
    <3> QED
      BY <3>1, <3>2, OrderlyNext
  <2> QED
    BY <2>1, <2>3, <2>4
<1>4. CASE s.phase \notin Active
  <2>1. s'.phase # s.phase
    BY <1>4
  <2>2. EndsNext \/ ReadContent \/ \E th \in Thread : Claims(th)
    BY <2>1, PhaseNext DEF PhaseMoves
  <2>3. PICK th \in Thread : Claims(th)
    BY <1>1, <1>2, <2>2, ContentBusy
  <2>4. /\ Tags(todo'[Reader]) = {} /\ \A o \in Thread \ {Reader} : todo'[o] = todo[o]
        /\ s'.turn \in armed'
    BY <2>3, ClaimsLast
  <2>5. PICK m \in DOMAIN s.delivered : s.delivered[m] = "queued"
    BY <2>3, ClaimsLast
  <2>6. \A o \in Thread : ~Bears(o, EndTags)
    BY <1>1 DEF Busy
  <2>7. stdin
    <3>1. m \in ToSet(handed)
      BY <2>5 DEF WrittenBefore
    <3>2. \A o \in Thread : ~Bears(o, StopTags)
      BY <2>6 DEF Bears, EndTags, StopTags
    <3> QED
      BY <3>1, <3>2 DEF StoppedEmpty
  <2>8. ASSUME NEW o \in Thread \ {Reader} PROVE ~Bears(o, SignTags)
    <3>1. Followed(todo[o], Tagged(SignTags), Tagged(EndTags))
      BY <2>7 DEF SignsOfStops
    <3>2. ASSUME NEW i \in DOMAIN todo[o], Tag(todo[o][i]) \in SignTags PROVE FALSE
      <4>1. todo[o] \in Seq(Step)
        BY DEF TypeOK
      <4>2. \A j \in DOMAIN todo[o] : todo[o][j] \in Step
        BY <4>1
      <4>3. PICK j \in DOMAIN todo[o] : todo[o][j] \in Tagged(EndTags)
        BY <3>1, <3>2, <4>2 DEF Followed, Tagged
      <4>4. Tag(todo[o][j]) \in EndTags
        BY <4>3 DEF Tagged
      <4> QED
        BY <2>6, <4>4 DEF Bears, Tags
    <3> QED
      BY <3>2 DEF Bears, Tags
  <2> QED
    BY <2>4, <2>8 DEF NoSign, Bears
<1> QED
  BY <1>3, <1>4

-----------------------------------------------------------------------------
(* The invariant.                                                          *)

LEMMA RestInit == ASSUME Init PROVE RestInv
<1> USE DEF Init
<1>1. \A k \in Kind : ~Happened(k)
  BY DEF Happened
<1>2. /\ \A th \in Thread : todo[th] = << >> /\ Tags(todo[th]) = {} /\ \A T : ~Bears(th, T)
      /\ ToSet(inbox) = {} /\ ToSet(outbox) = {} /\ ToSet(backlog) = {}
  BY EmptyRange DEF Tags, Bears
<1>3. /\ s.approvals = {} /\ s.phase = "ready" /\ DOMAIN s.delivered = {} /\ stdin /\ cli = "idle"
      /\ outbox = << >>
  BY NoDelivery
<1>4. \A S, U : Followed(outbox, S, U) /\ \A th \in Thread : Followed(todo[th], S, U)
  BY <1>2, <1>3, FreeNone, FollowedFree
<1>5. ResultFollows /\ WrittenBefore /\ StoppedEmpty /\ KeptOrStarted /\ SignsOfStops
  BY <1>2, <1>3, <1>4 DEF ResultFollows, WrittenBefore, StoppedEmpty, KeptOrStarted, SignsOfStops
<1>6. ListsOK
  BY <1>2, <1>4 DEF ListsOK, AdoptLast
<1>7. Unasked /\ Unrefused /\ Uninterrupted
  BY <1>2, <1>3, RuntimeAssumption DEF Unasked, Unrefused, Uninterrupted
<1>8. s.phase \notin Active
  BY <1>3 DEF Active
<1> QED
  BY <1>5, <1>6, <1>7, <1>8 DEF RestInv

LEMMA RestNext ==
  ASSUME IInv, RestInv, [Next]_vars
  PROVE  RestInv'
<1>1. CASE UNCHANGED vars
  <2>1. \A k \in Kind : Happened(k)' <=> Happened(k)
    BY <1>1 DEF vars, Happened
  <2>2. /\ \A th \in Thread : todo'[th] = todo[th]
        /\ s' = s /\ todo' = todo /\ cli' = cli /\ inbox' = inbox /\ outbox' = outbox /\ backlog' = backlog
        /\ handed' = handed /\ stdin' = stdin /\ exit' = exit /\ armed' = armed /\ events' = events
    BY <1>1 DEF vars, process, dogs, external, history
  <2> QED
    BY <2>1, <2>2 DEF RestInv, ResultFollows, ListsOK, WrittenBefore, StoppedEmpty, Unasked, Unrefused, Uninterrupted,
         KeptOrStarted, SignsOfStops, Busy, NoSign, Bears, Happened
<1>2. CASE Next
  <2>0. TypeOK /\ Promises /\ MessagesApart
    BY DEF IInv, MessageInv
  <2>1. /\ \A k \in {"ask", "refuse", "interrupt", "gone"} : ~Happened(k)' => ~Happened(k)
        /\ stdin' => stdin
        /\ exit' = "no" => exit = "no"
    BY <1>2, <2>0, Monotone DEF Less, Kind
  <2>2. ResultFollows' /\ ListsOK' /\ WrittenBefore' /\ StoppedEmpty'
    BY <1>2, <2>0, ResultFollowsKept, ListsOKKept, WrittenBeforeKept, StoppedEmptyKept DEF RestInv
  <2>3. ~Happened("ask")' => Unasked'
    BY <1>2, <2>0, <2>1, UnaskedKept DEF RestInv
  <2>4. ~Happened("refuse")' => Unrefused'
    BY <1>2, <2>0, <2>1, UnrefusedKept DEF RestInv
  <2>5. ~Happened("interrupt")' => Uninterrupted' /\ KeptOrStarted'
    BY <1>2, <2>0, <2>1, UninterruptedKept, KeptOrStartedKept DEF RestInv
  <2>6. ~Happened("ask")' /\ ~Happened("gone")' /\ stdin' /\ exit' = "no" => SignsOfStops'
    BY <1>2, <2>0, <2>1, SignsOfStopsKept DEF RestInv
  <2>7. ~Happened("ask")' /\ ~Happened("interrupt")' /\ s'.phase \in Active => Busy' \/ backlog' # << >>
    BY <1>2, <2>0, <2>1, WorkKept DEF RestInv
  <2>8. ~Happened("ask")' /\ ~Happened("refuse")' /\ ~Happened("gone")' /\ exit' = "no" /\ s'.phase \in Active
          => Busy' \/ (s'.turn \in armed' /\ NoSign')
    BY <1>2, <2>0, <2>1, ArmedKept DEF RestInv
  <2> QED
    BY <2>2, <2>3, <2>4, <2>5, <2>6, <2>7, <2>8 DEF RestInv
<1> QED
  BY <1>1, <1>2

LEMMA RestInvariance == Spec => []RestInv
<1>1. Init => RestInv
  BY RestInit
<1>2. IInv /\ RestInv /\ [Next]_vars => RestInv'
  BY RestNext
<1> QED
  BY <1>1, <1>2, RuntimeInvariance, PTL DEF Spec

\* When nothing is under way any more the phase is not one of work: handle_claude_result and
\* adopt_unabsorbed_deliveries claim no turn that will never come, unless an interrupt crossed
\* with a steer; and then a watchdog counts, unless its turn has been taken for alive or away.
THEOREM RestIsTrue == Spec => []RestIsReal
<1>1. RestInv => RestIsReal
  <2> SUFFICES ASSUME RestInv, AtRest, s.phase \in Active, ~Happened("ask")
               PROVE  Happened("interrupt") /\ (Happened("refuse") \/ Happened("gone") \/ s.turn \in armed)
    BY DEF RestIsReal
  <2>1. ~Busy
    <3>1. \A th \in Thread : Tags(todo[th]) = {}
      BY DEF AtRest, Quiet, Tags
    <3> QED
      BY <3>1, EmptyRange DEF Busy, AtRest, Bears
  <2> QED
    BY <2>1 DEF RestInv, AtRest
<1> QED
  BY <1>1, RestInvariance, PTL
=============================================================================
