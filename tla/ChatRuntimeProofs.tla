-------------------------- MODULE ChatRuntimeProofs --------------------------
(***************************************************************************)
(* Theorems about ChatRuntime.                                             *)
(*                                                                         *)
(* A step of a thread takes the head of its list and may put other steps   *)
(* in front of the rest.  What the lists may hold is therefore said of the *)
(* steps one by one (Promises), and who has a message or a request in hand *)
(* of the lists as a whole (RequestsApart, MessagesApart).  The order of   *)
(* the messages rests on a second invariant (OrderInv), further down.      *)
(***************************************************************************)
EXTENDS ChatRuntime, TLAPS

\* The message a step still has to bring to the CLI, or back to the queue.
MsgsOf(step) ==
  IF step.op \in {"open_turn", "write_turn", "deliver", "write_delivery", "requeue"} THEN {step.msg} ELSE {}

\* The requests a step has taken from the screen and still has to answer or put back.
AsksOf(step) ==
  IF step.op \in {"answer", "reinsert"} THEN {step.ask}
  ELSE IF step.op = "respond" THEN step.asks ELSE {}

MsgsIn(steps) == UNION {MsgsOf(steps[i]) : i \in DOMAIN steps}
AsksIn(steps) == UNION {AsksOf(steps[i]) : i \in DOMAIN steps}

\* No two steps of a list carry the same.
Separate(steps) ==
  \A i, j \in DOMAIN steps : i # j =>
    MsgsOf(steps[i]) \cap MsgsOf(steps[j]) = {} /\ AsksOf(steps[i]) \cap AsksOf(steps[j]) = {}

\* Steps that only a process that is gone leaves to do.
Posthumous(step) == step.op \in {"release", "release_child"} \/ (step.op = "clear" /\ step.terminated)

\* Steps of a conversation that is being stopped.
Stopping(step) == step.op \in {"preserve", "kill", "reap", "clear"}

HasMsg(step) ==
  step.op \in {"open_turn", "write_turn", "deliver", "write_delivery", "requeue", "forget", "refuse"}

\* What the steps of all lists owe to the state around them.
Promise(step) ==
  /\ Posthumous(step) => ~Alive
  /\ Stopping(step) => stops # {}
  /\ HasMsg(step) => told[step.msg] # "unsent"
  /\ step.op \in {"deliver", "write_delivery"} => told[step.msg] # "accepted"
  /\ step.op \in {"open_turn", "write_turn"} =>
       /\ step.turn \in 1 .. s.claims
       /\ ~step.back => told[step.msg] # "accepted"
  /\ step.op = "deliver" => step.msg \notin s.input \cup Texts(s.held)
  /\ step.op \in {"open_turn", "write_turn", "deliver", "requeue"} => step.msg \notin DOMAIN s.delivered

Promises == \A th \in Thread : \A i \in DOMAIN todo[th] : Promise(todo[th][i])

\* The account is given back, and the child forgotten, when the process is gone.
Gone == ~Alive \/ (lease /\ slot # "empty")

\* The requests among frames, each once.
AskedIn(frames) == {frames[i].ask : i \in {j \in DOMAIN frames : frames[j].kind = "ask"}}
Once(frames) ==
  \A i, j \in DOMAIN frames :
    frames[i].kind = "ask" /\ frames[j].kind = "ask" /\ frames[i].ask = frames[j].ask => i = j

Asked == AskedIn(outbox)

\* A request is with the CLI, on its way, on the screen, in one thread's hands, or answered.
RequestsApart ==
  /\ \A th, o \in Thread : th # o => AsksIn(todo[th]) \cap AsksIn(todo[o]) = {}
  /\ \A th \in Thread : AsksIn(todo[th]) \cap (fresh \cup Asked \cup s.approvals \cup ToSet(answered)) = {}
  /\ fresh \cap (Asked \cup s.approvals \cup ToSet(answered)) = {}
  /\ Asked \cap (s.approvals \cup ToSet(answered)) = {} /\ s.approvals \cap ToSet(answered) = {}
  /\ Once(outbox) /\ IsInjective(answered)

Sent == {m \in Msg : told[m] # "unsent"}

\* A message is in the queue, in one thread's hands, or written.
MessagesApart ==
  /\ \A th, o \in Thread : th # o => MsgsIn(todo[th]) \cap MsgsIn(todo[o]) = {}
  /\ \A th \in Thread : MsgsIn(todo[th]) \cap (ToSet(s.queue) \cup ToSet(handed)) = {}
  /\ ToSet(s.queue) \cap ToSet(handed) = {}
  /\ IsInjective(s.queue) /\ IsInjective(handed)
  /\ ToSet(s.queue) \cup ToSet(handed) \cup s.input \cup Texts(s.held) \cup DOMAIN s.delivered \subseteq Sent

\* What a message is remembered for: the running turn, a resume, a delivery.
ResumeApart ==
  /\ DOMAIN s.delivered \cap (ToSet(s.queue) \cup s.input \cup Texts(s.held)) = {}
  /\ events.resent \/
       /\ \A i, j \in DOMAIN s.held : i # j => s.held[i].text \cap s.held[j].text = {}
       /\ s.input \cap Texts(s.held) = {}
       /\ ToSet(s.queue) \cap (s.input \cup Texts(s.held)) = {}

\* A turn that could not be written is no longer the running one when its message is put back.
Undone ==
  \A th \in Thread : \A i \in DOMAIN todo[th] :
    todo[th][i].op = "requeue" /\ todo[th][i].msg \in s.input => At(th, "unclaim")

\* What the sender was told: unless something stops the conversation it is still there.
Here ==
  stops = {} => \A m \in Msg : told[m] = "accepted" =>
    m \in ToSet(s.queue) \cup ToSet(handed) \/ \E th \in Thread : m \in MsgsIn(todo[th])

\* All that is said of messages, and of the lists that hold them.
MessageInv ==
  /\ Promises /\ (\A th \in Thread : Separate(todo[th]))
  /\ MessagesApart /\ ResumeApart /\ Undone /\ Here

IInv == TypeOK /\ Gone /\ MessageInv /\ RequestsApart


-----------------------------------------------------------------------------
(* Lists of steps.                                                         *)

\* Where the elements of a concatenation come from.
LEMMA Concatenated ==
  ASSUME NEW S, NEW a \in Seq(S), NEW b \in Seq(S)
  PROVE  /\ a \o b \in Seq(S) /\ Len(a \o b) = Len(a) + Len(b)
         /\ \A i \in DOMAIN a : i \in DOMAIN (a \o b) /\ (a \o b)[i] = a[i]
         /\ \A i \in DOMAIN b : Len(a) + i \in DOMAIN (a \o b) /\ (a \o b)[Len(a) + i] = b[i]
         /\ \A i \in DOMAIN (a \o b) :
              \/ i \in DOMAIN a /\ (a \o b)[i] = a[i]
              \/ i - Len(a) \in DOMAIN b /\ (a \o b)[i] = b[i - Len(a)]
OBVIOUS

LEMMA Associated ==
  ASSUME NEW S, NEW a \in Seq(S), NEW b \in Seq(S), NEW c \in Seq(S)
  PROVE  (a \o b) \o c = a \o (b \o c)
OBVIOUS

LEMMA HeadAndTail ==
  ASSUME NEW S, NEW a \in Seq(S), a # << >>
  PROVE  /\ Head(a) \in S /\ Tail(a) \in Seq(S) /\ 1 \in DOMAIN a /\ a[1] = Head(a)
         /\ \A i \in DOMAIN Tail(a) : i + 1 \in DOMAIN a /\ Tail(a)[i] = a[i + 1]
         /\ \A i \in DOMAIN a : i # 1 => i - 1 \in DOMAIN Tail(a) /\ a[i] = Tail(a)[i - 1]
OBVIOUS

LEMMA ConcatenatedRange ==
  ASSUME NEW S, NEW a \in Seq(S), NEW b \in Seq(S)
  PROVE  ToSet(a \o b) = ToSet(a) \cup ToSet(b)
<1> DEFINE c == a \o b
<1>1. /\ \A i \in DOMAIN a : i \in DOMAIN c /\ c[i] = a[i]
      /\ \A i \in DOMAIN b : Len(a) + i \in DOMAIN c /\ c[Len(a) + i] = b[i]
      /\ \A i \in DOMAIN c : (i \in DOMAIN a /\ c[i] = a[i]) \/ (i - Len(a) \in DOMAIN b /\ c[i] = b[i - Len(a)])
  BY Concatenated
<1> HIDE DEF c
<1>2. ToSet(c) = ToSet(a) \cup ToSet(b)
  BY <1>1 DEF ToSet
<1> QED
  BY <1>2 DEF c

LEMMA TailRange ==
  ASSUME NEW S, NEW a \in Seq(S), a # << >>
  PROVE  ToSet(a) = {Head(a)} \cup ToSet(Tail(a))
<1> DEFINE b == Tail(a)
           x == Head(a)
<1>1. /\ 1 \in DOMAIN a /\ a[1] = x
      /\ \A i \in DOMAIN b : i + 1 \in DOMAIN a /\ b[i] = a[i + 1]
      /\ \A i \in DOMAIN a : i # 1 => i - 1 \in DOMAIN b /\ a[i] = b[i - 1]
  BY HeadAndTail
<1> HIDE DEF b, x
<1>2. ToSet(a) = {x} \cup ToSet(b)
  BY <1>1 DEF ToSet
<1> QED
  BY <1>2 DEF b, x

LEMMA AppendedRange ==
  ASSUME NEW S, NEW a \in Seq(S), NEW x \in S
  PROVE  /\ Append(a, x) \in Seq(S) /\ ToSet(Append(a, x)) = ToSet(a) \cup {x}
         /\ (IsInjective(a) /\ x \notin ToSet(a) => IsInjective(Append(a, x)))
<1>1. /\ Append(a, x) \in Seq(S) /\ DOMAIN Append(a, x) = 1 .. Len(a) + 1 /\ DOMAIN a = 1 .. Len(a)
      /\ Len(a) \in Nat /\ Append(a, x)[Len(a) + 1] = x /\ \A i \in 1 .. Len(a) : Append(a, x)[i] = a[i]
  OBVIOUS
<1>2. \A i \in 1 .. Len(a) + 1 : i \in 1 .. Len(a) \/ i = Len(a) + 1
  BY <1>1
<1>3. ToSet(Append(a, x)) = ToSet(a) \cup {x}
  BY <1>1, <1>2 DEF ToSet
<1> QED
  BY <1>1, <1>2, <1>3 DEF ToSet, IsInjective

\* A list without one of its elements.
LEMMA Removed ==
  ASSUME NEW S, NEW a \in Seq(S), NEW i \in DOMAIN a
  PROVE  /\ RemoveAt(a, i) \in Seq(S) /\ DOMAIN RemoveAt(a, i) = 1 .. Len(a) - 1
         /\ \A k \in 1 .. Len(a) - 1 : RemoveAt(a, i)[k] = IF k < i THEN a[k] ELSE a[k + 1]
<1> DEFINE n == Len(a)
           first == SubSeq(a, 1, i - 1)
           last == SubSeq(a, i + 1, n)
           b == first \o last
<1>1. n \in Nat /\ i \in 1 .. n /\ DOMAIN a = 1 .. n
  OBVIOUS
<1>2. /\ first \in Seq(S) /\ Len(first) = i - 1 /\ \A k \in 1 .. i - 1 : first[k] = a[k]
      /\ last \in Seq(S) /\ Len(last) = n - i /\ \A k \in 1 .. n - i : last[k] = a[i + k]
  BY <1>1
<1> HIDE DEF first, last
<1>3. /\ b \in Seq(S) /\ DOMAIN b = 1 .. n - 1
      /\ \A k \in 1 .. n - 1 : b[k] = IF k < i THEN a[k] ELSE a[k + 1]
  <2>1. b \in Seq(S) /\ Len(b) = n - 1 /\ DOMAIN b = 1 .. n - 1
    <3>1. b \in Seq(S) /\ Len(b) = Len(first) + Len(last)
      BY <1>2, Concatenated
    <3>2. (i - 1) + (n - i) = n - 1
      BY <1>1
    <3> HIDE DEF b
    <3> QED
      BY <1>2, <3>1, <3>2
  <2>2. ASSUME NEW k \in 1 .. n - 1 PROVE b[k] = IF k < i THEN a[k] ELSE a[k + 1]
    <3>1. CASE k < i
      BY <1>1, <1>2, <3>1
    <3>2. CASE ~(k < i)
      <4>1. b[k] = last[k - (i - 1)] /\ k - (i - 1) \in 1 .. n - i
        <5>1. k \in Nat /\ i \in Nat /\ k >= i /\ k - (i - 1) \in 1 .. n - i
          BY <1>1, <3>2
        <5>2. Len(first) = i - 1 /\ Len(last) = n - i /\ first \in Seq(S) /\ last \in Seq(S)
          BY <1>2
        <5> QED
          BY <5>1, <5>2
      <4>2. last[k - (i - 1)] = a[i + (k - (i - 1))] /\ i + (k - (i - 1)) = k + 1
        BY <1>1, <1>2, <4>1
      <4> QED
        BY <3>2, <4>1, <4>2
    <3> QED
      BY <3>1, <3>2
  <2> QED
    BY <2>1, <2>2
<1> QED
  BY <1>3 DEF RemoveAt, first, last

LEMMA RemovedRange ==
  ASSUME NEW S, NEW a \in Seq(S), NEW i \in DOMAIN a
  PROVE  /\ RemoveAt(a, i) \in Seq(S) /\ ToSet(RemoveAt(a, i)) \subseteq ToSet(a)
         /\ ToSet(a) \subseteq ToSet(RemoveAt(a, i)) \cup {a[i]}
         /\ IsInjective(a) => IsInjective(RemoveAt(a, i)) /\ a[i] \notin ToSet(RemoveAt(a, i))
<1> DEFINE n == Len(a)
           b == RemoveAt(a, i)
<1>1. n \in Nat /\ i \in 1 .. n /\ DOMAIN a = 1 .. n
  OBVIOUS
<1>2. /\ b \in Seq(S) /\ DOMAIN b = 1 .. n - 1
      /\ \A k \in 1 .. n - 1 : b[k] = IF k < i THEN a[k] ELSE a[k + 1]
  BY Removed
<1> HIDE DEF b, n
<1>3. \A k \in DOMAIN b : \E j \in DOMAIN a : j # i /\ b[k] = a[j]
  <2> TAKE k \in DOMAIN b
  <2>1. CASE k < i
    BY <1>1, <1>2, <2>1
  <2>2. CASE ~(k < i)
    <3>1. k + 1 \in DOMAIN a /\ k + 1 # i /\ b[k] = a[k + 1]
      BY <1>1, <1>2, <2>2
    <3> QED
      BY <3>1
  <2> QED
    BY <2>1, <2>2
<1>4. \A j \in DOMAIN a : j # i => \E k \in DOMAIN b : b[k] = a[j]
  <2> TAKE j \in DOMAIN a
  <2>1. CASE j < i
    BY <1>1, <1>2, <2>1
  <2>2. CASE j > i
    <3>1. j - 1 \in 1 .. n - 1 /\ ~(j - 1 < i) /\ (j - 1) + 1 = j
      BY <1>1, <2>2
    <3> QED
      BY <1>2, <3>1
  <2> QED
    BY <1>1, <2>1, <2>2
<1>5. ToSet(b) \subseteq ToSet(a) /\ ToSet(a) \subseteq ToSet(b) \cup {a[i]}
  BY <1>3, <1>4 DEF ToSet
<1>6. ASSUME IsInjective(a) PROVE IsInjective(b) /\ a[i] \notin ToSet(b)
  <2>1. a[i] \notin ToSet(b)
    BY <1>3, <1>6 DEF ToSet, IsInjective
  <2>2. ASSUME NEW j \in DOMAIN b, NEW k \in DOMAIN b, b[j] = b[k] PROVE j = k
    <3>1. \A x \in 1 .. n - 1 : (IF x < i THEN x ELSE x + 1) \in DOMAIN a
      BY <1>1
    <3>2. (IF j < i THEN j ELSE j + 1) = (IF k < i THEN k ELSE k + 1)
      BY <1>2, <1>6, <2>2, <3>1 DEF IsInjective
    <3> QED
      BY <1>1, <1>2, <3>2
  <2> QED
    BY <2>1, <2>2 DEF IsInjective
<1> QED
  BY <1>2, <1>5, <1>6 DEF b

\* What a list carries is what its parts carry.
LEMMA CarriedTogether ==
  ASSUME NEW a \in Seq(Step), NEW b \in Seq(Step)
  PROVE  /\ MsgsIn(a \o b) = MsgsIn(a) \cup MsgsIn(b)
         /\ AsksIn(a \o b) = AsksIn(a) \cup AsksIn(b)
<1> DEFINE c == a \o b
<1>1. /\ \A i \in DOMAIN a : i \in DOMAIN c /\ c[i] = a[i]
      /\ \A i \in DOMAIN b : Len(a) + i \in DOMAIN c /\ c[Len(a) + i] = b[i]
      /\ \A i \in DOMAIN c : (i \in DOMAIN a /\ c[i] = a[i]) \/ (i - Len(a) \in DOMAIN b /\ c[i] = b[i - Len(a)])
  BY Concatenated
<1> HIDE DEF c
<1>2. MsgsIn(c) = MsgsIn(a) \cup MsgsIn(b)
  BY <1>1 DEF MsgsIn
<1>3. AsksIn(c) = AsksIn(a) \cup AsksIn(b)
  BY <1>1 DEF AsksIn
<1> QED
  BY <1>2, <1>3 DEF c

LEMMA SeparateTogether ==
  ASSUME NEW a \in Seq(Step), NEW b \in Seq(Step), Separate(a), Separate(b),
         MsgsIn(a) \cap MsgsIn(b) = {}, AsksIn(a) \cap AsksIn(b) = {}
  PROVE  Separate(a \o b)
<1> DEFINE c == a \o b
<1>1. /\ Len(a) \in Nat
      /\ \A i \in DOMAIN c : i \in Nat
      /\ \A i \in DOMAIN c : (i \in DOMAIN a /\ c[i] = a[i]) \/ (i - Len(a) \in DOMAIN b /\ c[i] = b[i - Len(a)])
  BY Concatenated
<1> HIDE DEF c
<1>2. /\ \A i \in DOMAIN a : MsgsOf(a[i]) \subseteq MsgsIn(a) /\ AsksOf(a[i]) \subseteq AsksIn(a)
      /\ \A i \in DOMAIN b : MsgsOf(b[i]) \subseteq MsgsIn(b) /\ AsksOf(b[i]) \subseteq AsksIn(b)
  BY DEF MsgsIn, AsksIn
<1> SUFFICES ASSUME NEW i \in DOMAIN c, NEW j \in DOMAIN c, i # j
             PROVE  MsgsOf(c[i]) \cap MsgsOf(c[j]) = {} /\ AsksOf(c[i]) \cap AsksOf(c[j]) = {}
  BY DEF Separate, c
<1>3. CASE i \in DOMAIN a /\ c[i] = a[i] /\ j \in DOMAIN a /\ c[j] = a[j]
  BY <1>3 DEF Separate
<1>4. CASE i - Len(a) \in DOMAIN b /\ c[i] = b[i - Len(a)] /\ j - Len(a) \in DOMAIN b /\ c[j] = b[j - Len(a)]
  <2>1. i - Len(a) # j - Len(a)
    BY <1>1
  <2> QED
    BY <1>4, <2>1 DEF Separate
<1>5. CASE i \in DOMAIN a /\ c[i] = a[i] /\ j - Len(a) \in DOMAIN b /\ c[j] = b[j - Len(a)]
  BY <1>2, <1>5
<1>6. CASE i - Len(a) \in DOMAIN b /\ c[i] = b[i - Len(a)] /\ j \in DOMAIN a /\ c[j] = a[j]
  BY <1>2, <1>6
<1> QED
  BY <1>1, <1>3, <1>4, <1>5, <1>6

LEMMA CarriedByHead ==
  ASSUME NEW a \in Seq(Step), a # << >>
  PROVE  /\ MsgsIn(a) = MsgsOf(Head(a)) \cup MsgsIn(Tail(a))
         /\ AsksIn(a) = AsksOf(Head(a)) \cup AsksIn(Tail(a))
         /\ Separate(a) => /\ Separate(Tail(a))
                           /\ MsgsOf(Head(a)) \cap MsgsIn(Tail(a)) = {}
                           /\ AsksOf(Head(a)) \cap AsksIn(Tail(a)) = {}
<1> DEFINE b == Tail(a)
           x == Head(a)
<1>1. /\ 1 \in DOMAIN a /\ a[1] = x
      /\ \A i \in DOMAIN b : i \in Nat /\ i + 1 \in DOMAIN a /\ i + 1 # 1 /\ b[i] = a[i + 1]
      /\ \A i \in DOMAIN a : i # 1 => i - 1 \in DOMAIN b /\ a[i] = b[i - 1]
  BY HeadAndTail
<1>2. \A i, j \in DOMAIN b : i # j => i + 1 # j + 1
  BY <1>1
<1> HIDE DEF b, x
<1>3. MsgsIn(a) = MsgsOf(x) \cup MsgsIn(b)
  BY <1>1 DEF MsgsIn
<1>4. AsksIn(a) = AsksOf(x) \cup AsksIn(b)
  BY <1>1 DEF AsksIn
<1>5. ASSUME Separate(a)
      PROVE  Separate(b) /\ MsgsOf(x) \cap MsgsIn(b) = {} /\ AsksOf(x) \cap AsksIn(b) = {}
  <2>1. Separate(b)
    BY <1>1, <1>2, <1>5 DEF Separate
  <2>2. MsgsOf(x) \cap MsgsIn(b) = {} /\ AsksOf(x) \cap AsksIn(b) = {}
    BY <1>1, <1>5 DEF Separate, MsgsIn, AsksIn
  <2> QED
    BY <2>1, <2>2
<1> QED
  BY <1>3, <1>4, <1>5 DEF b, x

LEMMA CarriedByFew ==
  /\ MsgsIn(<< >>) = {} /\ AsksIn(<< >>) = {} /\ Separate(<< >>)
  /\ \A x : MsgsIn(<<x>>) = MsgsOf(x) /\ AsksIn(<<x>>) = AsksOf(x) /\ Separate(<<x>>)
BY DEF MsgsIn, AsksIn, Separate

\* The fields of a step.
LEMMA StepFields ==
  ASSUME NEW step \in Step
  PROVE  /\ step.op \in {"open_turn", "write_turn"} =>
              step.msg \in Msg /\ step.turn \in Nat /\ step.back \in BOOLEAN
         /\ HasMsg(step) => step.msg \in Msg
         /\ step.op \in {"answer", "reinsert"} => step.ask \in Ask
         /\ step.op \in {"answer", "note"} => step.decision \in Decision
         /\ step.op = "respond" => step.asks \in SUBSET Ask
         /\ step.op = "set_phase" => step.phase \in Phase
         /\ step.op \in {"emit_turn", "turn_event"} => step.status \in Status
         /\ step.op = "turn_event" => step.turn \in Nat
         /\ step.op = "error" => step.limit \in BOOLEAN
         /\ step.op = "clear" => step.terminated \in BOOLEAN
BY DEF Step, HasMsg

LEMMA CarriedTyped ==
  ASSUME NEW steps \in Seq(Step)
  PROVE  MsgsIn(steps) \subseteq Msg /\ AsksIn(steps) \subseteq Ask
BY StepFields DEF MsgsIn, AsksIn, MsgsOf, AsksOf, HasMsg

-----------------------------------------------------------------------------
(* A thread takes a step, or begins a call.                                *)

Takes(th, steps) == (todo[th] # << >> /\ Then(th, steps)) \/ Begin(th, steps)

Rest(th) == IF todo[th] = << >> THEN << >> ELSE Tail(todo[th])

LEMMA StepTaken ==
  ASSUME todo \in [Thread -> Seq(Step)], NEW th \in Thread, NEW steps \in Seq(Step), Takes(th, steps)
  PROVE  /\ todo' \in [Thread -> Seq(Step)] /\ Rest(th) \in Seq(Step)
         /\ todo'[th] = steps \o Rest(th)
         /\ \A o \in Thread \ {th} : todo'[o] = todo[o]
<1>1. CASE todo[th] # << >> /\ Then(th, steps)
  <2>1. Tail(todo[th]) \in Seq(Step) /\ steps \o Tail(todo[th]) \in Seq(Step)
    BY <1>1, HeadAndTail, Concatenated
  <2> QED
    BY <1>1, <2>1 DEF Then, Rest
<1>2. CASE Begin(th, steps)
  <2>1. steps \o << >> = steps /\ << >> \in Seq(Step)
    OBVIOUS
  <2> QED
    BY <1>2, <2>1 DEF Begin, Rest
<1> QED
  BY <1>1, <1>2 DEF Takes

\* The list of the thread, before and after.
LEMMA RestOf ==
  ASSUME todo \in [Thread -> Seq(Step)], NEW th \in Thread
  PROVE  /\ Rest(th) \in Seq(Step)
         /\ MsgsIn(Rest(th)) \subseteq MsgsIn(todo[th]) /\ AsksIn(Rest(th)) \subseteq AsksIn(todo[th])
         /\ \A i \in DOMAIN Rest(th) : i + 1 \in DOMAIN todo[th] /\ i + 1 # 1 /\ Rest(th)[i] = todo[th][i + 1]
         /\ Separate(todo[th]) => Separate(Rest(th))
         /\ todo[th] # << >> =>
              /\ Now(th) \in Step
              /\ MsgsIn(todo[th]) = MsgsOf(Now(th)) \cup MsgsIn(Rest(th))
              /\ AsksIn(todo[th]) = AsksOf(Now(th)) \cup AsksIn(Rest(th))
              /\ Separate(todo[th]) => /\ MsgsOf(Now(th)) \cap MsgsIn(Rest(th)) = {}
                                       /\ AsksOf(Now(th)) \cap AsksIn(Rest(th)) = {}
         /\ todo[th] = << >> => MsgsIn(todo[th]) = {} /\ AsksIn(todo[th]) = {}
<1>1. CASE todo[th] = << >>
  BY <1>1, CarriedByFew DEF Rest
<1>2. CASE todo[th] # << >>
  <2>1. /\ Tail(todo[th]) \in Seq(Step) /\ Now(th) \in Step
        /\ \A i \in DOMAIN Tail(todo[th]) : i + 1 \in DOMAIN todo[th] /\ i + 1 # 1 /\ Tail(todo[th])[i] = todo[th][i + 1]
    BY <1>2, HeadAndTail DEF Now
  <2> QED
    BY <1>2, <2>1, CarriedByHead DEF Rest, Now
<1> QED
  BY <1>1, <1>2

\* Every step of the new list is new, or was behind the head of the old one.
LEMMA WhereFrom ==
  ASSUME todo \in [Thread -> Seq(Step)], NEW th \in Thread, NEW steps \in Seq(Step), Takes(th, steps),
         NEW i \in DOMAIN todo'[th]
  PROVE  \/ \E j \in DOMAIN steps : todo'[th][i] = steps[j]
         \/ \E j \in DOMAIN todo[th] : j # 1 /\ todo'[th][i] = todo[th][j]
<1>1. Rest(th) \in Seq(Step) /\ todo'[th] = steps \o Rest(th)
  BY StepTaken
<1>2. CASE i \in DOMAIN steps /\ todo'[th][i] = steps[i]
  BY <1>2
<1>3. CASE i - Len(steps) \in DOMAIN Rest(th) /\ todo'[th][i] = Rest(th)[i - Len(steps)]
  BY <1>3, RestOf
<1> QED
  BY <1>1, <1>2, <1>3, Concatenated

LEMMA PromisesKept ==
  ASSUME todo \in [Thread -> Seq(Step)], NEW th \in Thread, NEW steps \in Seq(Step), Takes(th, steps), Promises,
         \A j \in DOMAIN steps : Promise(steps[j])',
         \A x \in Step : \A o \in Thread : \A j \in DOMAIN todo[o] :
           x = todo[o][j] /\ (o = th => j # 1) /\ Promise(x) => Promise(x)'
  PROVE  Promises'
<1> SUFFICES ASSUME NEW o \in Thread, NEW i \in DOMAIN todo'[o] PROVE Promise(todo[o][i])'
  BY DEF Promises
<1>1. todo' \in [Thread -> Seq(Step)] /\ \A x \in Thread \ {th} : todo'[x] = todo[x]
  BY StepTaken
<1>2. PICK x \in Step : x = todo'[o][i]
  BY <1>1
<1>3. Promise(x)'
  <2>1. CASE o # th
    <3>1. i \in DOMAIN todo[o] /\ x = todo[o][i]
      BY <1>1, <1>2, <2>1
    <3>2. Promise(x)
      BY <3>1 DEF Promises
    <3> QED
      BY <2>1, <3>1, <3>2
  <2>2. CASE o = th
    <3>1. CASE \E j \in DOMAIN steps : x = steps[j]
      BY <3>1
    <3>2. CASE \E j \in DOMAIN todo[th] : j # 1 /\ x = todo[th][j]
      <4>1. PICK j \in DOMAIN todo[th] : j # 1 /\ x = todo[th][j]
        BY <3>2
      <4>2. Promise(x)
        BY <4>1 DEF Promises
      <4> QED
        BY <4>1, <4>2
    <3> QED
      BY <1>2, <2>2, <3>1, <3>2, WhereFrom
  <2> QED
    BY <2>1, <2>2
<1> QED
  BY <1>2, <1>3

\* A step that carries nothing and promises nothing.
Light(step) ==
  /\ MsgsOf(step) = {} /\ AsksOf(step) = {} /\ ~HasMsg(step)
  /\ (Posthumous(step) => ~Alive') /\ (Stopping(step) => stops' # {})

Harmless(steps) == steps \in Seq(Step) /\ \A i \in DOMAIN steps : Light(steps[i])

LEMMA HarmlessNone == Harmless(<< >>)
BY DEF Harmless

LEMMA HarmlessOne == ASSUME NEW x \in Step, Light(x) PROVE Harmless(<<x>>)
BY DEF Harmless

LEMMA HarmlessBoth == ASSUME NEW a, NEW b, Harmless(a), Harmless(b) PROVE Harmless(a \o b)
<1>1. /\ a \in Seq(Step) /\ b \in Seq(Step)
      /\ (\A i \in DOMAIN a : Light(a[i])) /\ (\A i \in DOMAIN b : Light(b[i]))
  BY DEF Harmless
<1> QED
  BY <1>1, Concatenated DEF Harmless

LEMMA HarmlessCarry ==
  ASSUME NEW steps, Harmless(steps)
  PROVE  MsgsIn(steps) = {} /\ AsksIn(steps) = {} /\ Separate(steps) /\ \A i \in DOMAIN steps : Promise(steps[i])'
<1>1. MsgsIn(steps) = {} /\ AsksIn(steps) = {}
  BY DEF Harmless, Light, MsgsIn, AsksIn
<1>2. Separate(steps)
  BY DEF Harmless, Light, Separate
<1>3. ASSUME NEW i \in DOMAIN steps PROVE Promise(steps[i])'
  <2>1. PICK x : x = steps[i]
    OBVIOUS
  <2>2. Light(x)
    BY <2>1 DEF Harmless
  <2>3. Promise(x)'
    BY <2>2 DEF Light, Promise, HasMsg
  <2> QED
    BY <2>1, <2>3
<1> QED
  BY <1>1, <1>2, <1>3

\* Steps that need no more than themselves.
LightOp == {"drain", "unclaim", "clear_turn", "unflag", "progress", "discard", "adopt", "cancel",
            "close_stdin", "release_stdin", "judge", "write_interrupt"}

LEMMA HarmlessSteps ==
  /\ \A op \in LightOp : Harmless(Do(op))
  /\ ~Alive' => Harmless(Do("release")) /\ Harmless(Do("release_child"))
  /\ stops' # {} => \A op \in {"preserve", "kill", "reap"} : Harmless(Do(op))
  /\ \A x \in BOOLEAN : stops' # {} /\ (x => ~Alive') => Harmless(<<[op |-> "clear", terminated |-> x]>>)
  /\ \A x \in BOOLEAN : Harmless(<<[op |-> "error", limit |-> x]>>)
  /\ \A x \in Status : Harmless(EmitTurn(x))
  /\ \A x \in Status, t \in Nat : Harmless(<<[op |-> "turn_event", turn |-> t, status |-> x]>>)
  /\ \A x \in Phase : Harmless(SetPhase(x))
  /\ \A x \in Decision : Harmless(<<[op |-> "note", decision |-> x]>>)
<1> USE DEF Light, MsgsOf, AsksOf, HasMsg, Posthumous, Stopping
<1>1. ASSUME NEW op \in LightOp PROVE Harmless(Do(op))
  BY HarmlessOne DEF LightOp, Do, Step
<1>2. ASSUME ~Alive' PROVE Harmless(Do("release")) /\ Harmless(Do("release_child"))
  BY <1>2, HarmlessOne DEF Do, Step
<1>3. ASSUME stops' # {}, NEW op \in {"preserve", "kill", "reap"} PROVE Harmless(Do(op))
  BY <1>3, HarmlessOne DEF Do, Step
<1>4. ASSUME NEW x \in BOOLEAN, stops' # {}, x => ~Alive' PROVE Harmless(<<[op |-> "clear", terminated |-> x]>>)
  BY <1>4, HarmlessOne DEF Step
<1>5. ASSUME NEW x \in BOOLEAN PROVE Harmless(<<[op |-> "error", limit |-> x]>>)
  BY HarmlessOne DEF Step
<1>6. ASSUME NEW x \in Status PROVE Harmless(EmitTurn(x))
  BY HarmlessOne DEF EmitTurn, Step
<1>7. ASSUME NEW x \in Status, NEW t \in Nat PROVE Harmless(<<[op |-> "turn_event", turn |-> t, status |-> x]>>)
  BY HarmlessOne DEF Step
<1>8. ASSUME NEW x \in Phase PROVE Harmless(SetPhase(x))
  BY HarmlessOne DEF SetPhase, Step
<1>9. ASSUME NEW x \in Decision PROVE Harmless(<<[op |-> "note", decision |-> x]>>)
  BY HarmlessOne DEF Step
<1> QED
  BY <1>1, <1>2, <1>3, <1>4, <1>5, <1>6, <1>7, <1>8, <1>9

LEMMA StopStepsHarmless == stops' # {} => Harmless(StopSteps)
BY HarmlessSteps, HarmlessBoth DEF StopSteps, LightOp

\* A thread whose step carries no message goes on with harmless ones.
LEMMA LightlyTaken ==
  ASSUME todo \in [Thread -> Seq(Step)], \A x \in Thread : Separate(todo[x]),
         NEW th \in Thread, NEW steps, Harmless(steps), Takes(th, steps),
         todo[th] # << >> => MsgsOf(Now(th)) = {}
  PROVE  /\ \A x \in Thread : /\ MsgsIn(todo'[x]) = MsgsIn(todo[x])
                              /\ AsksIn(todo'[x]) \subseteq AsksIn(todo[x])
                              /\ Separate(todo'[x])
         /\ todo[th] # << >> => AsksIn(todo'[th]) \cap AsksOf(Now(th)) = {}
<1>1. /\ steps \in Seq(Step) /\ MsgsIn(steps) = {} /\ AsksIn(steps) = {} /\ Separate(steps)
  BY HarmlessCarry DEF Harmless
<1>2. /\ Rest(th) \in Seq(Step) /\ todo'[th] = steps \o Rest(th) /\ \A o \in Thread \ {th} : todo'[o] = todo[o]
  BY <1>1, StepTaken
<1>3. MsgsIn(todo'[th]) = MsgsIn(Rest(th)) /\ AsksIn(todo'[th]) = AsksIn(Rest(th))
  <2>1. /\ MsgsIn(steps \o Rest(th)) = MsgsIn(steps) \cup MsgsIn(Rest(th))
        /\ AsksIn(steps \o Rest(th)) = AsksIn(steps) \cup AsksIn(Rest(th))
    BY <1>1, <1>2, CarriedTogether
  <2> QED
    BY <1>1, <1>2, <2>1
<1>4. Separate(Rest(th))
  BY RestOf
<1>5. Separate(todo'[th])
  BY <1>1, <1>2, <1>4, SeparateTogether
<1> QED
  BY <1>2, <1>3, <1>5, RestOf, ZenonT(30)

-----------------------------------------------------------------------------
(* The steps that carry nothing, of which most calls consist.              *)

Quiet1(th) ==
  \/ Unclaim(th) \/ Refuse(th) \/ forget_delivery(th) \/ Unflag(th) \/ set_phase(th)
  \/ apply_turn_event(th) \/ ClearTurn(th) \/ apply_error_event(th) \/ Progress(th) \/ Preserve(th)
  \/ CloseStdin(th) \/ release_account_runtime(th) \/ ReleaseChild(th)

Quiet2(th) ==
  \/ Note(th) \/ WriteInterrupt(th) \/ emit_turn(th) \/ discard_pending_approvals(th) \/ Adopt(th)
  \/ Kill(th) \/ Reap(th) \/ Clear(th) \/ Judge(th)

Lightly(th) ==
  \E steps : Harmless(steps) /\ Takes(th, steps) /\ (todo[th] # << >> => MsgsOf(Now(th)) = {})

LEMMA QuietHead ==
  ASSUME NEW th \in Thread, Quiet1(th) \/ Quiet2(th)
  PROVE  todo[th] # << >> /\ MsgsOf(Now(th)) = {} /\ AsksOf(Now(th)) = {}
BY DEF Quiet1, Quiet2, Unclaim, Refuse, forget_delivery, Unflag, set_phase, apply_turn_event, ClearTurn,
       apply_error_event, Progress, Preserve, CloseStdin, release_account_runtime, ReleaseChild,
       Note, WriteInterrupt, emit_turn, discard_pending_approvals, Adopt, Kill, Reap, Clear, Judge,
       Writing, At, Now, MsgsOf, AsksOf

LEMMA Quiet1Lightly == ASSUME NEW th \in Thread, Quiet1(th) PROVE Lightly(th)
<1>1. Then(th, << >>)
  BY DEF Quiet1, Unclaim, Refuse, forget_delivery, Unflag, set_phase, apply_turn_event, ClearTurn,
         apply_error_event, Progress, Preserve, CloseStdin, release_account_runtime, ReleaseChild
<1> QED
  BY <1>1, QuietHead, HarmlessNone DEF Lightly, Takes

LEMMA Quiet2Lightly ==
  ASSUME TypeOK, Promises, Gone, NEW th \in Thread, Quiet2(th) PROVE Lightly(th)
<1> USE DEF LightOp
<1>0. SUFFICES \E steps : Harmless(steps) /\ Then(th, steps)
  BY QuietHead DEF Lightly, Takes
<1>1. /\ todo[th] # << >> /\ todo[th] \in Seq(Step) /\ Now(th) \in Step /\ Promise(Now(th))
  <2>1. todo[th] # << >> /\ todo[th] \in Seq(Step)
    BY QuietHead DEF TypeOK
  <2>2. 1 \in DOMAIN todo[th] /\ todo[th][1] = Now(th) /\ Now(th) \in Step
    BY <2>1, HeadAndTail DEF Now
  <2> QED
    BY <2>1, <2>2 DEF Promises
<1>2. CASE Note(th)
  <2>1. approval_phase(s.approvals) \in Phase
    BY DEF approval_phase, Phase, Active
  <2>2. Harmless(SetPhase(approval_phase(s.approvals))) /\ Harmless(Do("progress"))
    BY <2>1, HarmlessSteps
  <2> QED
    BY <1>2, <2>2, HarmlessBoth DEF Note
<1>3. CASE WriteInterrupt(th)
  BY <1>3, HarmlessNone, HarmlessSteps DEF WriteInterrupt
<1>4. CASE emit_turn(th)
  <2>1. Now(th).status \in Status /\ s.turn \in Nat
    BY <1>1, <1>4, StepFields DEF emit_turn, At, Now, TypeOK, StateOK, RuntimeState
  <2>2. /\ Harmless(<<[op |-> "turn_event", turn |-> s.turn, status |-> Now(th).status]>>)
        /\ Harmless(Do("clear_turn"))
    BY <2>1, HarmlessSteps
  <2> QED
    BY <1>4, <2>2, HarmlessBoth DEF emit_turn
<1>5. CASE discard_pending_approvals(th)
  BY <1>5, HarmlessNone, HarmlessSteps DEF discard_pending_approvals
<1>6. CASE Adopt(th)
  BY <1>6, HarmlessNone, HarmlessSteps DEF Adopt
<1>7. CASE Kill(th)
  <2>1. stops' # {}
    BY <1>1, <1>7 DEF Kill, At, Now, Promise, Stopping, history
  <2>2. CASE slot = "held"
    BY <1>7, <2>1, <2>2, HarmlessSteps DEF Kill
  <2>3. CASE slot = "empty"
    <3>1. ~Alive'
      BY <1>7, <2>3 DEF Gone, Kill, Alive, external
    <3>2. Harmless(<<[op |-> "clear", terminated |-> TRUE]>>)
      BY <2>1, <3>1, HarmlessSteps
    <3> QED
      BY <1>7, <2>3, <3>2 DEF Kill
  <2> QED
    BY <1>7, <2>2, <2>3 DEF Kill, TypeOK, ProcessOK
<1>8. CASE Reap(th)
  <2>1. stops' # {}
    BY <1>1, <1>8 DEF Reap, At, Now, Promise, Stopping, history
  <2>2. CASE Then(th, <<[op |-> "clear", terminated |-> TRUE]>>) /\ exit' = IF Alive THEN "bad" ELSE exit
    <3>1. ~Alive'
      BY <2>2 DEF Alive
    <3>2. Harmless(<<[op |-> "clear", terminated |-> TRUE]>>)
      BY <2>1, <3>1, HarmlessSteps
    <3> QED
      BY <2>2, <3>2
  <2>3. Harmless(<<[op |-> "clear", terminated |-> FALSE]>>)
    BY <2>1, HarmlessSteps
  <2> QED
    BY <1>8, <2>2, <2>3 DEF Reap
<1>9. CASE Clear(th)
  <2>1. Now(th).op = "clear" /\ Now(th).terminated \in BOOLEAN /\ UNCHANGED <<exit, stops>>
    BY <1>1, <1>9, StepFields DEF Clear, At, Now, external, history
  <2>2. Harmless(SetPhase("stopped")) /\ Harmless(SetPhase("failed"))
    BY HarmlessSteps DEF Phase, Terminal
  <2>3. CASE Now(th).terminated
    <3>1. ~Alive'
      BY <1>1, <2>1, <2>3 DEF Promise, Posthumous, Alive
    <3>2. Harmless(SetPhase("stopped") \o Do("release"))
      BY <2>2, <3>1, HarmlessSteps, HarmlessBoth
    <3> QED
      BY <1>9, <2>3, <3>2 DEF Clear
  <2>4. CASE ~Now(th).terminated
    BY <1>9, <2>2, <2>4 DEF Clear
  <2> QED
    BY <2>3, <2>4
<1>10. CASE Judge(th)
  <2>1. /\ Harmless(SetPhase("stopped")) /\ Harmless(SetPhase("failed"))
        /\ Harmless(<<[op |-> "error", limit |-> FALSE]>>) /\ Harmless(EmitTurn("failed")) /\ Harmless(<< >>)
    BY HarmlessSteps, HarmlessNone DEF Phase, Terminal, Status
  <2>2. Harmless(SetPhase("failed") \o <<[op |-> "error", limit |-> FALSE]>>)
    BY <2>1, HarmlessBoth
  <2> DEFINE end == IF exit = "ok" THEN SetPhase("stopped")
                    ELSE SetPhase("failed") \o <<[op |-> "error", limit |-> FALSE]>>
             report == IF s.turn # 0 THEN EmitTurn("failed") ELSE << >>
  <2>3. Harmless(end) /\ Harmless(report)
    BY <2>1, <2>2
  <2>4. Then(th, IF s.phase = "stopped" THEN << >> ELSE end \o report)
    BY <1>10 DEF Judge
  <2> HIDE DEF end, report
  <2>5. Harmless(end \o report)
    BY <2>3, HarmlessBoth
  <2> QED
    BY <2>1, <2>4, <2>5
<1> QED
  BY <1>2, <1>3, <1>4, <1>5, <1>6, <1>7, <1>8, <1>9, <1>10 DEF Quiet2

LEMMA Threads == Reader \in Thread /\ Monitor \in Thread /\ Dog \in Thread /\ Client \subseteq Thread
BY DEF Thread

\* The first frame of what the CLI said.
LEMMA OutputFields ==
  ASSUME TypeOK, outbox # << >>
  PROVE  /\ Head(outbox) \in Output /\ Tail(outbox) \in Seq(Output)
         /\ Head(outbox).kind = "content" => Head(outbox).limit \in BOOLEAN
         /\ Head(outbox).kind = "result" => Head(outbox).result \in {"ok", "error", "limit", "aborted"}
         /\ Head(outbox).kind = "lifecycle" =>
              Head(outbox).msg \in Msg /\ Head(outbox).state \in {"queued", "started", "cancelled"}
         /\ Head(outbox).kind \in {"ask", "cancel"} => Head(outbox).ask \in Ask
<1>1. Head(outbox) \in Output /\ Tail(outbox) \in Seq(Output)
  BY HeadAndTail DEF TypeOK, CliOK
<1> QED
  BY <1>1 DEF Output

LEMMA TurnStatusTyped == \A r, x : TurnStatus(r, x) \in Status
BY DEF TurnStatus, Status

\* A call that begins with steps that carry nothing.
LEMMA BegunLightly ==
  ASSUME NEW th \in Thread, NEW steps, Harmless(steps), Begin(th, steps)
  PROVE  Lightly(th)
BY DEF Lightly, Takes, Begin

LEMMA CallsLightly ==
  ASSUME NEW th \in Thread, Interrupt(th) \/ Stop(th) \/ \E m \in Msg : SendQueue(th, m)
  PROVE  Lightly(th)
<1>1. CASE Interrupt(th)
  BY <1>1, HarmlessSteps, BegunLightly DEF Interrupt, LightOp
<1>2. CASE Stop(th)
  BY <1>2, StopStepsHarmless, BegunLightly DEF Stop
<1>3. CASE \E m \in Msg : SendQueue(th, m)
  BY <1>3, HarmlessSteps, BegunLightly DEF SendQueue, LightOp
<1> QED
  BY <1>1, <1>2, <1>3

LEMMA WatchLightly ==
  /\ TurnWatchdog \/ InterruptWatchdog => Lightly(Dog)
  /\ Poll => Lightly(Monitor)
<1> USE Threads DEF LightOp
<1>0. /\ Harmless(<<[op |-> "error", limit |-> FALSE]>>)
      /\ Harmless(EmitTurn("failed")) /\ Harmless(EmitTurn("interrupted"))
  BY HarmlessSteps DEF Status
<1>1. ASSUME TurnWatchdog PROVE Lightly(Dog)
  <2>1. Harmless(StopSteps)
    BY <1>1, StopStepsHarmless DEF TurnWatchdog
  <2>2. Harmless(<<[op |-> "error", limit |-> FALSE]>> \o EmitTurn("failed"))
    BY <1>0, HarmlessBoth
  <2>3. Harmless((<<[op |-> "error", limit |-> FALSE]>> \o EmitTurn("failed")) \o StopSteps)
    BY <2>1, <2>2, HarmlessBoth
  <2> QED
    BY <1>1, <2>3, BegunLightly DEF TurnWatchdog
<1>2. ASSUME InterruptWatchdog PROVE Lightly(Dog)
  <2>1. Harmless(StopSteps)
    BY <1>2, StopStepsHarmless DEF InterruptWatchdog
  <2>2. Harmless(<<[op |-> "error", limit |-> FALSE]>> \o EmitTurn("interrupted"))
    BY <1>0, HarmlessBoth
  <2>3. Harmless((<<[op |-> "error", limit |-> FALSE]>> \o EmitTurn("interrupted")) \o StopSteps)
    BY <2>1, <2>2, HarmlessBoth
  <2> QED
    BY <1>2, <2>3, BegunLightly DEF InterruptWatchdog
<1>3. ASSUME Poll PROVE Lightly(Monitor)
  <2>1. ~Alive'
    BY <1>3 DEF Poll, Alive, external
  <2>2. /\ Harmless(Do("release_child")) /\ Harmless(Do("release_stdin")) /\ Harmless(Do("release"))
        /\ Harmless(Do("discard")) /\ Harmless(Do("judge"))
    BY <2>1, HarmlessSteps
  <2>3. Harmless(Do("release_child") \o Do("release_stdin") \o Do("release") \o Do("discard") \o Do("judge"))
    BY <2>2, HarmlessBoth
  <2> QED
    BY <1>3, <2>3, BegunLightly DEF Poll
<1> QED
  BY <1>1, <1>2, <1>3

LEMMA ReadsLightly ==
  ASSUME TypeOK, ReadContent \/ ReadAsk \/ ReadRefusal \/ ReadResult
  PROVE  Lightly(Reader)
<1> USE Threads DEF LightOp
<1>1. Harmless(Do("progress")) /\ \A x \in BOOLEAN : Harmless(<<[op |-> "error", limit |-> x]>>)
  BY HarmlessSteps
<1>2. CASE ReadContent
  <2>1. Harmless(<<[op |-> "error", limit |-> TRUE]>> \o Do("progress"))
    BY <1>1, HarmlessBoth
  <2> QED
    BY <1>1, <1>2, <2>1, BegunLightly DEF ReadContent
<1>3. CASE ReadAsk
  BY <1>1, <1>3, BegunLightly DEF ReadAsk
<1>4. CASE ReadRefusal
  BY <1>1, <1>4, BegunLightly DEF ReadRefusal
<1>5. CASE ReadResult
  <2> DEFINE r == Head(outbox).result
             status == TurnStatus(r, s.interrupting)
             limited == status = "failed" /\ r = "limit"
             report == IF status = "failed" THEN <<[op |-> "error", limit |-> limited]>> ELSE << >>
             more == IF limited THEN Do("preserve") \o StopSteps ELSE Do("adopt")
  <2>1. /\ Begin(Reader, Do("discard") \o report \o SetPhase("ready") \o EmitTurn(status) \o more)
        /\ limited => stops' # {}
    BY <1>5 DEF ReadResult
  <2>2. status \in Status /\ limited \in BOOLEAN
    BY TurnStatusTyped
  <2>3. Harmless(report)
    BY <1>1, <2>2, HarmlessNone
  <2>4. Harmless(more)
    <3>1. CASE limited
      BY <2>1, <3>1, HarmlessSteps, StopStepsHarmless, HarmlessBoth
    <3>2. CASE ~limited
      BY <3>2, HarmlessSteps
    <3> QED
      BY <3>1, <3>2
  <2>5. Harmless(Do("discard")) /\ Harmless(SetPhase("ready")) /\ Harmless(EmitTurn(status))
    BY <2>2, HarmlessSteps DEF Phase
  <2> HIDE DEF report, more, status
  <2>6. Harmless(Do("discard") \o report \o SetPhase("ready") \o EmitTurn(status) \o more)
    BY <2>3, <2>4, <2>5, HarmlessBoth
  <2> QED
    BY <2>1, <2>6, BegunLightly
<1> QED
  BY <1>2, <1>3, <1>4, <1>5

LEMMA CancelLightly ==
  ASSUME TypeOK, ReadCancel
  PROVE  UNCHANGED todo \/ Lightly(Reader)
BY Threads, HarmlessSteps, BegunLightly DEF ReadCancel, LightOp

-----------------------------------------------------------------------------
(* Types.                                                                  *)

LEMMA LightlyTyped ==
  ASSUME todo \in [Thread -> Seq(Step)], NEW th \in Thread, Lightly(th)
  PROVE  todo' \in [Thread -> Seq(Step)]
<1>1. PICK steps : Harmless(steps) /\ Takes(th, steps)
  BY DEF Lightly
<1> QED
  BY <1>1, StepTaken DEF Harmless

LEMMA HeadStep ==
  ASSUME TypeOK, NEW th \in Thread, todo[th] # << >>
  PROVE  Now(th) \in Step /\ (Promises => Promise(Now(th)))
<1>1. todo[th] \in Seq(Step) /\ 1 \in DOMAIN todo[th] /\ todo[th][1] = Now(th) /\ Now(th) \in Step
  BY HeadAndTail DEF TypeOK, Now
<1> QED
  BY <1>1 DEF Promises

EventsOK == events \in [budget : Budgets, count : [Kind \cup {AnyKind} -> Nat], resent : BOOLEAN]

LEMMA SpendTyped ==
  ASSUME EventsOK, NEW kind \in Kind, Spend(kind)
  PROVE  EventsOK' /\ events'.resent = events.resent /\ events'.budget = events.budget
<1>1. events.count \in [Kind \cup {AnyKind} -> Nat] /\ kind \in Kind \cup {AnyKind} /\ AnyKind \in Kind \cup {AnyKind}
  BY DEF EventsOK
<1>2. events' = [events EXCEPT !.count = Counted(events.count, kind)]
  BY DEF Spend
<1>3. Counted(events.count, kind) \in [Kind \cup {AnyKind} -> Nat]
  <2> DEFINE first == [events.count EXCEPT ![kind] = @ + 1]
  <2>1. first \in [Kind \cup {AnyKind} -> Nat]
    BY <1>1
  <2>2. Counted(events.count, kind) = [first EXCEPT ![AnyKind] = @ + 1]
    BY DEF Counted
  <2> HIDE DEF first
  <2> QED
    BY <1>1, <2>1, <2>2
<1> QED
  BY <1>2, <1>3 DEF EventsOK

\* claim_turn and the other changes of RuntimeState.
LEMMA ClaimTyped ==
  ASSUME NEW st \in RuntimeState, st.turn <= st.claims, NEW texts \in SUBSET Msg
  PROVE  /\ claim_turn(st, texts) \in RuntimeState
         /\ claim_turn(st, texts).turn <= claim_turn(st, texts).claims
         /\ claim_turn(st, texts).claims = st.claims + 1
         /\ claim_turn(st, texts) = [st EXCEPT !.phase = "running", !.claims = st.claims + 1,
                                               !.turn = st.claims + 1, !.input = texts]
<1>1. st.claims \in Nat /\ "running" \in Phase
  BY DEF RuntimeState, Phase, Active
<1>2. claim_turn(st, texts) = [st EXCEPT !.phase = "running", !.claims = st.claims + 1,
                                         !.turn = st.claims + 1, !.input = texts]
  BY DEF claim_turn
<1>3. claim_turn(st, texts) \in RuntimeState
  <2>1. st.claims + 1 \in Nat
    BY <1>1
  <2> QED
    BY <1>1, <1>2, <2>1 DEF RuntimeState
<1>4. claim_turn(st, texts).turn = st.claims + 1 /\ claim_turn(st, texts).claims = st.claims + 1
  BY <1>2 DEF RuntimeState
<1> QED
  BY <1>1, <1>2, <1>3, <1>4

LEMMA NoDelivery == << >> \in Deliveries /\ DOMAIN << >> = {}
<1>1. << >> \in [{} -> {"sent", "queued", "started"}]
  OBVIOUS
<1> QED
  BY <1>1 DEF Deliveries

LEMMA DeliveriesTyped ==
  ASSUME NEW d \in Deliveries
  PROVE  /\ DOMAIN d \subseteq Msg
         /\ \A m \in DOMAIN d : d[m] \in {"sent", "queued", "started"}
         /\ \A S : Without(d, S) \in Deliveries /\ DOMAIN Without(d, S) = DOMAIN d \ S
         /\ \A m \in DOMAIN d, x \in {"queued", "started"} :
              [d EXCEPT ![m] = x] \in Deliveries /\ DOMAIN [d EXCEPT ![m] = x] = DOMAIN d
         /\ \A m \in Msg : LET e == [x \in DOMAIN d \cup {m} |-> IF x = m THEN "sent" ELSE d[x]]
                           IN e \in Deliveries /\ DOMAIN e = DOMAIN d \cup {m}
<1>1. PICK M \in SUBSET Msg : d \in [M -> {"sent", "queued", "started"}]
  BY DEF Deliveries
<1>2. ASSUME NEW S PROVE Without(d, S) \in Deliveries /\ DOMAIN Without(d, S) = DOMAIN d \ S
  <2>1. Without(d, S) \in [M \ S -> {"sent", "queued", "started"}]
    BY <1>1 DEF Without, Restrict
  <2> QED
    BY <1>1, <2>1 DEF Deliveries
<1>3. ASSUME NEW m \in M, NEW x \in {"queued", "started"}
      PROVE  [d EXCEPT ![m] = x] \in Deliveries /\ DOMAIN [d EXCEPT ![m] = x] = DOMAIN d
  <2>1. [d EXCEPT ![m] = x] \in [M -> {"sent", "queued", "started"}]
    BY <1>1
  <2> QED
    BY <1>1, <2>1 DEF Deliveries
<1>4. ASSUME NEW m \in Msg
      PROVE  LET e == [x \in DOMAIN d \cup {m} |-> IF x = m THEN "sent" ELSE d[x]]
             IN e \in Deliveries /\ DOMAIN e = DOMAIN d \cup {m}
  <2> DEFINE e == [x \in DOMAIN d \cup {m} |-> IF x = m THEN "sent" ELSE d[x]]
  <2>1. e \in [M \cup {m} -> {"sent", "queued", "started"}]
    BY <1>1
  <2>2. M \cup {m} \in SUBSET Msg
    OBVIOUS
  <2> QED
    BY <1>1, <2>1, <2>2 DEF Deliveries
<1> QED
  BY <1>1, <1>2, <1>3, <1>4

LEMMA HeldTyped ==
  ASSUME NEW held \in Seq(Held)
  PROVE  Texts(held) \subseteq Msg
<1>1. \A i \in DOMAIN held : held[i] \in Held
  OBVIOUS
<1>2. \A h \in Held : h.text \subseteq Msg
  BY DEF Held
<1> QED
  BY <1>1, <1>2 DEF Texts, ToSet

LEMMA SeqTyped == ASSUME NEW S, NEW a \in Seq(S) PROVE ToSet(a) \subseteq S
BY DEF ToSet

\* A steps of the thread that change nothing but its list and s.
LEMMA StateTyped ==
  ASSUME TypeOK, Promises, NEW th \in Thread, Quiet1(th) \/ Quiet2(th)
  PROVE  StateOK'
<1>1. /\ s \in RuntimeState /\ s.turn <= s.claims /\ armed \subseteq 1 .. s.claims /\ impatient \in BOOLEAN
      /\ s.claims \in Nat /\ s.turn \in Nat
  BY DEF TypeOK, StateOK, RuntimeState
<1>2. Now(th) \in Step
  BY QuietHead, HeadStep
<1>3. CASE UNCHANGED <<s, armed, impatient>>
  BY <1>1, <1>3 DEF StateOK
<1>4. CASE Unclaim(th) \/ Unflag(th)
  BY <1>1, <1>4 DEF Unclaim, Unflag, StateOK, RuntimeState, Phase, dogs
<1>4a. CASE ClearTurn(th)
  BY <1>1, <1>4a DEF ClearTurn, StateOK, RuntimeState, dogs
<1>4b. CASE apply_turn_event(th)
  <2>1. << >> \in Seq(Held)
    OBVIOUS
  <2>2. armed' = {} /\ impatient' = impatient /\ (s' = [s EXCEPT !.held = << >>] \/ s' = [s EXCEPT !.held = @])
    BY <1>4b DEF apply_turn_event
  <2> QED
    BY <1>1, <2>1, <2>2 DEF StateOK, RuntimeState
<1>4c. CASE Progress(th)
  BY <1>1, <1>4c DEF Progress, StateOK
<1>5. CASE forget_delivery(th)
  <2>1. Without(s.delivered, {Now(th).msg}) \in Deliveries
    BY <1>1, DeliveriesTyped DEF RuntimeState
  <2> QED
    BY <1>1, <1>5, <2>1 DEF forget_delivery, StateOK, RuntimeState, dogs
<1>6. CASE set_phase(th)
  <2>1. Now(th).phase \in Phase
    BY <1>2, <1>6, StepFields DEF set_phase, At, Now
  <2> QED
    BY <1>1, <1>6, <2>1 DEF set_phase, StateOK, RuntimeState, dogs
<1>7. CASE apply_error_event(th)
  <2>1. Append(s.held, [text |-> s.input, started |-> TRUE]) \in Seq(Held)
    <3>1. [text |-> s.input, started |-> TRUE] \in Held /\ s.held \in Seq(Held)
      BY <1>1 DEF RuntimeState, Held
    <3> QED
      BY <3>1
  <2>2. s' \in RuntimeState /\ s'.turn <= s'.claims /\ s'.claims = s.claims
    <3>1. CASE s' = s
      BY <1>1, <3>1
    <3>2. CASE \E h \in Seq(Held) : s' = [s EXCEPT !.input = {}, !.held = h]
      BY <1>1, <3>2 DEF RuntimeState
    <3>3. s.held \in Seq(Held)
      BY <1>1 DEF RuntimeState
    <3> QED
      BY <1>1, <1>7, <2>1, <3>1, <3>2, <3>3 DEF apply_error_event
  <2> QED
    BY <1>1, <1>7, <2>2 DEF apply_error_event, StateOK
<1>8. CASE Preserve(th)
  <2> DEFINE kept == [i \in 1 .. Len(s.queue) |-> [text |-> {s.queue[i]}, started |-> FALSE]]
  <2>1. s.queue \in Seq(Msg) /\ s.held \in Seq(Held) /\ Len(s.queue) \in Nat
    BY <1>1 DEF RuntimeState
  <2>2. kept \in Seq(Held)
    <3>1. \A i \in 1 .. Len(s.queue) : [text |-> {s.queue[i]}, started |-> FALSE] \in Held
      BY <2>1 DEF Held
    <3> QED
      BY <2>1, <3>1
  <2>3. s.held \o kept \in Seq(Held)
    BY <2>1, <2>2, Concatenated
  <2>4. s' = [s EXCEPT !.queue = << >>, !.held = s.held \o kept]
    BY <1>8 DEF Preserve
  <2> HIDE DEF kept
  <2>5. << >> \in Seq(Msg)
    OBVIOUS
  <2> QED
    BY <1>1, <1>8, <2>3, <2>4, <2>5 DEF Preserve, StateOK, RuntimeState, dogs
<1>9. CASE Note(th)
  BY <1>1, <1>9 DEF Note, StateOK, RuntimeState, dogs
<1>10. CASE WriteInterrupt(th) \/ emit_turn(th)
  BY <1>1, <1>10 DEF WriteInterrupt, emit_turn, StateOK, dogs
<1>11. CASE discard_pending_approvals(th) \/ Judge(th)
  BY <1>1, <1>11 DEF discard_pending_approvals, Judge, StateOK, RuntimeState, dogs
<1>12. CASE Adopt(th)
  <2> DEFINE unstarted == take_unstarted_deliveries(s.delivered)
             rest == [s EXCEPT !.delivered = << >>]
  <2>1. unstarted \in SUBSET Msg /\ rest \in RuntimeState /\ rest.turn <= rest.claims /\ rest.claims = s.claims
    BY <1>1, NoDelivery, DeliveriesTyped DEF RuntimeState, take_unstarted_deliveries
  <2>2. CASE s' = rest /\ UNCHANGED armed
    BY <1>1, <1>12, <2>1, <2>2 DEF Adopt, StateOK
  <2>3. CASE s' = claim_turn(rest, unstarted) /\ armed' = armed \cup {s.claims + 1}
    <3>1. s' \in RuntimeState /\ s'.turn <= s'.claims /\ s'.claims = s.claims + 1
      BY <2>1, <2>3, ClaimTyped
    <3>2. armed' \subseteq 1 .. s'.claims
      BY <1>1, <2>3, <3>1
    <3> QED
      BY <1>1, <1>12, <3>1, <3>2 DEF Adopt, StateOK
  <2> QED
    BY <1>12, <2>2, <2>3 DEF Adopt
<1>13. CASE Clear(th)
  <2>1. << >> \in Seq(Msg)
    OBVIOUS
  <2> QED
    BY <1>1, <1>13, <2>1, NoDelivery DEF Clear, StateOK, RuntimeState, dogs
<1> QED
  BY <1>3, <1>4, <1>4a, <1>4b, <1>4c, <1>5, <1>6, <1>7, <1>8, <1>9, <1>10, <1>11, <1>12, <1>13
     DEF Quiet1, Quiet2, Refuse, CloseStdin, release_account_runtime, ReleaseChild, Kill, Reap, dogs

LEMMA StateTypedCalls ==
  ASSUME TypeOK, NEW th \in Client, Call(th)
  PROVE  StateOK'
<1>1. /\ s \in RuntimeState /\ s.turn <= s.claims /\ armed \subseteq 1 .. s.claims /\ impatient \in BOOLEAN
      /\ s.claims \in Nat /\ s.turn \in Nat /\ s.queue \in Seq(Msg)
  BY DEF TypeOK, StateOK, RuntimeState
<1>2. CASE UNCHANGED <<s, armed, impatient>>
  BY <1>1, <1>2 DEF StateOK
<1>3. ASSUME NEW m \in Msg, SendStart(th, m) PROVE StateOK'
  <2>1. s' \in RuntimeState /\ s'.turn <= s'.claims /\ s'.claims = s.claims + 1
    BY <1>1, <1>3, ClaimTyped DEF SendStart
  <2>2. armed' \subseteq 1 .. s'.claims /\ impatient' \in BOOLEAN
    BY <1>1, <1>3, <2>1 DEF SendStart, dogs
  <2> QED
    BY <2>1, <2>2 DEF StateOK
<1>4. ASSUME NEW m \in Msg, SendQueue(th, m) PROVE StateOK'
  <2>1. Append(s.queue, m) \in Seq(Msg)
    BY <1>1
  <2> QED
    BY <1>1, <1>4, <2>1 DEF SendQueue, StateOK, RuntimeState, dogs
<1>5. ASSUME NEW i \in DOMAIN s.queue, remove_queued(th, i) PROVE StateOK'
  <2>1. RemoveAt(s.queue, i) \in Seq(Msg)
    BY <1>1, RemovedRange
  <2> QED
    BY <1>1, <1>5, <2>1 DEF remove_queued, StateOK, RuntimeState, dogs
<1>6. ASSUME NEW a \in Ask, NEW d \in Decision, Approve(th, a, d) PROVE StateOK'
  BY <1>1, <1>6 DEF Approve, StateOK, RuntimeState, dogs
<1>7. CASE Interrupt(th)
  BY <1>1, <1>7, NoDelivery DEF Interrupt, StateOK, RuntimeState, dogs
<1> QED
  BY <1>2, <1>3, <1>4, <1>5, <1>6, <1>7 DEF Call, Send, SendRefused, SendDeliver, Stop, dogs

\* The steps that carry something, and the wait for a pipe.
Laden(th) ==
  \/ Drain(th) \/ OpenedTurn(th) \/ WriteTurn(th) \/ requeue_front(th) \/ Deliver(th) \/ WriteDelivery(th)
  \/ WriteAnswer(th) \/ Reinsert(th) \/ cancel_pending_approvals(th) \/ Respond(th)

LEMMA AdvanceSplit == \A th : Advance(th) => Quiet1(th) \/ Quiet2(th) \/ Laden(th) \/ Wait(th)
BY DEF Advance, Quiet1, Quiet2, Laden

LEMMA LadenHead == ASSUME NEW th \in Thread, Laden(th) PROVE todo[th] # << >>
BY DEF Laden, Drain, OpenedTurn, WriteTurn, requeue_front, Deliver, WriteDelivery, WriteAnswer, Reinsert,
       cancel_pending_approvals, Respond, Writing, At

LEMMA StateTypedLaden ==
  ASSUME TypeOK, Promises, NEW th \in Thread, Laden(th)
  PROVE  StateOK'
<1>1. /\ s \in RuntimeState /\ s.turn <= s.claims /\ armed \subseteq 1 .. s.claims /\ impatient \in BOOLEAN
      /\ s.claims \in Nat /\ s.turn \in Nat /\ s.queue \in Seq(Msg)
  BY DEF TypeOK, StateOK, RuntimeState
<1>2. Now(th) \in Step /\ Promise(Now(th))
  BY LadenHead, HeadStep
<1>3. CASE UNCHANGED <<s, armed, impatient>>
  BY <1>1, <1>3 DEF StateOK
<1>4. CASE Drain(th) /\ ~UNCHANGED s
  <2> DEFINE rest == [s EXCEPT !.queue = Tail(s.queue)]
  <2>1. /\ s.queue # << >> /\ s' = claim_turn(rest, {Head(s.queue)}) /\ UNCHANGED <<armed, impatient>>
    BY <1>4 DEF Drain, dogs
  <2>2. Head(s.queue) \in Msg /\ Tail(s.queue) \in Seq(Msg)
    BY <1>1, <2>1, HeadAndTail
  <2>3. rest \in RuntimeState /\ rest.turn <= rest.claims /\ rest.claims = s.claims
    BY <1>1, <2>2 DEF RuntimeState
  <2> HIDE DEF rest
  <2>4. s' \in RuntimeState /\ s'.turn <= s'.claims /\ s'.claims = s.claims + 1
    BY <2>1, <2>2, <2>3, ClaimTyped, ZenonT(30)
  <2>5. armed' \subseteq 1 .. s'.claims /\ impatient' \in BOOLEAN
    BY <1>1, <2>1, <2>4
  <2> QED
    BY <2>4, <2>5 DEF StateOK
<1>5. CASE OpenedTurn(th)
  <2>1. Now(th).turn \in 1 .. s.claims
    BY <1>2, <1>5 DEF OpenedTurn, At, Now, Promise
  <2> QED
    BY <1>1, <1>5, <2>1 DEF OpenedTurn, StateOK
<1>6. CASE WriteTurn(th)
  BY <1>1, <1>6 DEF WriteTurn, StateOK
<1>7. CASE requeue_front(th)
  <2>1. <<Now(th).msg>> \o s.queue \in Seq(Msg)
    BY <1>1, <1>2, <1>7, StepFields DEF requeue_front, At, Now, HasMsg
  <2> QED
    BY <1>1, <1>7, <2>1 DEF requeue_front, StateOK, RuntimeState, dogs
<1>8. CASE Deliver(th) /\ ~UNCHANGED s
  <2> DEFINE d == [x \in DOMAIN s.delivered \cup {Now(th).msg} |-> IF x = Now(th).msg THEN "sent" ELSE s.delivered[x]]
  <2>1. Now(th).msg \in Msg
    BY <1>2, <1>8, StepFields DEF Deliver, At, Now, HasMsg
  <2>2. d \in Deliveries
    <3>1. s.delivered \in Deliveries
      BY <1>1 DEF RuntimeState
    <3> QED
      BY <2>1, <3>1, DeliveriesTyped, ZenonT(30)
  <2>3. s' = [s EXCEPT !.delivered = d] /\ UNCHANGED dogs
    BY <1>8 DEF Deliver
  <2> HIDE DEF d
  <2> QED
    BY <1>1, <2>2, <2>3 DEF StateOK, RuntimeState, dogs
<1>9. CASE Reinsert(th)
  <2>1. Now(th).ask \in Ask
    BY <1>2, <1>9, StepFields DEF Reinsert, At, Now
  <2> QED
    BY <1>1, <1>9, <2>1 DEF Reinsert, StateOK, RuntimeState, dogs
<1>10. CASE cancel_pending_approvals(th)
  BY <1>1, <1>10 DEF cancel_pending_approvals, StateOK, RuntimeState, dogs
<1> QED
  BY <1>3, <1>4, <1>5, <1>6, <1>7, <1>8, <1>9, <1>10
     DEF Laden, Drain, Deliver, WriteDelivery, WriteAnswer, Respond, dogs

LEMMA StateTypedReads ==
  ASSUME TypeOK, Read
  PROVE  StateOK'
<1>1. /\ s \in RuntimeState /\ s.turn <= s.claims /\ armed \subseteq 1 .. s.claims /\ impatient \in BOOLEAN
      /\ s.claims \in Nat /\ s.turn \in Nat
  BY DEF TypeOK, StateOK, RuntimeState
<1>2. CASE UNCHANGED <<s, armed, impatient>>
  BY <1>1, <1>2 DEF StateOK
<1>3. CASE ReadContent /\ ~UNCHANGED s
  <2>1. s' = claim_turn(s, {}) /\ UNCHANGED <<armed, impatient>>
    BY <1>3 DEF ReadContent, dogs
  <2>2. s' \in RuntimeState /\ s'.turn <= s'.claims /\ s'.claims = s.claims + 1
    BY <1>1, <2>1, ClaimTyped
  <2> QED
    BY <1>1, <2>1, <2>2 DEF StateOK
<1>4. CASE ReadAsk
  <2>1. Head(outbox).ask \in Ask
    BY <1>4, OutputFields DEF ReadAsk, Frame
  <2> QED
    BY <1>1, <1>4, <2>1 DEF ReadAsk, StateOK, RuntimeState, dogs, Phase, Active
<1>5. CASE ReadCancel /\ ~UNCHANGED s
  <2>1. approval_phase(s.approvals \ {Head(outbox).ask}) \in Phase
    BY DEF approval_phase, Phase, Active
  <2> QED
    BY <1>1, <1>5, <2>1 DEF ReadCancel, StateOK, RuntimeState, dogs
<1>6. CASE ReadLifecycle
  <2> DEFINE m == Head(outbox).msg
             state == Head(outbox).state
  <2>1. state \in {"queued", "started", "cancelled"} /\ s.delivered \in Deliveries
    BY <1>1, <1>6, OutputFields DEF ReadLifecycle, Frame, RuntimeState
  <2>2. CASE state = "cancelled"
    <3>1. s' = [s EXCEPT !.delivered = Without(s.delivered, {m})] /\ UNCHANGED dogs
      BY <1>6, <2>2 DEF ReadLifecycle
    <3>2. Without(s.delivered, {m}) \in Deliveries
      BY <2>1, DeliveriesTyped
    <3> QED
      BY <1>1, <3>1, <3>2 DEF StateOK, RuntimeState, dogs
  <2>3. CASE state # "cancelled" /\ m \in DOMAIN s.delivered /\ s.delivered[m] # "started"
    <3>1. s' = [s EXCEPT !.delivered = [s.delivered EXCEPT ![m] = state]] /\ UNCHANGED dogs
      BY <1>6, <2>3 DEF ReadLifecycle
    <3>2. [s.delivered EXCEPT ![m] = state] \in Deliveries
      BY <2>1, <2>3, DeliveriesTyped
    <3> HIDE DEF m, state
    <3> QED
      BY <1>1, <3>1, <3>2 DEF StateOK, RuntimeState, dogs
  <2> QED
    BY <1>2, <1>6, <2>2, <2>3 DEF ReadLifecycle, dogs
<1>7. CASE ReadRefusal \/ ReadResult
  BY <1>1, <1>7 DEF ReadRefusal, ReadResult, StateOK, RuntimeState, dogs
<1> QED
  BY <1>2, <1>3, <1>4, <1>5, <1>6, <1>7 DEF Read, ReadContent, ReadCancel, dogs

LEMMA StateTypedNext ==
  ASSUME TypeOK, Promises, Next
  PROVE  StateOK'
<1>1. ASSUME NEW th \in Thread, Advance(th) PROVE StateOK'
  <2>1. CASE Wait(th)
    BY <2>1 DEF Wait, TypeOK, StateOK, dogs
  <2> QED
    BY <1>1, <2>1, AdvanceSplit, StateTyped, StateTypedLaden
<1>2. CASE Poll \/ TurnWatchdog \/ InterruptWatchdog \/ InterruptSeen
  BY <1>2 DEF Poll, TurnWatchdog, InterruptWatchdog, InterruptSeen, TypeOK, StateOK, dogs
<1>3. CASE Cli \/ CliMay
  BY <1>3 DEF Cli, CliMay, CliTakesMessage, CliTakesInterrupt, CliTakesAnswer, CliSpeaks, CliNext, CliEnds,
              CliAsks, CliWithdraws, CliWakes, CliExits, CliFreezes, TypeOK, StateOK, dogs
<1> QED
  BY <1>1, <1>2, <1>3, StateTypedCalls, StateTypedReads DEF Next

\* The lists that carry something.
LEMMA StepsTyped ==
  /\ \A m \in Msg, t \in Nat, b \in BOOLEAN :
       /\ OpenTurn(m, t, b) \in Seq(Step)
       /\ <<[op |-> "write_turn", msg |-> m, turn |-> t, back |-> b]>> \in Seq(Step)
  /\ \A m \in Msg, op \in {"deliver", "write_delivery", "forget", "requeue", "refuse"} : ForMsg(op, m) \in Seq(Step)
  /\ \A a \in Ask, d \in Decision : <<[op |-> "answer", ask |-> a, decision |-> d]>> \in Seq(Step)
  /\ \A a \in Ask : <<[op |-> "reinsert", ask |-> a]>> \in Seq(Step)
  /\ \A A \in SUBSET Ask : Responses(A) \in Seq(Step)
<1>1. ASSUME NEW m \in Msg, NEW t \in Nat, NEW b \in BOOLEAN
      PROVE  /\ OpenTurn(m, t, b) \in Seq(Step)
             /\ <<[op |-> "write_turn", msg |-> m, turn |-> t, back |-> b]>> \in Seq(Step)
  BY DEF OpenTurn, Step
<1>2. ASSUME NEW m \in Msg, NEW op \in {"deliver", "write_delivery", "forget", "requeue", "refuse"}
      PROVE  ForMsg(op, m) \in Seq(Step)
  BY DEF ForMsg, Step
<1>3. ASSUME NEW a \in Ask, NEW d \in Decision PROVE <<[op |-> "answer", ask |-> a, decision |-> d]>> \in Seq(Step)
  BY DEF Step
<1>4. ASSUME NEW a \in Ask PROVE <<[op |-> "reinsert", ask |-> a]>> \in Seq(Step)
  BY DEF Step
<1>5. ASSUME NEW A \in SUBSET Ask PROVE Responses(A) \in Seq(Step)
  <2>1. << >> \in Seq(Step) /\ <<[op |-> "respond", asks |-> A]>> \in Seq(Step)
    BY DEF Step
  <2> QED
    BY <2>1 DEF Responses
<1> QED
  BY <1>1, <1>2, <1>3, <1>4, <1>5

\* A turn that could not be written.
LEMMA FailTyped ==
  ASSUME NEW step \in Step, step.op \in {"open_turn", "write_turn"}
  PROVE  \E steps : /\ Harmless(steps)
                    /\ FailTurn(step) = (Do("unclaim") \o steps) \o ForMsg(IF step.back THEN "requeue" ELSE "refuse", step.msg)
                    /\ FailTurn(step) \in Seq(Step)
<1> DEFINE error == <<[op |-> "error", limit |-> FALSE]>>
           steps == error \o EmitTurn("failed")
           last == ForMsg(IF step.back THEN "requeue" ELSE "refuse", step.msg)
<1>1. Harmless(Do("unclaim")) /\ Harmless(error) /\ Harmless(EmitTurn("failed"))
  BY HarmlessSteps DEF LightOp, Status
<1>2. Harmless(steps) /\ Harmless(Do("unclaim") \o steps)
  BY <1>1, HarmlessBoth
<1>3. last \in Seq(Step)
  BY StepFields, StepsTyped DEF HasMsg
<1>4. FailTurn(step) = (Do("unclaim") \o steps) \o last
  <2>1. FailTurn(step) = ((Do("unclaim") \o error) \o EmitTurn("failed")) \o last
    BY DEF FailTurn
  <2>2. (Do("unclaim") \o error) \o EmitTurn("failed") = Do("unclaim") \o steps
    <3>1. Do("unclaim") \in Seq(Step) /\ error \in Seq(Step) /\ EmitTurn("failed") \in Seq(Step)
      BY <1>1 DEF Harmless
    <3> HIDE DEF error
    <3> QED
      BY <3>1, Associated
  <2> QED
    BY <2>1, <2>2
<1> HIDE DEF steps, last
<1>5. FailTurn(step) \in Seq(Step)
  BY <1>2, <1>3, <1>4, Concatenated DEF Harmless
<1> QED
  BY <1>2, <1>4, <1>5 DEF last

LEMMA TakesTyped ==
  ASSUME todo \in [Thread -> Seq(Step)], NEW th \in Thread, NEW steps \in Seq(Step), Takes(th, steps)
  PROVE  todo' \in [Thread -> Seq(Step)]
BY StepTaken

LEMMA LadenTodoTyped ==
  ASSUME TypeOK, NEW th \in Thread, Laden(th)
  PROVE  todo' \in [Thread -> Seq(Step)]
<1>1. todo[th] # << >> /\ Now(th) \in Step /\ todo \in [Thread -> Seq(Step)]
  BY LadenHead, HeadStep DEF TypeOK
<1>0. SUFFICES \E steps \in Seq(Step) : Then(th, steps)
  BY <1>1, TakesTyped DEF Takes
<1>2. << >> \in Seq(Step) /\ Do("progress") \in Seq(Step)
  BY DEF Do, Step
<1>3. CASE Drain(th)
  <2>1. CASE s.phase = "ready" /\ s.queue # << >>
    <3>1. Head(s.queue) \in Msg /\ s.claims + 1 \in Nat
      BY <2>1, HeadAndTail DEF TypeOK, StateOK, RuntimeState
    <3>2. OpenTurn(Head(s.queue), s.claims + 1, TRUE) \in Seq(Step)
      BY <3>1, StepsTyped
    <3> QED
      BY <1>3, <2>1, <3>2 DEF Drain
  <2> QED
    BY <1>2, <1>3, <2>1 DEF Drain
<1>4. CASE OpenedTurn(th)
  <2>1. /\ Now(th).op = "open_turn"
        /\ Then(th, <<[Now(th) EXCEPT !.op = "write_turn"]>>) \/ Then(th, FailTurn(Now(th)))
    BY <1>4 DEF OpenedTurn, At, Now
  <2>2. FailTurn(Now(th)) \in Seq(Step)
    BY <1>1, <2>1, FailTyped
  <2>3. <<[Now(th) EXCEPT !.op = "write_turn"]>> \in Seq(Step)
    BY <1>1, <2>1, SMTT(30) DEF Step
  <2> QED
    BY <2>1, <2>2, <2>3
<1>5. CASE WriteTurn(th)
  <2>1. Now(th).op = "write_turn" /\ (Then(th, << >>) \/ Then(th, FailTurn(Now(th))))
    BY <1>5 DEF WriteTurn, Writing, At, Now
  <2>2. FailTurn(Now(th)) \in Seq(Step)
    BY <1>1, <2>1, FailTyped
  <2> QED
    BY <1>2, <2>1, <2>2
<1>6. CASE requeue_front(th) \/ Reinsert(th)
  BY <1>2, <1>6 DEF requeue_front, Reinsert
<1>7. CASE Deliver(th)
  BY <1>1, <1>7, StepsTyped, StepFields DEF Deliver, At, Now, HasMsg
<1>8. CASE WriteDelivery(th)
  <2>1. Now(th).msg \in Msg
    BY <1>1, <1>8, StepFields DEF WriteDelivery, Writing, At, Now, HasMsg
  <2>2. ForMsg("forget", Now(th).msg) \o ForMsg("refuse", Now(th).msg) \in Seq(Step)
    BY <2>1, StepsTyped, Concatenated
  <2> QED
    BY <1>2, <1>8, <2>2 DEF WriteDelivery
<1>9. CASE WriteAnswer(th)
  <2>1. Now(th).ask \in Ask /\ Now(th).decision \in Decision
    BY <1>1, <1>9, StepFields DEF WriteAnswer, Writing, At, Now
  <2>2. /\ <<[op |-> "note", decision |-> Now(th).decision]>> \in Seq(Step)
        /\ <<[op |-> "reinsert", ask |-> Now(th).ask]>> \in Seq(Step)
    BY <2>1, StepsTyped, HarmlessSteps DEF Harmless
  <2> QED
    BY <1>9, <2>2 DEF WriteAnswer
<1>10. CASE cancel_pending_approvals(th)
  <2>1. s.approvals \in SUBSET Ask
    BY DEF TypeOK, StateOK, RuntimeState
  <2> QED
    BY <1>10, <2>1, StepsTyped DEF cancel_pending_approvals
<1>11. CASE Respond(th)
  <2>1. Now(th).asks \in SUBSET Ask
    BY <1>1, <1>11, StepFields DEF Respond, Writing, At, Now
  <2>2. \A a : Do("progress") \o Responses(Now(th).asks \ {a}) \in Seq(Step)
    BY <1>2, <2>1, StepsTyped, Concatenated
  <2> QED
    BY <1>11, <2>2 DEF Respond
<1> QED
  BY <1>3, <1>4, <1>5, <1>6, <1>7, <1>8, <1>9, <1>10, <1>11 DEF Laden

LEMMA CallTodoTyped ==
  ASSUME TypeOK, NEW th \in Client, Call(th)
  PROVE  todo' \in [Thread -> Seq(Step)]
<1>1. th \in Thread /\ todo \in [Thread -> Seq(Step)]
  BY Threads DEF TypeOK
<1>2. ASSUME \E steps \in Seq(Step) : Begin(th, steps) PROVE todo' \in [Thread -> Seq(Step)]
  BY <1>1, <1>2, TakesTyped DEF Takes
<1>3. ASSUME NEW m \in Msg, SendStart(th, m) PROVE todo' \in [Thread -> Seq(Step)]
  <2>1. s.claims + 1 \in Nat
    BY DEF TypeOK, StateOK, RuntimeState
  <2>2. OpenTurn(m, s.claims + 1, FALSE) \in Seq(Step)
    BY <2>1, StepsTyped
  <2> QED
    BY <1>2, <1>3, <2>2 DEF SendStart
<1>4. ASSUME NEW m \in Msg, SendDeliver(th, m) PROVE todo' \in [Thread -> Seq(Step)]
  BY <1>2, <1>4, StepsTyped DEF SendDeliver
<1>5. ASSUME NEW a \in Ask, NEW d \in Decision, Approve(th, a, d) PROVE todo' \in [Thread -> Seq(Step)]
  BY <1>2, <1>5, StepsTyped DEF Approve
<1>6. ASSUME Interrupt(th) \/ Stop(th) \/ \E m \in Msg : SendQueue(th, m) PROVE todo' \in [Thread -> Seq(Step)]
  BY <1>1, <1>6, CallsLightly, LightlyTyped
<1>7. CASE UNCHANGED todo
  BY <1>1, <1>7
<1> QED
  BY <1>3, <1>4, <1>5, <1>6, <1>7 DEF Call, Send, SendRefused, remove_queued

LEMMA TodoTypedNext ==
  ASSUME TypeOK, Promises, Gone, Next
  PROVE  todo' \in [Thread -> Seq(Step)]
<1>0. todo \in [Thread -> Seq(Step)]
  BY DEF TypeOK
<1>1. ASSUME NEW th \in Thread, Advance(th) PROVE todo' \in [Thread -> Seq(Step)]
  <2>1. CASE Wait(th)
    BY <1>0, <2>1 DEF Wait
  <2>2. CASE Quiet1(th) \/ Quiet2(th)
    BY <1>0, <2>2, Quiet1Lightly, Quiet2Lightly, LightlyTyped
  <2> QED
    BY <1>1, <2>1, <2>2, AdvanceSplit, LadenTodoTyped
<1>2. CASE Poll \/ TurnWatchdog \/ InterruptWatchdog
  BY <1>0, <1>2, WatchLightly, LightlyTyped, Threads
<1>3. CASE UNCHANGED todo
  BY <1>0, <1>3
<1>4. CASE Cli \/ CliMay \/ InterruptSeen
  BY <1>3, <1>4 DEF Cli, CliMay, CliTakesMessage, CliTakesInterrupt, CliTakesAnswer, CliSpeaks, CliNext, CliEnds,
              CliAsks, CliWithdraws, CliWakes, CliExits, CliFreezes, InterruptSeen
<1>5. CASE Read
  <2>1. CASE ReadContent \/ ReadAsk \/ ReadRefusal \/ ReadResult
    BY <1>0, <2>1, ReadsLightly, LightlyTyped, Threads
  <2>2. CASE ReadCancel
    BY <1>0, <2>2, CancelLightly, LightlyTyped, Threads
  <2>3. CASE ReadLifecycle
    BY <1>3, <2>3 DEF ReadLifecycle
  <2> QED
    BY <1>5, <2>1, <2>2, <2>3 DEF Read
<1> QED
  BY <1>1, <1>2, <1>4, <1>5, CallTodoTyped DEF Next

LEMMA ProcessTypedNext ==
  ASSUME TypeOK, Next
  PROVE  ProcessOK'
<1>0. ProcessOK
  BY DEF TypeOK
<1>1. CASE UNCHANGED process
  BY <1>0, <1>1 DEF ProcessOK, process
<1>2. ASSUME NEW th \in Thread, Advance(th) PROVE ProcessOK'
  <2>1. CASE Quiet1(th) /\ ~UNCHANGED process
    BY <1>0, <2>1 DEF Quiet1, Unclaim, Refuse, forget_delivery, Unflag, set_phase, apply_turn_event, ClearTurn,
       apply_error_event, Progress, Preserve, CloseStdin, release_account_runtime, ReleaseChild, ProcessOK, process
  <2>2. CASE Quiet2(th) /\ ~UNCHANGED process
    BY <1>0, <2>2 DEF Quiet2, Note, WriteInterrupt, Writing, emit_turn, discard_pending_approvals, Adopt, Kill, Reap,
                      Clear, Judge, ProcessOK, process
  <2>3. CASE Laden(th) /\ ~UNCHANGED process
    BY <1>0, <2>3 DEF Laden, Drain, OpenedTurn, WriteTurn, requeue_front, Deliver, WriteDelivery, WriteAnswer, Reinsert,
       cancel_pending_approvals, Respond, Writing, ProcessOK, process
  <2>4. CASE Wait(th)
    BY <1>0, <2>4 DEF Wait, ProcessOK
  <2> QED
    BY <1>1, <1>2, <2>1, <2>2, <2>3, <2>4, AdvanceSplit
<1>3. CASE Read \/ Poll \/ TurnWatchdog \/ InterruptWatchdog \/ InterruptSeen
  BY <1>1, <1>3 DEF Read, ReadContent, ReadAsk, ReadCancel, ReadLifecycle, ReadRefusal, ReadResult,
                    Poll, TurnWatchdog, InterruptWatchdog, InterruptSeen
<1>4. CASE Cli \/ CliMay
  BY <1>1, <1>4 DEF Cli, CliMay, CliTakesMessage, CliTakesInterrupt, CliTakesAnswer, CliSpeaks, CliNext, CliEnds,
              CliAsks, CliWithdraws, CliWakes, CliExits, CliFreezes
<1>5. ASSUME NEW th \in Client, Call(th) PROVE ProcessOK'
  BY <1>1, <1>5 DEF Call, Send, SendRefused, SendStart, SendDeliver, SendQueue, remove_queued, Approve, Interrupt, Stop
<1> QED
  BY <1>2, <1>3, <1>4, <1>5 DEF Next

-----------------------------------------------------------------------------
(* What is written to the CLI and what it says.                            *)

LEMMA FramesTyped ==
  /\ \A m \in Msg, t \in BOOLEAN : [kind |-> "message", msg |-> m, tracked |-> t] \in Input
  /\ \A a \in Ask, d \in Decision : [kind |-> "answer", ask |-> a, decision |-> d] \in Input
  /\ [kind |-> "interrupt"] \in Input
  /\ \A a \in Ask : <<[kind |-> "ask", ask |-> a]>> \in Seq(Output) /\ <<[kind |-> "cancel", ask |-> a]>> \in Seq(Output)
  /\ \A x \in BOOLEAN : Content(x) \in Seq(Output)
  /\ \A r \in {"ok", "error", "limit", "aborted"} : Result(r) \in Seq(Output)
  /\ <<[kind |-> "refusal"]>> \in Seq(Output)
  /\ \A f \in Message, x \in {"queued", "started", "cancelled"} : Lifecycle(f, x) \in Seq(Output)
  /\ \A messages \in Seq(Message) : Cancelled(messages) \in Seq(Output)
<1>1. ASSUME NEW m \in Msg, NEW t \in BOOLEAN PROVE [kind |-> "message", msg |-> m, tracked |-> t] \in Input
  BY DEF Input, Message
<1>2. ASSUME NEW a \in Ask, NEW d \in Decision PROVE [kind |-> "answer", ask |-> a, decision |-> d] \in Input
  BY DEF Input
<1>3. [kind |-> "interrupt"] \in Input
  BY DEF Input
<1>4. ASSUME NEW a \in Ask
      PROVE  <<[kind |-> "ask", ask |-> a]>> \in Seq(Output) /\ <<[kind |-> "cancel", ask |-> a]>> \in Seq(Output)
  BY DEF Output
<1>5. ASSUME NEW x \in BOOLEAN PROVE Content(x) \in Seq(Output)
  BY DEF Content, Output
<1>6. ASSUME NEW r \in {"ok", "error", "limit", "aborted"} PROVE Result(r) \in Seq(Output)
  BY DEF Result, Output
<1>7. <<[kind |-> "refusal"]>> \in Seq(Output)
  BY DEF Output
<1>8. ASSUME NEW f \in Message, NEW x \in {"queued", "started", "cancelled"} PROVE Lifecycle(f, x) \in Seq(Output)
  <2>1. [kind |-> "lifecycle", msg |-> f.msg, state |-> x] \in Output
    BY DEF Message, Output
  <2>2. << >> \in Seq(Output) /\ <<[kind |-> "lifecycle", msg |-> f.msg, state |-> x]>> \in Seq(Output)
    BY <2>1
  <2> QED
    BY <2>2 DEF Lifecycle
<1>9. ASSUME NEW messages \in Seq(Message) PROVE Cancelled(messages) \in Seq(Output)
  <2>1. \A i \in DOMAIN messages : [kind |-> "lifecycle", msg |-> messages[i].msg, state |-> "cancelled"] \in Output
    <3> TAKE i \in DOMAIN messages
    <3>1. messages[i] \in Message
      OBVIOUS
    <3> QED
      BY <3>1 DEF Message, Output
  <2>2. DOMAIN messages = 1 .. Len(messages) /\ Len(messages) \in Nat
    OBVIOUS
  <2> QED
    BY <2>1, <2>2 DEF Cancelled
<1> QED
  BY <1>1, <1>2, <1>3, <1>4, <1>5, <1>6, <1>7, <1>8, <1>9

LEMMA InputFields ==
  ASSUME TypeOK, inbox # << >>
  PROVE  /\ Head(inbox) \in Input /\ Tail(inbox) \in Seq(Input)
         /\ Head(inbox).kind = "message" => Head(inbox) \in Message
         /\ Head(inbox).kind = "answer" => Head(inbox).ask \in Ask
<1>1. Head(inbox) \in Input /\ Tail(inbox) \in Seq(Input)
  BY HeadAndTail DEF TypeOK, CliOK
<1>2. \A f \in Input : f.kind = "message" => f \in Message
  BY DEF Input
<1>3. \A f \in Input : f.kind = "answer" => f.ask \in Ask
  BY DEF Input, Message
<1> QED
  BY <1>1, <1>2, <1>3

\* What the CLI says follows what it has said.
LEMMA Said ==
  ASSUME TypeOK, NEW frames \in Seq(Output), Say(frames)
  PROVE  outbox' \in Seq(Output)
BY Concatenated DEF TypeOK, CliOK, Say

LEMMA CliTypedCli ==
  ASSUME TypeOK, Cli \/ CliMay
  PROVE  CliOK'
<1>0. /\ exit \in {"no", "hung", "ok", "bad"} /\ cli \in {"idle", "thinking", "speaking"} \cup Ask
      /\ fresh \subseteq Ask /\ backlog \in Seq(Message) /\ inbox \in Seq(Input) /\ outbox \in Seq(Output)
  BY DEF TypeOK, CliOK
<1>1. CASE CliTakesMessage
  <2>1. Head(inbox) \in Message /\ Tail(inbox) \in Seq(Input)
    BY <1>1, InputFields DEF CliTakesMessage
  <2>2. Append(backlog, Head(inbox)) \in Seq(Message)
    BY <1>0, <2>1
  <2>3. Lifecycle(Head(inbox), "started") \in Seq(Output) /\ Lifecycle(Head(inbox), "queued") \in Seq(Output)
    BY <2>1, FramesTyped
  <2>4. outbox' \in Seq(Output)
    BY <1>1, <2>3, Said DEF CliTakesMessage
  <2> QED
    BY <1>0, <1>1, <2>1, <2>2, <2>4 DEF CliTakesMessage, CliOK
<1>2. CASE CliTakesInterrupt
  <2>1. Tail(inbox) \in Seq(Input)
    BY <1>2, InputFields DEF CliTakesInterrupt
  <2>2. << >> \in Seq(Message) /\ << >> \in Seq(Output)
    OBVIOUS
  <2>3. Cancelled(backlog) \o (IF cli = "idle" THEN << >> ELSE Result("aborted")) \in Seq(Output)
    BY <1>0, <2>2, FramesTyped, Concatenated
  <2>4. outbox' \in Seq(Output)
    BY <1>2, <2>3, FramesTyped, Said DEF CliTakesInterrupt
  <2> QED
    BY <1>0, <1>2, <2>1, <2>2, <2>4 DEF CliTakesInterrupt, CliOK
<1>3. CASE CliTakesAnswer
  <2>1. Tail(inbox) \in Seq(Input)
    BY <1>3, InputFields DEF CliTakesAnswer
  <2>2. outbox' \in Seq(Output)
    BY <1>0, <1>3, FramesTyped, Said DEF CliTakesAnswer
  <2> QED
    BY <1>0, <1>3, <2>1, <2>2 DEF CliTakesAnswer, CliOK
<1>4. CASE CliSpeaks \/ CliWakes
  <2>1. outbox' \in Seq(Output)
    BY <1>4, FramesTyped, Said DEF CliSpeaks, CliWakes
  <2> QED
    BY <1>0, <1>4, <2>1 DEF CliSpeaks, CliWakes, CliOK
<1>5. CASE CliNext
  <2>1. Head(backlog) \in Message /\ Tail(backlog) \in Seq(Message)
    BY <1>0, <1>5, HeadAndTail DEF CliNext
  <2>2. outbox' \in Seq(Output)
    BY <1>5, <2>1, FramesTyped, Said DEF CliNext
  <2> QED
    BY <1>0, <1>5, <2>1, <2>2 DEF CliNext, CliOK
<1>6. ASSUME NEW r \in {"ok", "error", "limit"}, CliEnds(r) PROVE CliOK'
  <2>1. Content(TRUE) \o Result(r) \in Seq(Output) /\ Result(r) \in Seq(Output)
    BY FramesTyped, Concatenated
  <2>2. outbox' \in Seq(Output)
    BY <1>6, <2>1, Said DEF CliEnds
  <2> QED
    BY <1>0, <1>6, <2>2 DEF CliEnds, CliOK
<1>7. ASSUME NEW a \in Ask, CliAsks(a) PROVE CliOK'
  <2>1. outbox' \in Seq(Output)
    BY <1>7, FramesTyped, Said DEF CliAsks
  <2> QED
    BY <1>0, <1>7, <2>1 DEF CliAsks, CliOK
<1>8. CASE CliWithdraws
  <2>1. outbox' \in Seq(Output)
    BY <1>8, FramesTyped, Said DEF CliWithdraws
  <2> QED
    BY <1>0, <1>8, <2>1 DEF CliWithdraws, CliOK
<1>9. CASE CliExits \/ CliFreezes
  BY <1>0, <1>9 DEF CliExits, CliFreezes, CliOK
<1> QED
  BY <1>1, <1>2, <1>3, <1>4, <1>5, <1>6, <1>7, <1>8, <1>9 DEF Cli, CliMay

LEMMA CliTypedAdvance ==
  ASSUME TypeOK, NEW th \in Thread, Advance(th)
  PROVE  CliOK'
<1>0. /\ CliOK /\ exit \in {"no", "hung", "ok", "bad"} /\ inbox \in Seq(Input)
  BY DEF TypeOK, CliOK
<1>1. CASE UNCHANGED external
  BY <1>0, <1>1 DEF CliOK, external
<1>2. ASSUME UNCHANGED <<exit, cli, fresh, backlog, outbox>>, inbox' = inbox \/ \E f \in Input : inbox' = Append(inbox, f)
      PROVE  CliOK'
  <2>1. inbox' \in Seq(Input)
    BY <1>0, <1>2
  <2> QED
    BY <1>0, <1>2, <2>1 DEF CliOK
<1>3. CASE Quiet1(th)
  BY <1>1, <1>3 DEF Quiet1, Unclaim, Refuse, forget_delivery, Unflag, set_phase, apply_turn_event, ClearTurn,
       apply_error_event, Progress, Preserve, CloseStdin, release_account_runtime, ReleaseChild
<1>4. CASE Reap(th)
  BY <1>0, <1>4 DEF Reap, CliOK
<1>5. CASE WriteInterrupt(th)
  BY <1>2, <1>5, FramesTyped DEF WriteInterrupt
<1>6. CASE Quiet2(th) /\ ~Reap(th) /\ ~WriteInterrupt(th)
  BY <1>1, <1>6 DEF Quiet2, Note, emit_turn, discard_pending_approvals, Adopt, Kill, Clear, Judge
<1>7. CASE WriteTurn(th) \/ WriteDelivery(th)
  <2>1. todo[th] # << >> /\ Now(th).op \in {"write_turn", "write_delivery"}
    BY <1>7 DEF WriteTurn, WriteDelivery, Writing, At, Now
  <2>2. Now(th).msg \in Msg
    BY <2>1, HeadStep, StepFields DEF HasMsg
  <2> QED
    BY <1>2, <1>7, <2>2, FramesTyped DEF WriteTurn, WriteDelivery
<1>8. CASE WriteAnswer(th)
  <2>1. todo[th] # << >> /\ Now(th).op = "answer"
    BY <1>8 DEF WriteAnswer, Writing, At, Now
  <2>2. Now(th).ask \in Ask /\ Now(th).decision \in Decision
    BY <2>1, HeadStep, StepFields
  <2> QED
    BY <1>2, <1>8, <2>2, FramesTyped DEF WriteAnswer
<1>9. CASE Respond(th)
  <2>1. todo[th] # << >> /\ Now(th).op = "respond"
    BY <1>9 DEF Respond, Writing, At, Now
  <2>2. Now(th).asks \subseteq Ask /\ "cancel" \in Decision
    BY <2>1, HeadStep, StepFields DEF Decision
  <2>3. PICK a \in Now(th).asks : IF CanWrite THEN inbox' = Append(inbox, [kind |-> "answer", ask |-> a, decision |-> "cancel"])
                                              ELSE UNCHANGED inbox
    BY <1>9 DEF Respond
  <2>4. [kind |-> "answer", ask |-> a, decision |-> "cancel"] \in Input
    BY <2>2, FramesTyped
  <2> QED
    BY <1>2, <1>9, <2>3, <2>4 DEF Respond
<1>10. CASE Drain(th) \/ OpenedTurn(th) \/ requeue_front(th) \/ Deliver(th) \/ Reinsert(th) \/ cancel_pending_approvals(th) \/ Wait(th)
  BY <1>1, <1>10 DEF Drain, OpenedTurn, requeue_front, Deliver, Reinsert, cancel_pending_approvals, Wait
<1> QED
  BY <1>3, <1>4, <1>5, <1>6, <1>7, <1>8, <1>9, <1>10, AdvanceSplit DEF Laden

LEMMA CliTypedNext ==
  ASSUME TypeOK, Next
  PROVE  CliOK'
<1>0. CliOK
  BY DEF TypeOK
<1>1. CASE UNCHANGED external
  BY <1>0, <1>1 DEF CliOK, external
<1>2. CASE Read
  <2>1. outbox # << >> /\ outbox' = Tail(outbox) /\ UNCHANGED <<exit, cli, fresh, backlog, inbox>>
    BY <1>2 DEF Read, ReadContent, ReadAsk, ReadCancel, ReadLifecycle, ReadRefusal, ReadResult, Frame
  <2>2. outbox' \in Seq(Output)
    BY <2>1, OutputFields
  <2> QED
    BY <1>0, <2>1, <2>2 DEF CliOK
<1>3. CASE Poll \/ TurnWatchdog \/ InterruptWatchdog \/ InterruptSeen
  BY <1>1, <1>3 DEF Poll, TurnWatchdog, InterruptWatchdog, InterruptSeen
<1>4. ASSUME NEW th \in Client, Call(th) PROVE CliOK'
  BY <1>1, <1>4 DEF Call, Send, SendRefused, SendStart, SendDeliver, SendQueue, remove_queued, Approve, Interrupt, Stop
<1> QED
  BY <1>2, <1>3, <1>4, CliTypedAdvance, CliTypedCli DEF Next

-----------------------------------------------------------------------------
(* The history.                                                            *)

\* A bounded event is counted, or none is.
Counts == UNCHANGED events \/ \E kind \in Kind : Spend(kind)

LEMMA CountsTyped ==
  ASSUME EventsOK, Counts
  PROVE  EventsOK' /\ events'.resent = events.resent /\ events'.budget = events.budget
BY SpendTyped DEF Counts, EventsOK

\* A step of the history.
Told == {"unsent", "sending", "accepted", "refused", "removed"}
Remembers ==
  /\ told' = told \/ \E m \in Msg, x \in Told : told' = [told EXCEPT ![m] = x]
  /\ lined' = lined \/ \E m \in Msg : lined' = Append(lined, m)
  /\ handed' = handed \/ \E m \in Msg : handed' = Append(handed, m)
  /\ answered' = answered \/ \E a \in Ask : answered' = Append(answered, a)
  /\ stops' = stops \/ \E x \in {"user", "watchdog", "limit"} : stops' = stops \cup {x}
  /\ EventsOK'

LEMMA RemembersTyped ==
  ASSUME HistoryOK, Remembers
  PROVE  HistoryOK'
<1>1. told' \in [Msg -> {"unsent", "sending", "accepted", "refused", "removed"}]
  BY DEF HistoryOK, Remembers, Told
<1>2. lined' \in Seq(Msg) /\ handed' \in Seq(Msg) /\ answered' \in Seq(Ask)
  <2>1. lined \in Seq(Msg) /\ handed \in Seq(Msg) /\ answered \in Seq(Ask)
    BY DEF HistoryOK
  <2>2. /\ lined' = lined \/ \E m \in Msg : lined' = Append(lined, m)
        /\ handed' = handed \/ \E m \in Msg : handed' = Append(handed, m)
        /\ answered' = answered \/ \E a \in Ask : answered' = Append(answered, a)
    BY DEF Remembers
  <2>3. \A S : \A q \in Seq(S) : \A x \in S : Append(q, x) \in Seq(S)
    BY AppendedRange
  <2>4. lined' \in Seq(Msg)
    BY <2>1, <2>2, <2>3
  <2>5. handed' \in Seq(Msg)
    BY <2>1, <2>2, <2>3
  <2>6. answered' \in Seq(Ask)
    BY <2>1, <2>2, <2>3
  <2> QED
    BY <2>4, <2>5, <2>6
<1>3. stops' \subseteq {"user", "watchdog", "limit"}
  <2>1. stops' = stops \/ \E x \in {"user", "watchdog", "limit"} : stops' = stops \cup {x}
    BY DEF Remembers
  <2>2. stops \subseteq {"user", "watchdog", "limit"}
    BY DEF HistoryOK
  <2> QED
    BY <2>1, <2>2
<1> QED
  BY <1>1, <1>2, <1>3 DEF HistoryOK, Remembers, EventsOK

LEMMA RemembersAdvance ==
  ASSUME TypeOK, NEW th \in Thread, Advance(th)
  PROVE  Remembers
<1> USE DEF history, Told
<1>0. EventsOK /\ "gone" \in Kind /\ "stubborn" \in Kind
  BY DEF TypeOK, HistoryOK, EventsOK, Kind
<1>1. CASE UNCHANGED <<history, events>>
  BY <1>0, <1>1, CountsTyped DEF Remembers, Counts
<1>2. CASE Quiet1(th) /\ ~Refuse(th)
  BY <1>1, <1>2 DEF Quiet1, Unclaim, forget_delivery, Unflag, set_phase, apply_turn_event, ClearTurn,
       apply_error_event, Progress, Preserve, CloseStdin, release_account_runtime, ReleaseChild
<1>3. CASE Refuse(th)
  <2>1. todo[th] # << >> /\ Now(th).op = "refuse"
    BY <1>3 DEF Refuse, At, Now
  <2>2. Now(th).msg \in Msg
    BY <2>1, HeadStep, StepFields DEF HasMsg
  <2> QED
    BY <1>0, <1>3, <2>2, CountsTyped DEF Refuse, Remembers, Counts
<1>4. CASE Quiet2(th) /\ ~Reap(th)
  BY <1>1, <1>4 DEF Quiet2, Note, WriteInterrupt, emit_turn, discard_pending_approvals, Adopt, Kill, Clear, Judge
<1>5. CASE Reap(th) \/ OpenedTurn(th) \/ Deliver(th)
  <2>1. Counts /\ UNCHANGED history
    BY <1>0, <1>5 DEF Reap, OpenedTurn, Deliver, Counts
  <2> QED
    BY <1>0, <2>1, CountsTyped DEF Remembers
<1>6. CASE requeue_front(th)
  <2>1. events' = [events EXCEPT !.resent = @ \/ Now(th).msg \in Texts(s.held)] /\ UNCHANGED history
    BY <1>6 DEF requeue_front
  <2>2. EventsOK'
    <3>1. (events.resent \/ Now(th).msg \in Texts(s.held)) \in BOOLEAN
      BY <1>0 DEF EventsOK
    <3> QED
      BY <1>0, <2>1, <3>1 DEF EventsOK
  <2> QED
    BY <2>1, <2>2 DEF Remembers
<1>7. CASE WriteTurn(th) \/ WriteDelivery(th)
  <2>1. todo[th] # << >> /\ Now(th).op \in {"write_turn", "write_delivery"}
    BY <1>7 DEF WriteTurn, WriteDelivery, Writing, At, Now
  <2>2. Now(th).msg \in Msg
    BY <2>1, HeadStep, StepFields DEF HasMsg
  <2> QED
    BY <1>0, <1>7, <2>2, CountsTyped DEF WriteTurn, WriteDelivery, Remembers, Counts
<1>8. CASE WriteAnswer(th) \/ Respond(th)
  <2>1. todo[th] # << >> /\ Now(th).op \in {"answer", "respond"}
    BY <1>8 DEF WriteAnswer, Respond, Writing, At, Now
  <2>2. (Now(th).op = "answer" => Now(th).ask \in Ask) /\ (Now(th).op = "respond" => Now(th).asks \subseteq Ask)
    BY <2>1, HeadStep, StepFields
  <2>3. answered' = answered \/ \E a \in Ask : answered' = Append(answered, a)
    BY <1>8, <2>2 DEF WriteAnswer, Respond, Writing, At, Now
  <2>4. UNCHANGED <<events, told, lined, handed, stops>>
    BY <1>8 DEF WriteAnswer, Respond
  <2> QED
    BY <1>0, <2>3, <2>4, CountsTyped DEF Remembers, Counts
<1>9. CASE Drain(th) \/ Reinsert(th) \/ cancel_pending_approvals(th) \/ Wait(th)
  BY <1>1, <1>9 DEF Drain, Reinsert, cancel_pending_approvals, Wait
<1> QED
  BY <1>2, <1>3, <1>4, <1>5, <1>6, <1>7, <1>8, <1>9, AdvanceSplit DEF Laden

LEMMA RemembersCall ==
  ASSUME TypeOK, NEW th \in Client, Call(th)
  PROVE  Remembers
<1> USE DEF history, Told
<1>0. EventsOK /\ {"steer", "remove", "interrupt", "stop"} \subseteq Kind
  BY DEF TypeOK, HistoryOK, EventsOK, Kind
<1>1. ASSUME NEW m \in Msg, SendRefused(th, m) \/ SendStart(th, m) \/ SendQueue(th, m) PROVE Remembers
  BY <1>0, <1>1, CountsTyped DEF SendRefused, SendStart, SendQueue, Remembers, Counts
<1>2. ASSUME NEW m \in Msg, SendDeliver(th, m) PROVE Remembers
  <2>1. Counts
    BY <1>0, <1>2 DEF SendDeliver, Counts
  <2> QED
    BY <1>0, <1>2, <2>1, CountsTyped DEF SendDeliver, Remembers
<1>3. ASSUME NEW i \in DOMAIN s.queue, remove_queued(th, i) PROVE Remembers
  <2>1. s.queue[i] \in Msg
    BY DEF TypeOK, StateOK, RuntimeState
  <2>2. Counts
    BY <1>0, <1>3 DEF remove_queued, Counts
  <2> QED
    BY <1>0, <1>3, <2>1, <2>2, CountsTyped DEF remove_queued, Remembers
<1>4. ASSUME NEW a \in Ask, NEW d \in Decision, Approve(th, a, d) PROVE Remembers
  BY <1>0, <1>4, CountsTyped DEF Approve, Remembers, Counts
<1>5. CASE Interrupt(th) \/ Stop(th)
  <2>1. Counts
    BY <1>0, <1>5 DEF Interrupt, Stop, Counts
  <2> QED
    BY <1>0, <1>5, <2>1, CountsTyped DEF Interrupt, Stop, Remembers
<1> QED
  BY <1>1, <1>2, <1>3, <1>4, <1>5 DEF Call, Send

LEMMA HistoryTypedNext ==
  ASSUME TypeOK, Next
  PROVE  HistoryOK'
<1> USE DEF history
<1>0. HistoryOK /\ EventsOK /\ {"hang", "ask", "limit", "error", "exit", "wake", "refuse", "freeze"} \subseteq Kind
  BY DEF TypeOK, HistoryOK, EventsOK, Kind
<1>1. CASE Counts /\ UNCHANGED <<told, lined, handed, answered>> /\
           (stops' = stops \/ \E x \in {"user", "watchdog", "limit"} : stops' = stops \cup {x})
  BY <1>0, <1>1, CountsTyped, RemembersTyped DEF Remembers
<1>2. CASE Read \/ Poll \/ InterruptSeen
  BY <1>1, <1>2 DEF Read, ReadContent, ReadAsk, ReadCancel, ReadLifecycle, ReadRefusal, ReadResult, Poll, InterruptSeen, Counts
<1>3. CASE TurnWatchdog \/ InterruptWatchdog
  BY <1>0, <1>1, <1>3 DEF TurnWatchdog, InterruptWatchdog, Counts
<1>4. CASE Cli \/ CliMay
  <2>1. Counts
    BY <1>0, <1>4 DEF Cli, CliMay, CliTakesMessage, CliTakesInterrupt, CliTakesAnswer, CliSpeaks, CliNext, CliEnds,
              CliAsks, CliWithdraws, CliWakes, CliExits, CliFreezes, Counts
  <2>2. UNCHANGED history
    BY <1>4 DEF Cli, CliMay, CliTakesMessage, CliTakesInterrupt, CliTakesAnswer, CliSpeaks, CliNext, CliEnds,
              CliAsks, CliWithdraws, CliWakes, CliExits, CliFreezes
  <2> QED
    BY <1>1, <2>1, <2>2
<1> QED
  BY <1>0, <1>2, <1>3, <1>4, RemembersAdvance, RemembersCall, RemembersTyped DEF Next

LEMMA TypesKept ==
  ASSUME TypeOK, Promises, Gone, Next
  PROVE  TypeOK'
BY StateTypedNext, ProcessTypedNext, CliTypedNext, HistoryTypedNext, TodoTypedNext DEF TypeOK

-----------------------------------------------------------------------------
(* The process and the account.                                            *)

LEMMA GoneKept ==
  ASSUME TypeOK, Promises, Gone, Next
  PROVE  Gone'
<1> USE DEF process, external
<1>1. CASE UNCHANGED <<exit, lease, slot>>
  BY <1>1 DEF Gone, Alive
<1>2. ASSUME NEW th \in Thread, Advance(th) PROVE Gone'
  <2>1. CASE Quiet1(th)
    <3>1. CASE release_account_runtime(th) \/ ReleaseChild(th)
      <4>1. Promise(Now(th)) /\ Now(th).op \in {"release", "release_child"}
        BY <3>1, HeadStep DEF release_account_runtime, ReleaseChild, At, Now
      <4>2. ~Alive'
        BY <3>1, <4>1 DEF release_account_runtime, ReleaseChild, Promise, Posthumous, Alive
      <4> QED
        BY <4>2 DEF Gone
    <3> QED
      BY <1>1, <2>1, <3>1 DEF Quiet1, Unclaim, Refuse, forget_delivery, Unflag, set_phase, apply_turn_event, ClearTurn,
                              apply_error_event, Progress, Preserve, CloseStdin
  <2>2. CASE Quiet2(th)
    <3>1. CASE Reap(th)
      BY <3>1 DEF Reap, Gone, Alive
    <3>2. CASE Kill(th)
      BY <3>2 DEF Kill, Gone, Alive
    <3> QED
      BY <1>1, <2>2, <3>1, <3>2 DEF Quiet2, Note, WriteInterrupt, emit_turn, discard_pending_approvals, Adopt, Clear, Judge
  <2>3. CASE Laden(th) \/ Wait(th)
    BY <1>1, <2>3 DEF Laden, Drain, OpenedTurn, WriteTurn, requeue_front, Deliver, WriteDelivery, WriteAnswer, Reinsert,
       cancel_pending_approvals, Respond, Wait
  <2> QED
    BY <1>2, <2>1, <2>2, <2>3, AdvanceSplit
<1>3. CASE Read \/ Poll \/ TurnWatchdog \/ InterruptWatchdog \/ InterruptSeen
  BY <1>1, <1>3 DEF Read, ReadContent, ReadAsk, ReadCancel, ReadLifecycle, ReadRefusal, ReadResult,
                    Poll, TurnWatchdog, InterruptWatchdog, InterruptSeen
<1>4. CASE CliExits \/ CliFreezes
  BY <1>4 DEF CliExits, CliFreezes, Gone, Alive
<1>5. CASE (Cli \/ CliMay) /\ ~CliExits /\ ~CliFreezes
  BY <1>1, <1>5 DEF Cli, CliMay, CliTakesMessage, CliTakesInterrupt, CliTakesAnswer, CliSpeaks, CliNext, CliEnds,
              CliAsks, CliWithdraws, CliWakes
<1>6. ASSUME NEW th \in Client, Call(th) PROVE Gone'
  BY <1>1, <1>6 DEF Call, Send, SendRefused, SendStart, SendDeliver, SendQueue, remove_queued, Approve, Interrupt, Stop
<1> QED
  BY <1>2, <1>3, <1>4, <1>5, <1>6 DEF Next

-----------------------------------------------------------------------------
(* Steps that move no message.                                             *)

\* A step that brings no message along, for which it would have to answer.
Unladen(step) ==
  /\ MsgsOf(step) = {} /\ ~HasMsg(step)
  /\ (Posthumous(step) => ~Alive') /\ (Stopping(step) => stops' # {})

\* No list has gained or lost a message; a list that has moved on had no message at its head.
SameHands ==
  \/ UNCHANGED todo
  \/ \E th \in Thread, steps \in Seq(Step) :
       /\ Takes(th, steps) /\ \A i \in DOMAIN steps : Unladen(steps[i])
       /\ todo[th] # << >> => MsgsOf(Now(th)) = {} /\ (Now(th).op = "unclaim" => s'.input = {})

\* What a message is remembered for can only be forgotten.
Mild ==
  /\ SameHands
  /\ \A m \in Msg : /\ told[m] # "unsent" => told'[m] # "unsent"
                    /\ told'[m] = "accepted" => told[m] = "accepted"
  /\ handed' = handed /\ stops \subseteq stops' /\ (Alive' => Alive) /\ events'.resent = events.resent
  /\ s.claims <= s'.claims
  /\ s'.queue = s.queue \/ (s'.queue = << >> /\ stops' # {})
  /\ s'.held = s.held \/ s'.held = << >>
  /\ s'.input \subseteq s.input /\ DOMAIN s'.delivered \subseteq DOMAIN s.delivered

LEMMA LightlySame ==
  ASSUME NEW th \in Thread, Lightly(th), todo[th] # << >> => (Now(th).op = "unclaim" => s'.input = {})
  PROVE  SameHands
<1>1. PICK steps : Harmless(steps) /\ Takes(th, steps) /\ (todo[th] # << >> => MsgsOf(Now(th)) = {})
  BY DEF Lightly
<1>2. steps \in Seq(Step) /\ \A i \in DOMAIN steps : Unladen(steps[i])
  BY <1>1 DEF Harmless, Light, Unladen
<1> QED
  BY <1>1, <1>2 DEF SameHands

\* In particular the lists carry the messages they carried.
LEMMA SameMessages ==
  ASSUME todo \in [Thread -> Seq(Step)], SameHands
  PROVE  \A o \in Thread : MsgsIn(todo'[o]) = MsgsIn(todo[o])
<1>1. CASE UNCHANGED todo
  BY <1>1
<1>2. CASE ~UNCHANGED todo
  <2>1. PICK th \in Thread, steps \in Seq(Step) :
          /\ Takes(th, steps) /\ \A i \in DOMAIN steps : Unladen(steps[i])
          /\ todo[th] # << >> => MsgsOf(Now(th)) = {}
    BY <1>2 DEF SameHands
  <2>2. Rest(th) \in Seq(Step) /\ todo'[th] = steps \o Rest(th) /\ \A o \in Thread \ {th} : todo'[o] = todo[o]
    BY <2>1, StepTaken
  <2>3. MsgsIn(steps) = {}
    BY <2>1 DEF Unladen, MsgsIn
  <2>4. MsgsIn(todo'[th]) = MsgsIn(Rest(th))
    <3>1. MsgsIn(steps \o Rest(th)) = MsgsIn(steps) \cup MsgsIn(Rest(th))
      BY <2>2, CarriedTogether
    <3> QED
      BY <2>2, <2>3, <3>1
  <2>5. MsgsIn(Rest(th)) = MsgsIn(todo[th])
    BY <2>1, RestOf
  <2> QED
    BY <2>2, <2>4, <2>5
<1> QED
  BY <1>1, <1>2

LEMMA EmptyRange == ToSet(<< >>) = {} /\ Texts(<< >>) = {} /\ IsInjective(<< >>)
BY DEF ToSet, Texts, IsInjective

LEMMA MildTexts ==
  ASSUME Mild
  PROVE  /\ Texts(s'.held) \subseteq Texts(s.held) /\ ToSet(s'.queue) \subseteq ToSet(s.queue)
         /\ IsInjective(s.queue) => IsInjective(s'.queue)
BY EmptyRange DEF Mild

LEMMA MildPromises ==
  ASSUME TypeOK, TypeOK', Mild, Promises
  PROVE  Promises'
<1>0. todo \in [Thread -> Seq(Step)] /\ s.claims \in Nat /\ s'.claims \in Nat
  BY DEF TypeOK, StateOK, RuntimeState
<1>1. ASSUME NEW x \in Step, Promise(x) PROVE Promise(x)'
  <2>1. (Posthumous(x) => ~Alive') /\ (Stopping(x) => stops' # {})
    BY <1>1 DEF Promise, Mild
  <2>2. HasMsg(x) => x.msg \in Msg /\ told'[x.msg] # "unsent"
    BY <1>1, StepFields DEF Promise, Mild
  <2>3. /\ x.op \in {"deliver", "write_delivery"} => told'[x.msg] # "accepted"
        /\ x.op \in {"open_turn", "write_turn"} => (~x.back => told'[x.msg] # "accepted")
    BY <1>1, <2>2 DEF Promise, Mild, HasMsg
  <2>4. x.op \in {"open_turn", "write_turn"} => x.turn \in 1 .. s'.claims
    <3>1. 1 .. s.claims \subseteq 1 .. s'.claims
      BY <1>0 DEF Mild
    <3> QED
      BY <1>1, <3>1 DEF Promise
  <2>5. x.op = "deliver" => x.msg \notin s'.input \cup Texts(s'.held)
    BY <1>1, MildTexts DEF Promise, Mild
  <2>6. x.op \in {"open_turn", "write_turn", "deliver", "requeue"} => x.msg \notin DOMAIN s'.delivered
    BY <1>1 DEF Promise, Mild
  <2> QED
    BY <2>1, <2>2, <2>3, <2>4, <2>5, <2>6 DEF Promise, Posthumous, Stopping
<1>2. CASE UNCHANGED todo
  BY <1>0, <1>1, <1>2 DEF Promises
<1>3. CASE ~UNCHANGED todo
  <2>1. PICK th \in Thread, steps \in Seq(Step) : Takes(th, steps) /\ \A i \in DOMAIN steps : Unladen(steps[i])
    BY <1>3 DEF Mild, SameHands
  <2>2. \A j \in DOMAIN steps : Promise(steps[j])'
    <3> TAKE j \in DOMAIN steps
    <3>1. PICK x : x = steps[j]
      OBVIOUS
    <3>2. Unladen(x)
      BY <2>1, <3>1
    <3>3. Promise(x)'
      BY <3>2 DEF Unladen, Promise, HasMsg
    <3> QED
      BY <3>1, <3>3
  <2> QED
    BY <1>0, <1>1, <2>1, <2>2, PromisesKept
<1> QED
  BY <1>2, <1>3

LEMMA MildMessages ==
  ASSUME TypeOK, Mild, MessagesApart
  PROVE  MessagesApart'
<1>0. todo \in [Thread -> Seq(Step)]
  BY DEF TypeOK
<1>1. \A o \in Thread : MsgsIn(todo'[o]) = MsgsIn(todo[o])
  BY <1>0, SameMessages DEF Mild
<1>2. handed' = handed /\ Sent \subseteq Sent'
  BY DEF Mild, Sent
<1>3. s'.input \subseteq s.input /\ DOMAIN s'.delivered \subseteq DOMAIN s.delivered
  BY DEF Mild
<1> QED
  BY <1>1, <1>2, <1>3, MildTexts DEF MessagesApart

LEMMA MildResume ==
  ASSUME TypeOK, Mild, ResumeApart
  PROVE  ResumeApart'
<1>1. s'.input \subseteq s.input /\ DOMAIN s'.delivered \subseteq DOMAIN s.delivered /\ events'.resent = events.resent
  BY DEF Mild
<1>2. (\A i, j \in DOMAIN s.held : i # j => s.held[i].text \cap s.held[j].text = {}) =>
      (\A i, j \in DOMAIN s'.held : i # j => s'.held[i].text \cap s'.held[j].text = {})
  BY DEF Mild
<1> QED
  BY <1>1, <1>2, MildTexts DEF ResumeApart

LEMMA MildUndone ==
  ASSUME TypeOK, Mild, Undone
  PROVE  Undone'
<1>0. todo \in [Thread -> Seq(Step)] /\ s'.input \subseteq s.input
  BY DEF TypeOK, Mild
<1>1. CASE UNCHANGED todo
  BY <1>0, <1>1 DEF Undone, At
<1>2. CASE ~UNCHANGED todo
  <2>1. PICK th \in Thread, steps \in Seq(Step) :
          /\ Takes(th, steps) /\ \A i \in DOMAIN steps : Unladen(steps[i])
          /\ todo[th] # << >> => (Now(th).op = "unclaim" => s'.input = {})
    BY <1>2 DEF Mild, SameHands
  <2> SUFFICES ASSUME NEW o \in Thread, NEW i \in DOMAIN todo'[o],
                      todo'[o][i].op = "requeue", todo'[o][i].msg \in s'.input
               PROVE  At(o, "unclaim")'
    BY DEF Undone
  <2>2. CASE o # th
    <3>1. todo'[o] = todo[o]
      BY <1>0, <2>1, <2>2, StepTaken
    <3> QED
      BY <1>0, <3>1 DEF Undone, At
  <2>3. CASE o = th
    <3>1. ~\E j \in DOMAIN steps : todo'[o][i] = steps[j]
      BY <2>1 DEF Unladen, HasMsg
    <3>2. PICK j \in DOMAIN todo[th] : todo'[th][i] = todo[th][j]
      BY <1>0, <2>1, <2>3, <3>1, WhereFrom
    <3>3. At(th, "unclaim")
      BY <1>0, <2>3, <3>2 DEF Undone
    <3> QED
      BY <2>1, <3>3 DEF At, Now
  <2> QED
    BY <2>2, <2>3
<1> QED
  BY <1>1, <1>2

LEMMA MildHere ==
  ASSUME TypeOK, Mild, Here
  PROVE  Here'
<1>0. todo \in [Thread -> Seq(Step)]
  BY DEF TypeOK
<1>1. \A o \in Thread : MsgsIn(todo'[o]) = MsgsIn(todo[o])
  BY <1>0, SameMessages DEF Mild
<1> SUFFICES ASSUME stops' = {}, NEW m \in Msg, told'[m] = "accepted"
             PROVE  (m \in ToSet(s.queue) \cup ToSet(handed) \/ \E th \in Thread : m \in MsgsIn(todo[th]))'
  BY DEF Here
<1>2. stops = {} /\ told[m] = "accepted" /\ s'.queue = s.queue /\ handed' = handed
  BY DEF Mild
<1> QED
  BY <1>1, <1>2 DEF Here

\* The part of Mild that is not about threads and the runtime's state.
MildHistory ==
  /\ \A m \in Msg : /\ told[m] # "unsent" => told'[m] # "unsent"
                    /\ told'[m] = "accepted" => told[m] = "accepted"
  /\ handed' = handed /\ stops \subseteq stops' /\ (Alive' => Alive) /\ events'.resent = events.resent

MildState ==
  /\ s.claims <= s'.claims
  /\ s'.queue = s.queue \/ (s'.queue = << >> /\ stops' # {})
  /\ s'.held = s.held \/ s'.held = << >>
  /\ s'.input \subseteq s.input /\ DOMAIN s'.delivered \subseteq DOMAIN s.delivered

LEMMA MildParts == SameHands /\ MildHistory /\ MildState => Mild
BY DEF Mild, MildHistory, MildState

LEMMA MildFrame ==
  /\ TypeOK /\ UNCHANGED s => MildState
  /\ TypeOK /\ UNCHANGED <<told, handed, exit>> /\ Counts /\ stops \subseteq stops' => MildHistory
<1>1. ASSUME TypeOK, UNCHANGED s PROVE MildState
  BY <1>1 DEF MildState, TypeOK, StateOK, RuntimeState
<1>2. ASSUME TypeOK, UNCHANGED <<told, handed, exit>>, Counts, stops \subseteq stops' PROVE MildHistory
  <2>1. events'.resent = events.resent
    BY <1>2, CountsTyped DEF TypeOK, HistoryOK, EventsOK
  <2> QED
    BY <1>2, <2>1 DEF MildHistory, Alive
<1> QED
  BY <1>1, <1>2

LEMMA WithoutSmaller == \A d, S : DOMAIN Without(d, S) \subseteq DOMAIN d
BY DEF Without, Restrict

\* The fields that matter here.
Fields == <<s.claims, s.queue, s.held>>

LEMMA MildFields ==
  /\ TypeOK /\ UNCHANGED Fields /\ s'.input \subseteq s.input /\ DOMAIN s'.delivered \subseteq DOMAIN s.delivered => MildState
  /\ TypeOK /\ UNCHANGED Fields /\ s'.input \subseteq s.input /\ s'.delivered = s.delivered => MildState
<1>1. TypeOK => s.claims \in Nat
  BY DEF TypeOK, StateOK, RuntimeState
<1> QED
  BY <1>1 DEF MildState, Fields

LEMMA MildQuiet1 ==
  ASSUME TypeOK, Promises, NEW th \in Thread, Quiet1(th), ~apply_error_event(th), ~Preserve(th)
  PROVE  Mild
<1> USE DEF history, external
<1>0. s \in RuntimeState /\ s.claims \in Nat /\ s.delivered \in Deliveries
  BY DEF TypeOK, StateOK, RuntimeState
<1>1. Unclaim(th) => s'.input = {}
  BY <1>0 DEF Unclaim, RuntimeState
<1>2. SameHands
  <2>1. todo[th] # << >> => (Now(th).op = "unclaim" => s'.input = {})
    BY <1>1 DEF Quiet1, Refuse, forget_delivery, Unflag, set_phase, apply_turn_event, ClearTurn,
                Progress, CloseStdin, release_account_runtime, ReleaseChild, At, Now
  <2> QED
    BY <2>1, Quiet1Lightly, LightlySame
<1>3. MildHistory
  <2>1. CASE Refuse(th)
    <3>1. events'.resent = events.resent /\ UNCHANGED <<handed, exit, stops>> /\ told' = [told EXCEPT ![Now(th).msg] = "refused"]
      BY <2>1 DEF Refuse
    <3>2. told \in [Msg -> Told]
      BY DEF TypeOK, HistoryOK, Told
    <3>3. \A m \in Msg : told'[m] = told[m] \/ told'[m] = "refused"
      BY <3>1, <3>2
    <3> QED
      BY <3>1, <3>3 DEF MildHistory, Alive
  <2>2. CASE ~Refuse(th)
    <3>1. UNCHANGED <<told, handed, exit, stops, events>>
      BY <2>2 DEF Quiet1, Unclaim, forget_delivery, Unflag, set_phase, apply_turn_event, ClearTurn,
                Progress, CloseStdin, release_account_runtime, ReleaseChild
    <3> QED
      BY <3>1, MildFrame DEF Counts
  <2> QED
    BY <2>1, <2>2
<1>4. MildState
  <2>1. CASE UNCHANGED s
    BY <2>1, MildFrame
  <2>2. CASE forget_delivery(th)
    <3>1. DOMAIN Without(s.delivered, {Now(th).msg}) \subseteq DOMAIN s.delivered
      BY WithoutSmaller
    <3>2. s' = [s EXCEPT !.delivered = Without(s.delivered, {Now(th).msg})]
      BY <2>2 DEF forget_delivery
    <3>3. UNCHANGED Fields /\ s'.input \subseteq s.input /\ s'.delivered = Without(s.delivered, {Now(th).msg})
      BY <1>0, <3>2 DEF Fields, RuntimeState
    <3> QED
      BY <3>1, <3>3, MildFields
  <2>3. CASE Unclaim(th)
    <3>1. UNCHANGED Fields /\ s'.input \subseteq s.input /\ s'.delivered = s.delivered
      BY <1>0, <2>3 DEF Unclaim, Fields, RuntimeState
    <3> QED
      BY <3>1, MildFields
  <2>3a. CASE Unflag(th)
    <3>1. UNCHANGED Fields /\ s'.input \subseteq s.input /\ s'.delivered = s.delivered
      BY <1>0, <2>3a DEF Unflag, Fields, RuntimeState
    <3> QED
      BY <3>1, MildFields
  <2>3b. CASE ClearTurn(th)
    <3>1. UNCHANGED Fields /\ s'.input \subseteq s.input /\ s'.delivered = s.delivered
      BY <1>0, <2>3b DEF ClearTurn, Fields, RuntimeState
    <3> QED
      BY <3>1, MildFields
  <2>4. CASE set_phase(th)
    <3>1. UNCHANGED Fields /\ s'.input \subseteq s.input /\ s'.delivered = s.delivered
      BY <1>0, <2>4 DEF set_phase, Fields, RuntimeState
    <3> QED
      BY <3>1, MildFields
  <2>5. CASE apply_turn_event(th)
    <3>1. s' = [s EXCEPT !.held = << >>] \/ s' = [s EXCEPT !.held = @]
      BY <2>5 DEF apply_turn_event
    <3> QED
      BY <1>0, <3>1 DEF MildState, RuntimeState
  <2> QED
    BY <2>1, <2>2, <2>3, <2>3a, <2>3b, <2>4, <2>5 DEF Quiet1, Refuse, Progress, CloseStdin, release_account_runtime, ReleaseChild
<1> QED
  BY <1>2, <1>3, <1>4, MildParts

LEMMA MildQuiet2 ==
  ASSUME TypeOK, Promises, Gone, NEW th \in Thread, Quiet2(th), ~Adopt(th)
  PROVE  Mild
<1> USE DEF history, external
<1>0. s \in RuntimeState /\ s.claims \in Nat
  BY DEF TypeOK, StateOK, RuntimeState
<1>2. SameHands
  <2>1. ~(Now(th).op = "unclaim")
    BY DEF Quiet2, Note, WriteInterrupt, Writing, emit_turn, discard_pending_approvals, Kill, Reap, Clear, Judge, At, Now
  <2> QED
    BY <2>1, Quiet2Lightly, LightlySame
<1>3. MildHistory
  <2>1. CASE Reap(th)
    <3>1. Counts /\ UNCHANGED <<told, handed, stops>> /\ (Alive' => Alive)
      BY <2>1 DEF Reap, Counts, Kind, Alive
    <3>2. events'.resent = events.resent
      BY <3>1, CountsTyped DEF TypeOK, HistoryOK, EventsOK
    <3> QED
      BY <3>1, <3>2 DEF MildHistory
  <2>2. CASE ~Reap(th)
    <3>1. UNCHANGED <<told, handed, exit, stops, events>>
      BY <2>2 DEF Quiet2, Note, WriteInterrupt, emit_turn, discard_pending_approvals, Kill, Clear, Judge
    <3> QED
      BY <3>1, MildFrame DEF Counts
  <2> QED
    BY <2>1, <2>2
<1>4. MildState
  <2>1. CASE UNCHANGED s
    BY <2>1, MildFrame
  <2>2. CASE Note(th) \/ discard_pending_approvals(th) \/ Judge(th)
    BY <1>0, <2>2 DEF Note, discard_pending_approvals, Judge, MildState, RuntimeState
  <2>3. CASE Clear(th)
    <3>1. stops' # {}
      BY <2>3, HeadStep DEF Clear, At, Now, Promise, Stopping
    <3> QED
      BY <1>0, <2>3, <3>1, NoDelivery DEF Clear, MildState, RuntimeState
  <2> QED
    BY <2>1, <2>2, <2>3 DEF Quiet2, WriteInterrupt, emit_turn, Kill, Reap
<1> QED
  BY <1>2, <1>3, <1>4, MildParts

\* Steps about requests are none about messages.
LEMMA UnladenSteps ==
  /\ \A steps : Harmless(steps) => \A i \in DOMAIN steps : Unladen(steps[i])
  /\ \A a \in Ask, d \in Decision : Unladen([op |-> "answer", ask |-> a, decision |-> d])
  /\ \A a \in Ask : Unladen([op |-> "reinsert", ask |-> a])
  /\ \A A \in SUBSET Ask : \A i \in DOMAIN Responses(A) : Unladen(Responses(A)[i])
<1> USE DEF Unladen, MsgsOf, HasMsg, Posthumous, Stopping
<1>1. ASSUME NEW steps, Harmless(steps) PROVE \A i \in DOMAIN steps : Unladen(steps[i])
  BY <1>1 DEF Harmless, Light
<1>2. ASSUME NEW A \in SUBSET Ask PROVE \A i \in DOMAIN Responses(A) : Unladen(Responses(A)[i])
  <2>1. CASE A = {}
    BY <2>1 DEF Responses
  <2>2. CASE A # {}
    BY <2>2 DEF Responses
  <2> QED
    BY <2>1, <2>2
<1> QED
  BY <1>1, <1>2

LEMMA UnladenOne == \A x : Unladen(x) => \A i \in DOMAIN <<x>> : Unladen(<<x>>[i])
OBVIOUS

LEMMA MildAsks ==
  ASSUME TypeOK, NEW th \in Thread,
         \/ WriteAnswer(th) \/ Reinsert(th) \/ cancel_pending_approvals(th) \/ Respond(th)
         \/ \E a \in Ask, d \in Decision : Approve(th, a, d)
  PROVE  Mild
<1> USE DEF history, external
<1>0. s \in RuntimeState /\ s.claims \in Nat /\ s.approvals \in SUBSET Ask
  BY DEF TypeOK, StateOK, RuntimeState
<1>1. MildHistory
  <2>1. UNCHANGED <<told, handed, exit, stops, events>>
    BY DEF WriteAnswer, Reinsert, cancel_pending_approvals, Respond, Approve
  <2> QED
    BY <2>1, MildFrame DEF Counts
<1>2. MildState
  <2>1. CASE UNCHANGED s
    BY <2>1, MildFrame
  <2>2. CASE \E A : s' = [s EXCEPT !.approvals = A]
    BY <1>0, <2>2 DEF MildState, RuntimeState
  <2> QED
    BY <2>1, <2>2 DEF WriteAnswer, Reinsert, cancel_pending_approvals, Respond, Approve
<1>3. CASE \E a \in Ask, d \in Decision : Approve(th, a, d)
  <2>1. PICK a \in Ask, d \in Decision : Approve(th, a, d)
    BY <1>3
  <2>2. \E steps \in Seq(Step) : Begin(th, steps) /\ \A i \in DOMAIN steps : Unladen(steps[i])
    <3>1. CASE d = "acceptAll"
      <4>1. <<[op |-> "reinsert", ask |-> a]>> \in Seq(Step) /\ Unladen([op |-> "reinsert", ask |-> a])
        BY StepsTyped, UnladenSteps
      <4>2. Begin(th, <<[op |-> "reinsert", ask |-> a]>>)
        BY <2>1, <3>1 DEF Approve
      <4> QED
        BY <4>1, <4>2, UnladenOne
    <3>2. CASE d # "acceptAll"
      <4>1. /\ <<[op |-> "answer", ask |-> a, decision |-> d]>> \in Seq(Step)
            /\ Unladen([op |-> "answer", ask |-> a, decision |-> d])
        BY StepsTyped, UnladenSteps
      <4>2. Begin(th, <<[op |-> "answer", ask |-> a, decision |-> d]>>)
        BY <2>1, <3>2 DEF Approve
      <4> QED
        BY <4>1, <4>2, UnladenOne
    <3> QED
      BY <3>1, <3>2
  <2>3. SameHands
    BY <2>2 DEF SameHands, Takes, Begin
  <2> QED
    BY <1>1, <1>2, <2>3, MildParts
<1>4. ASSUME todo[th] # << >>, Now(th).op \in {"answer", "reinsert", "cancel", "respond"},
             \E steps \in Seq(Step) : Then(th, steps) /\ \A i \in DOMAIN steps : Unladen(steps[i])
      PROVE  Mild
  <2>1. MsgsOf(Now(th)) = {} /\ Now(th).op # "unclaim"
    BY <1>4 DEF MsgsOf
  <2>2. SameHands
    BY <1>4, <2>1 DEF SameHands, Takes
  <2> QED
    BY <1>1, <1>2, <2>2, MildParts
<1>5. << >> \in Seq(Step)
  OBVIOUS
<1>6. CASE WriteAnswer(th)
  <2>1. todo[th] # << >> /\ Now(th).op = "answer"
    BY <1>6 DEF WriteAnswer, Writing, At, Now
  <2>2. Now(th).ask \in Ask /\ Now(th).decision \in Decision
    BY <2>1, HeadStep, StepFields
  <2>3. Harmless(<<[op |-> "note", decision |-> Now(th).decision]>>)
    BY <2>2, HarmlessSteps
  <2>4. /\ <<[op |-> "note", decision |-> Now(th).decision]>> \in Seq(Step)
        /\ \A i \in DOMAIN <<[op |-> "note", decision |-> Now(th).decision]>> :
             Unladen(<<[op |-> "note", decision |-> Now(th).decision]>>[i])
    BY <2>3, UnladenSteps DEF Harmless
  <2>5. <<[op |-> "reinsert", ask |-> Now(th).ask]>> \in Seq(Step) /\ Unladen([op |-> "reinsert", ask |-> Now(th).ask])
    BY <2>2, StepsTyped, UnladenSteps
  <2>6. CASE CanWrite
    <3>1. Then(th, <<[op |-> "note", decision |-> Now(th).decision]>>)
      BY <1>6, <2>6 DEF WriteAnswer
    <3> QED
      BY <1>4, <2>1, <2>4, <3>1
  <2>7. CASE ~CanWrite
    <3>1. Then(th, <<[op |-> "reinsert", ask |-> Now(th).ask]>>)
      BY <1>6, <2>7 DEF WriteAnswer
    <3> QED
      BY <1>4, <2>1, <2>5, <3>1, UnladenOne
  <2> QED
    BY <2>6, <2>7
<1>7. CASE Reinsert(th)
  <2>1. todo[th] # << >> /\ Now(th).op = "reinsert" /\ Then(th, << >>) /\ \A i \in DOMAIN << >> : Unladen(<< >>[i])
    BY <1>7 DEF Reinsert, At, Now
  <2> QED
    BY <1>4, <1>5, <2>1
<1>8. CASE cancel_pending_approvals(th)
  <2>1. Responses(s.approvals) \in Seq(Step) /\ \A i \in DOMAIN Responses(s.approvals) : Unladen(Responses(s.approvals)[i])
    BY <1>0, StepsTyped, UnladenSteps
  <2> QED
    BY <1>4, <1>8, <2>1 DEF cancel_pending_approvals, At, Now
<1>9. CASE Respond(th)
  <2>1. todo[th] # << >> /\ Now(th).op = "respond"
    BY <1>9 DEF Respond, Writing, At, Now
  <2>2. PICK a : Then(th, Do("progress") \o Responses(Now(th).asks \ {a}))
    BY <1>9 DEF Respond
  <2> DEFINE first == Do("progress")
             rest == Responses(Now(th).asks \ {a})
  <2>3. /\ first \in Seq(Step) /\ \A i \in DOMAIN first : Unladen(first[i])
        /\ rest \in Seq(Step) /\ \A i \in DOMAIN rest : Unladen(rest[i])
    <3>1. Harmless(first)
      BY HarmlessSteps DEF LightOp
    <3>2. Now(th).asks \ {a} \in SUBSET Ask
      BY <2>1, HeadStep, StepFields
    <3> QED
      BY <3>1, <3>2, UnladenSteps, StepsTyped DEF Harmless
  <2>4. Then(th, first \o rest)
    BY <2>2
  <2> HIDE DEF first, rest
  <2>5. first \o rest \in Seq(Step) /\ \A i \in DOMAIN (first \o rest) : Unladen((first \o rest)[i])
    BY <2>3, Concatenated
  <2> QED
    BY <1>4, <2>1, <2>4, <2>5
<1> QED
  BY <1>3, <1>6, <1>7, <1>8, <1>9

LEMMA MildCalls ==
  ASSUME TypeOK, NEW th \in Client, Interrupt(th) \/ Stop(th) \/ \E m \in Msg : SendRefused(th, m)
  PROVE  Mild
<1> USE DEF history, external
<1>0. s \in RuntimeState /\ s.claims \in Nat /\ th \in Thread /\ {"interrupt", "stop"} \subseteq Kind
  BY Threads DEF TypeOK, StateOK, RuntimeState, Kind
<1>1. CASE Interrupt(th)
  <2>1. SameHands
    BY <1>0, <1>1, CallsLightly, LightlySame DEF Interrupt, Begin
  <2>2. MildHistory
    BY <1>0, <1>1, MildFrame DEF Interrupt, Counts
  <2>3. MildState
    BY <1>0, <1>1, NoDelivery DEF Interrupt, MildState, RuntimeState
  <2> QED
    BY <2>1, <2>2, <2>3, MildParts
<1>2. CASE Stop(th)
  <2>1. SameHands
    BY <1>0, <1>2, CallsLightly, LightlySame DEF Stop, Begin
  <2>2. MildHistory /\ MildState
    BY <1>0, <1>2, MildFrame DEF Stop, Counts
  <2> QED
    BY <2>1, <2>2, MildParts
<1>3. ASSUME NEW m \in Msg, SendRefused(th, m) PROVE Mild
  <2>1. SameHands /\ MildState
    BY <1>3, MildFrame DEF SendRefused, SameHands
  <2>2. told' = [told EXCEPT ![m] = "refused"] /\ UNCHANGED <<handed, exit, stops, events>> /\ told \in [Msg -> Told]
    BY <1>3 DEF SendRefused, TypeOK, HistoryOK, Told
  <2>3. \A x \in Msg : told'[x] = told[x] \/ told'[x] = "refused"
    BY <2>2
  <2>4. MildHistory
    BY <2>2, <2>3 DEF MildHistory, Alive
  <2> QED
    BY <2>1, <2>4, MildParts
<1> QED
  BY <1>1, <1>2, <1>3

LEMMA MildRest ==
  ASSUME TypeOK,
         \/ Read \/ Poll \/ TurnWatchdog \/ InterruptWatchdog \/ InterruptSeen \/ Cli \/ CliMay
         \/ \E th \in Thread : Wait(th)
  PROVE  Mild
<1> USE DEF history, external
<1>0. s \in RuntimeState /\ s.claims \in Nat /\ s.delivered \in Deliveries /\ Reader \in Thread
  BY Threads DEF TypeOK, StateOK, RuntimeState
<1>1. CASE Read
  <2>1. MildHistory
    <3>1. UNCHANGED <<told, handed, exit, events>> /\ stops \subseteq stops'
      BY <1>1 DEF Read, ReadContent, ReadAsk, ReadCancel, ReadLifecycle, ReadRefusal, ReadResult
    <3> QED
      BY <3>1, MildFrame DEF Counts
  <2>2. SameHands
    <3>1. CASE ReadContent \/ ReadAsk \/ ReadRefusal \/ ReadResult
      BY <1>0, <3>1, ReadsLightly, LightlySame DEF ReadContent, ReadAsk, ReadRefusal, ReadResult, Frame
    <3>2. CASE ReadCancel
      <4>1. todo[Reader] = << >>
        BY <3>2 DEF ReadCancel, Frame
      <4>2. CASE UNCHANGED todo
        BY <4>2 DEF SameHands
      <4>3. CASE Lightly(Reader)
        BY <1>0, <4>1, <4>3, LightlySame
      <4> QED
        BY <3>2, <4>2, <4>3, CancelLightly
    <3>3. CASE ReadLifecycle
      BY <3>3 DEF ReadLifecycle, SameHands
    <3> QED
      BY <1>1, <3>1, <3>2, <3>3 DEF Read
  <2>3. MildState
    <3>1. CASE UNCHANGED s
      BY <3>1, MildFrame
    <3>2. CASE ReadContent /\ ~UNCHANGED s
      <4>1. s' = claim_turn(s, {})
        BY <3>2 DEF ReadContent
      <4>2. s' = [s EXCEPT !.phase = "running", !.claims = s.claims + 1, !.turn = s.claims + 1, !.input = {}]
        BY <4>1 DEF claim_turn
      <4> QED
        BY <1>0, <4>2 DEF MildState, RuntimeState
    <3>3. CASE ReadAsk
      <4>1. UNCHANGED Fields /\ s'.input \subseteq s.input /\ s'.delivered = s.delivered
        BY <1>0, <3>3 DEF ReadAsk, Fields, RuntimeState
      <4> QED
        BY <4>1, MildFields
    <3>3a. CASE ReadRefusal \/ ReadResult
      <4>1. UNCHANGED Fields /\ s'.input \subseteq s.input /\ s'.delivered = s.delivered
        BY <1>0, <3>3a DEF ReadRefusal, ReadResult, Fields, RuntimeState
      <4> QED
        BY <4>1, MildFields
    <3>4. CASE ReadCancel /\ ~UNCHANGED s
      <4>1. UNCHANGED Fields /\ s'.input \subseteq s.input /\ s'.delivered = s.delivered
        BY <1>0, <3>4 DEF ReadCancel, Fields, RuntimeState
      <4> QED
        BY <4>1, MildFields
    <3>5. CASE ReadLifecycle
      <4> DEFINE m == Head(outbox).msg
                 state == Head(outbox).state
      <4>1. state \in {"queued", "started", "cancelled"}
        BY <3>5, OutputFields DEF ReadLifecycle, Frame
      <4>2. CASE state = "cancelled"
        <5>1. s' = [s EXCEPT !.delivered = Without(s.delivered, {m})]
          BY <3>5, <4>2 DEF ReadLifecycle
        <5>2. DOMAIN Without(s.delivered, {m}) \subseteq DOMAIN s.delivered
          BY WithoutSmaller
        <5>3. UNCHANGED Fields /\ s'.input \subseteq s.input /\ s'.delivered = Without(s.delivered, {m})
          BY <1>0, <5>1 DEF Fields, RuntimeState
        <5> QED
          BY <5>2, <5>3, MildFields
      <4>3. CASE state # "cancelled" /\ m \in DOMAIN s.delivered /\ s.delivered[m] # "started"
        <5>1. s' = [s EXCEPT !.delivered = [s.delivered EXCEPT ![m] = state]]
          BY <3>5, <4>3 DEF ReadLifecycle
        <5>2. DOMAIN [s.delivered EXCEPT ![m] = state] = DOMAIN s.delivered
          BY <1>0, <4>1, <4>3, DeliveriesTyped
        <5> HIDE DEF m, state
        <5>3. UNCHANGED Fields /\ s'.input \subseteq s.input /\ s'.delivered = [s.delivered EXCEPT ![m] = state]
          BY <1>0, <5>1 DEF Fields, RuntimeState
        <5> QED
          BY <5>2, <5>3, MildFields
      <4> QED
        BY <3>1, <3>5, <4>2, <4>3 DEF ReadLifecycle
    <3> QED
      BY <1>1, <3>1, <3>2, <3>3, <3>3a, <3>4, <3>5 DEF Read
  <2> QED
    BY <2>1, <2>2, <2>3, MildParts
<1>2. CASE Poll \/ TurnWatchdog \/ InterruptWatchdog \/ InterruptSeen
  <2>1. MildHistory
    <3>1. Counts /\ UNCHANGED <<told, handed, exit>> /\ stops \subseteq stops'
      BY <1>2 DEF Poll, TurnWatchdog, InterruptWatchdog, InterruptSeen, Counts, Kind
    <3> QED
      BY <3>1, MildFrame
  <2>2. MildState
    BY <1>2, MildFrame DEF Poll, TurnWatchdog, InterruptWatchdog, InterruptSeen
  <2>3. SameHands
    <3>1. CASE InterruptSeen
      BY <3>1 DEF InterruptSeen, SameHands
    <3>2. CASE Poll
      BY <3>2, Threads, WatchLightly, LightlySame DEF Poll, Begin
    <3>3. CASE TurnWatchdog \/ InterruptWatchdog
      BY <3>3, Threads, WatchLightly, LightlySame DEF TurnWatchdog, InterruptWatchdog, Begin
    <3> QED
      BY <1>2, <3>1, <3>2, <3>3
  <2> QED
    BY <2>1, <2>2, <2>3, MildParts
<1>3. CASE Cli \/ CliMay
  <2>1. UNCHANGED <<s, todo, told, handed, stops>>
    BY <1>3 DEF Cli, CliMay, CliTakesMessage, CliTakesInterrupt, CliTakesAnswer, CliSpeaks, CliNext, CliEnds,
              CliAsks, CliWithdraws, CliWakes, CliExits, CliFreezes
  <2>2. Counts
    BY <1>3 DEF Cli, CliMay, CliTakesMessage, CliTakesInterrupt, CliTakesAnswer, CliSpeaks, CliNext, CliEnds,
              CliAsks, CliWithdraws, CliWakes, CliExits, CliFreezes, Counts, Kind
  <2>3. Alive' => Alive
    BY <1>3 DEF Cli, CliMay, CliTakesMessage, CliTakesInterrupt, CliTakesAnswer, CliSpeaks, CliNext, CliEnds,
              CliAsks, CliWithdraws, CliWakes, CliExits, CliFreezes, Alive
  <2>4. MildHistory
    <3>1. events'.resent = events.resent
      BY <2>2, CountsTyped DEF TypeOK, HistoryOK, EventsOK
    <3> QED
      BY <2>1, <2>3, <3>1 DEF MildHistory
  <2> QED
    BY <2>1, <2>4, MildFrame, MildParts DEF SameHands
<1>4. ASSUME NEW th \in Thread, Wait(th) PROVE Mild
  <2>1. UNCHANGED <<s, todo, told, handed, stops, exit, events>>
    BY <1>4 DEF Wait
  <2> QED
    BY <2>1, MildFrame, MildParts DEF SameHands, Counts
<1> QED
  BY <1>1, <1>2, <1>3, <1>4

\* The steps that do move messages.
Carries(th) ==
  \/ Drain(th) \/ OpenedTurn(th) \/ WriteTurn(th) \/ requeue_front(th) \/ Deliver(th) \/ WriteDelivery(th)
  \/ apply_error_event(th) \/ Preserve(th) \/ Adopt(th)
Brings(th) ==
  \/ \E m \in Msg : SendStart(th, m) \/ SendDeliver(th, m) \/ SendQueue(th, m)
  \/ \E i \in DOMAIN s.queue : remove_queued(th, i)

LEMMA MildOrNot ==
  ASSUME TypeOK, Promises, Gone, Next
  PROVE  Mild \/ (\E th \in Thread : Carries(th)) \/ (\E th \in Client : Brings(th))
<1>1. ASSUME NEW th \in Thread, Advance(th) PROVE Mild \/ Carries(th)
  BY <1>1, AdvanceSplit, MildQuiet1, MildQuiet2, MildAsks, MildRest DEF Laden, Carries
<1>2. ASSUME NEW th \in Client, Call(th) PROVE Mild \/ Brings(th)
  BY <1>2, Threads, MildAsks, MildCalls DEF Call, Send, Brings
<1> QED
  BY <1>1, <1>2, MildRest DEF Next

-----------------------------------------------------------------------------
(* Steps that move a message.                                              *)

\* Nobody has a message that was never sent.
LEMMA Unheard ==
  ASSUME TypeOK, Promises, MessagesApart, NEW m \in Msg, told[m] = "unsent"
  PROVE  /\ \A o \in Thread : m \notin MsgsIn(todo[o])
         /\ \A o \in Thread : \A i \in DOMAIN todo[o] : HasMsg(todo[o][i]) => todo[o][i].msg # m
         /\ m \notin ToSet(s.queue) \cup ToSet(handed) \cup s.input \cup Texts(s.held) \cup DOMAIN s.delivered
<1>1. \A o \in Thread : \A i \in DOMAIN todo[o] : HasMsg(todo[o][i]) => todo[o][i].msg # m
  BY DEF Promises, Promise
<1>2. \A o \in Thread : m \notin MsgsIn(todo[o])
  BY <1>1 DEF MsgsIn, MsgsOf, HasMsg
<1>3. m \notin Sent
  BY DEF Sent
<1> QED
  BY <1>1, <1>2, <1>3 DEF MessagesApart

\* A thread that is about to use a message is the only one that has it.
LEMMA InHand ==
  ASSUME TypeOK, MessageInv, NEW th \in Thread, todo[th] # << >>,
         Now(th).op \in {"open_turn", "write_turn", "deliver", "write_delivery", "requeue"}
  PROVE  /\ Now(th).msg \in Msg /\ Promise(Now(th)) /\ told[Now(th).msg] # "unsent"
         /\ MsgsIn(todo[th]) = {Now(th).msg} \cup MsgsIn(Rest(th)) /\ Now(th).msg \notin MsgsIn(Rest(th))
         /\ \A o \in Thread \ {th} : Now(th).msg \notin MsgsIn(todo[o])
         /\ Now(th).msg \notin ToSet(s.queue) \cup ToSet(handed)
         /\ \A o \in Thread : \A j \in DOMAIN todo[o] : (o = th => j # 1) => Now(th).msg \notin MsgsOf(todo[o][j])
<1> DEFINE m == Now(th).msg
<1>0. todo \in [Thread -> Seq(Step)]
  BY DEF TypeOK
<1>1. Promise(Now(th)) /\ Now(th) \in Step
  BY HeadStep DEF MessageInv
<1>2. m \in Msg /\ told[m] # "unsent" /\ MsgsOf(Now(th)) = {m}
  BY <1>1, StepFields DEF Promise, HasMsg, MsgsOf
<1>3. MsgsIn(todo[th]) = {m} \cup MsgsIn(Rest(th)) /\ m \notin MsgsIn(Rest(th))
  BY <1>0, <1>2, RestOf DEF MessageInv
<1>4. (\A o \in Thread \ {th} : m \notin MsgsIn(todo[o])) /\ m \notin ToSet(s.queue) \cup ToSet(handed)
  BY <1>3 DEF MessageInv, MessagesApart
<1> HIDE DEF m
<1>5. ASSUME NEW o \in Thread, NEW j \in DOMAIN todo[o], o = th => j # 1 PROVE m \notin MsgsOf(todo[o][j])
  <2>1. CASE o # th
    BY <1>4, <2>1 DEF MsgsIn
  <2>2. CASE o = th
    <3>1. Rest(th) = Tail(todo[th]) /\ todo[th] \in Seq(Step)
      BY <1>0 DEF Rest
    <3>2. j - 1 \in DOMAIN Rest(th) /\ todo[th][j] = Rest(th)[j - 1]
      BY <1>5, <2>2, <3>1, HeadAndTail
    <3> QED
      BY <1>3, <2>2, <3>2 DEF MsgsIn
  <2> QED
    BY <2>1, <2>2
<1> QED
  BY <1>1, <1>2, <1>3, <1>4, <1>5 DEF m

\* The lists after a thread has moved on.
LEMMA Moved ==
  ASSUME todo \in [Thread -> Seq(Step)], \A x \in Thread : Separate(todo[x]),
         NEW th \in Thread, NEW steps \in Seq(Step), Takes(th, steps), Separate(steps),
         MsgsIn(steps) \cap MsgsIn(Rest(th)) = {}, AsksIn(steps) \cap AsksIn(Rest(th)) = {}
  PROVE  /\ \A x \in Thread : Separate(todo'[x])
         /\ MsgsIn(todo'[th]) = MsgsIn(steps) \cup MsgsIn(Rest(th))
         /\ AsksIn(todo'[th]) = AsksIn(steps) \cup AsksIn(Rest(th))
         /\ \A o \in Thread \ {th} : todo'[o] = todo[o]
<1>1. Rest(th) \in Seq(Step) /\ todo'[th] = steps \o Rest(th) /\ \A o \in Thread \ {th} : todo'[o] = todo[o]
  BY StepTaken
<1>2. Separate(Rest(th))
  BY RestOf
<1>3. /\ Separate(steps \o Rest(th))
      /\ MsgsIn(steps \o Rest(th)) = MsgsIn(steps) \cup MsgsIn(Rest(th))
      /\ AsksIn(steps \o Rest(th)) = AsksIn(steps) \cup AsksIn(Rest(th))
  BY <1>1, <1>2, SeparateTogether, CarriedTogether
<1> QED
  BY <1>1, <1>3

\* Messages pass between the queue, one thread and the CLI, or are new (X).
LEMMA ApartKept ==
  ASSUME MessagesApart, NEW th \in Thread, NEW X,
         \A o \in Thread \ {th} : MsgsIn(todo'[o]) = MsgsIn(todo[o]) /\ X \cap MsgsIn(todo[o]) = {},
         MsgsIn(todo'[th]) \cup ToSet(s'.queue) \cup ToSet(handed')
           \subseteq MsgsIn(todo[th]) \cup ToSet(s.queue) \cup ToSet(handed) \cup X,
         MsgsIn(todo'[th]) \cap (ToSet(s'.queue) \cup ToSet(handed')) = {}, ToSet(s'.queue) \cap ToSet(handed') = {},
         IsInjective(s'.queue), IsInjective(handed'),
         ToSet(s'.queue) \cup ToSet(handed') \cup s'.input \cup Texts(s'.held) \cup DOMAIN s'.delivered \subseteq Sent'
  PROVE  MessagesApart'
<1>1. \A o \in Thread \ {th} :
        MsgsIn(todo[o]) \cap (MsgsIn(todo[th]) \cup ToSet(s.queue) \cup ToSet(handed) \cup X) = {}
  BY DEF MessagesApart
<1>2. \A o \in Thread \ {th} :
        MsgsIn(todo'[o]) \cap (MsgsIn(todo'[th]) \cup ToSet(s'.queue) \cup ToSet(handed')) = {}
  BY <1>1
<1>3. \A a, o \in Thread : a # o => MsgsIn(todo'[a]) \cap MsgsIn(todo'[o]) = {}
  <2>1. ASSUME NEW a \in Thread, NEW o \in Thread, a # o PROVE MsgsIn(todo'[a]) \cap MsgsIn(todo'[o]) = {}
    <3>1. CASE a = th \/ o = th
      BY <1>2, <2>1, <3>1
    <3>2. CASE a # th /\ o # th
      BY <2>1, <3>2 DEF MessagesApart
    <3> QED
      BY <3>1, <3>2
  <2> QED
    BY <2>1
<1>4. \A a \in Thread : MsgsIn(todo'[a]) \cap (ToSet(s'.queue) \cup ToSet(handed')) = {}
  BY <1>2
<1> QED
  BY <1>3, <1>4 DEF MessagesApart

LEMMA UndoneKept ==
  ASSUME todo \in [Thread -> Seq(Step)], NEW th \in Thread, NEW steps \in Seq(Step), Takes(th, steps),
         Undone, ~At(th, "unclaim"),
         \A o \in Thread : \A i \in DOMAIN todo[o] :
           todo[o][i].op = "requeue" /\ todo[o][i].msg \in s'.input => todo[o][i].msg \in s.input,
         \A j \in DOMAIN steps : steps[j].op = "requeue" => At(th, "unclaim")'
  PROVE  Undone'
<1> SUFFICES ASSUME NEW o \in Thread, NEW i \in DOMAIN todo'[o],
                    todo'[o][i].op = "requeue", todo'[o][i].msg \in s'.input
             PROVE  At(o, "unclaim")'
  BY DEF Undone
<1>1. CASE o # th
  <2>1. todo'[o] = todo[o]
    BY <1>1, StepTaken
  <2>2. At(o, "unclaim")
    BY <2>1 DEF Undone
  <2> QED
    BY <2>1, <2>2 DEF At
<1>2. CASE o = th
  <2>1. CASE \E j \in DOMAIN steps : todo'[th][i] = steps[j]
    BY <1>2, <2>1
  <2>2. CASE \E j \in DOMAIN todo[th] : todo'[th][i] = todo[th][j]
    BY <1>2, <2>2 DEF Undone
  <2> QED
    BY <1>2, <2>1, <2>2, WhereFrom
<1> QED
  BY <1>1, <1>2

LEMMA HereKept ==
  ASSUME Here, NEW th \in Thread, \A o \in Thread \ {th} : todo'[o] = todo[o],
         stops' = {} => stops = {},
         stops' = {} => \A m \in Msg : told'[m] = "accepted" =>
           /\ told[m] = "accepted" \/ m \in ToSet(s'.queue) \cup ToSet(handed')
           /\ m \in ToSet(s.queue) \cup ToSet(handed) \cup MsgsIn(todo[th]) =>
                m \in ToSet(s'.queue) \cup ToSet(handed') \cup MsgsIn(todo'[th])
  PROVE  Here'
<1> SUFFICES ASSUME stops' = {}, NEW m \in Msg, told'[m] = "accepted"
             PROVE  m \in ToSet(s'.queue) \cup ToSet(handed') \/ \E o \in Thread : m \in MsgsIn(todo'[o])
  BY DEF Here
<1>1. CASE m \in ToSet(s'.queue) \cup ToSet(handed')
  BY <1>1
<1>2. CASE told[m] = "accepted"
  <2>1. m \in ToSet(s.queue) \cup ToSet(handed) \/ \E o \in Thread : m \in MsgsIn(todo[o])
    BY <1>2 DEF Here
  <2>2. CASE m \in ToSet(s.queue) \cup ToSet(handed) \cup MsgsIn(todo[th])
    BY <2>2
  <2>3. CASE \E o \in Thread \ {th} : m \in MsgsIn(todo[o])
    BY <2>3
  <2> QED
    BY <2>1, <2>2, <2>3
<1> QED
  BY <1>1, <1>2

\* What a step owes changes only with its message and what is remembered of it.
LEMMA PromiseKept ==
  ASSUME TypeOK, TypeOK', NEW x \in Step, Promise(x),
         stops \subseteq stops', Alive' => Alive, s.claims <= s'.claims,
         HasMsg(x) => told'[x.msg] = told[x.msg] \/ told'[x.msg] \notin {"unsent", "accepted"},
         x.op = "deliver" => x.msg \notin s'.input \cup Texts(s'.held),
         x.op \in {"open_turn", "write_turn", "deliver", "requeue"} => x.msg \notin DOMAIN s'.delivered
  PROVE  Promise(x)'
<1>1. s.claims \in Nat /\ s'.claims \in Nat
  BY DEF TypeOK, StateOK, RuntimeState
<1>2. 1 .. s.claims \subseteq 1 .. s'.claims
  BY <1>1
<1>3. (Posthumous(x) => ~Alive') /\ (Stopping(x) => stops' # {})
  BY DEF Promise
<1>4. HasMsg(x) => told'[x.msg] # "unsent" /\ (told[x.msg] # "accepted" => told'[x.msg] # "accepted")
  BY DEF Promise
<1> QED
  BY <1>2, <1>3, <1>4 DEF Promise, HasMsg, Posthumous, Stopping

\* A list of one step that carries a message.
LEMMA OneMessage ==
  ASSUME NEW x \in Step, x.op \in {"open_turn", "write_turn", "deliver", "write_delivery", "requeue"}
  PROVE  <<x>> \in Seq(Step) /\ MsgsIn(<<x>>) = {x.msg} /\ AsksIn(<<x>>) = {} /\ Separate(<<x>>)
<1>1. MsgsOf(x) = {x.msg} /\ AsksOf(x) = {}
  BY DEF MsgsOf, AsksOf
<1> QED
  BY <1>1, CarriedByFew

\* A new turn begins with a message that is nowhere else.
LEMMA StartKeeps ==
  ASSUME TypeOK, TypeOK', MessageInv, NEW th \in Client, NEW m \in Msg, SendStart(th, m)
  PROVE  MessageInv'
<1>t. PICK t : t = s.claims + 1
  OBVIOUS
<1> DEFINE x == [op |-> "open_turn", msg |-> m, turn |-> t, back |-> FALSE]
           steps == <<x>>
<1>0. /\ todo \in [Thread -> Seq(Step)] /\ th \in Thread /\ s \in RuntimeState /\ s.claims \in Nat
      /\ told \in [Msg -> Told] /\ Promises /\ MessagesApart
  BY Threads DEF TypeOK, StateOK, RuntimeState, HistoryOK, Told, MessageInv
<1>1. /\ todo[th] = << >> /\ told[m] = "unsent" /\ s.queue = << >> /\ Begin(th, steps)
      /\ s' = claim_turn(s, {m}) /\ told' = [told EXCEPT ![m] = "sending"]
      /\ UNCHANGED <<handed, stops, exit, events>>
  BY <1>t DEF SendStart, Unsent, CanStart, Begin, OpenTurn, external
<1>2. /\ s'.claims = s.claims + 1 /\ s'.input = {m} /\ s'.queue = s.queue /\ s'.held = s.held /\ s'.delivered = s.delivered
  BY <1>0, <1>1 DEF claim_turn, RuntimeState
<1>3. /\ \A o \in Thread : m \notin MsgsIn(todo[o])
      /\ \A o \in Thread : \A i \in DOMAIN todo[o] : HasMsg(todo[o][i]) => todo[o][i].msg # m
      /\ m \notin ToSet(s.queue) \cup ToSet(handed) \cup s.input \cup Texts(s.held) \cup DOMAIN s.delivered
  BY <1>0, <1>1, Unheard
<1>4. told'[m] = "sending" /\ \A y \in Msg : y # m => told'[y] = told[y]
  BY <1>0, <1>1
<1>5. steps \in Seq(Step) /\ MsgsIn(steps) = {m} /\ AsksIn(steps) = {} /\ Separate(steps)
  <2>1. x \in Step
    BY <1>t, <1>0 DEF Step
  <2> QED
    BY <2>1, OneMessage
<1>6. Takes(th, steps) /\ MsgsIn(Rest(th)) = {} /\ MsgsIn(todo[th]) = {} /\ AsksIn(Rest(th)) = {}
  BY <1>1, CarriedByFew DEF Takes, Rest
<1>7. /\ \A o \in Thread : Separate(todo'[o])
      /\ MsgsIn(todo'[th]) = {m} /\ \A o \in Thread \ {th} : todo'[o] = todo[o]
  BY <1>0, <1>5, <1>6, Moved DEF MessageInv
<1>8. Promises'
  <2>1. Promise(x)'
    <3>1. t \in 1 .. s'.claims
      BY <1>t, <1>0, <1>2
    <3>2. m \notin DOMAIN s'.delivered /\ told'[m] = "sending"
      BY <1>2, <1>3, <1>4
    <3> QED
      BY <3>1, <3>2 DEF Promise, Posthumous, Stopping, HasMsg
  <2>2. ASSUME NEW y \in Step, NEW o \in Thread, NEW j \in DOMAIN todo[o], y = todo[o][j], Promise(y) PROVE Promise(y)'
    <3>1. HasMsg(y) => y.msg \in Msg /\ y.msg # m
      BY <1>3, <2>2, StepFields
    <3>2. y.op = "deliver" => y.msg \notin s'.input \cup Texts(s'.held)
      BY <1>2, <2>2, <3>1 DEF Promise, HasMsg
    <3>3. s.claims <= s'.claims /\ stops \subseteq stops' /\ (Alive' => Alive)
      BY <1>0, <1>1, <1>2 DEF Alive
    <3>4. y.op \in {"open_turn", "write_turn", "deliver", "requeue"} => y.msg \notin DOMAIN s'.delivered
      BY <1>2, <2>2 DEF Promise
    <3>5. HasMsg(y) => told'[y.msg] = told[y.msg]
      BY <1>4, <3>1
    <3> QED
      BY <2>2, <3>2, <3>3, <3>4, <3>5, PromiseKept
  <2> HIDE DEF x
  <2>3. \A j \in DOMAIN steps : Promise(steps[j])'
    BY <2>1
  <2> HIDE DEF steps
  <2>4. \A y \in Step : \A o \in Thread : \A j \in DOMAIN todo[o] : y = todo[o][j] /\ Promise(y) => Promise(y)'
    BY <2>2
  <2> QED
    BY <1>0, <1>5, <1>6, <2>3, <2>4, PromisesKept
<1>9. MessagesApart'
  <2>1. m \in Sent' /\ Sent \subseteq Sent'
    BY <1>4 DEF Sent
  <2>2. ToSet(s'.queue) \cup ToSet(handed') \cup s'.input \cup Texts(s'.held) \cup DOMAIN s'.delivered \subseteq Sent'
    BY <1>0, <1>1, <1>2, <2>1 DEF MessagesApart
  <2>3. \A o \in Thread \ {th} : MsgsIn(todo'[o]) = MsgsIn(todo[o]) /\ {m} \cap MsgsIn(todo[o]) = {}
    BY <1>3, <1>7
  <2>4. IsInjective(s'.queue) /\ IsInjective(handed') /\ ToSet(s'.queue) \cap ToSet(handed') = {}
    BY <1>0, <1>1, <1>2 DEF MessagesApart
  <2>5. MsgsIn(todo'[th]) \cap (ToSet(s'.queue) \cup ToSet(handed')) = {}
    BY <1>1, <1>2, <1>3, <1>7
  <2>6. MsgsIn(todo'[th]) \cup ToSet(s'.queue) \cup ToSet(handed')
           \subseteq MsgsIn(todo[th]) \cup ToSet(s.queue) \cup ToSet(handed) \cup {m}
    BY <1>1, <1>2, <1>7
  <2> QED
    BY <1>0, <2>2, <2>3, <2>4, <2>5, <2>6, ApartKept
<1>10. ResumeApart'
  BY <1>1, <1>2, <1>3, EmptyRange DEF MessageInv, ResumeApart
<1>11. Undone'
  <2>1. \A o \in Thread : \A i \in DOMAIN todo[o] :
          todo[o][i].op = "requeue" /\ todo[o][i].msg \in s'.input => todo[o][i].msg \in s.input
    BY <1>2, <1>3 DEF HasMsg
  <2>2. ~At(th, "unclaim") /\ \A j \in DOMAIN steps : steps[j].op # "requeue"
    BY <1>1 DEF At
  <2> HIDE DEF steps
  <2> QED
    BY <1>0, <1>5, <1>6, <2>1, <2>2, UndoneKept DEF MessageInv
<1>12. Here'
  BY <1>0, <1>1, <1>2, <1>4, <1>6, <1>7, HereKept DEF MessageInv
<1> QED
  BY <1>7, <1>8, <1>9, <1>10, <1>11, <1>12 DEF MessageInv

LEMMA SteerKeeps ==
  ASSUME TypeOK, TypeOK', MessageInv, NEW th \in Client, NEW m \in Msg, SendDeliver(th, m)
  PROVE  MessageInv'
<1> DEFINE x == [op |-> "deliver", msg |-> m]
           steps == <<x>>
<1>0. /\ todo \in [Thread -> Seq(Step)] /\ th \in Thread /\ s.claims \in Nat /\ EventsOK
      /\ told \in [Msg -> Told] /\ Promises /\ MessagesApart
  BY Threads DEF TypeOK, StateOK, RuntimeState, HistoryOK, EventsOK, Told, MessageInv
<1>1. /\ todo[th] = << >> /\ told[m] = "unsent" /\ Begin(th, steps) /\ s' = s
      /\ told' = [told EXCEPT ![m] = "sending"] /\ UNCHANGED <<handed, stops, exit>> /\ Spend("steer")
  BY DEF SendDeliver, Unsent, Begin, ForMsg, external
<1>2. events'.resent = events.resent
  BY <1>0, <1>1, SpendTyped DEF Kind
<1>3. /\ \A o \in Thread : m \notin MsgsIn(todo[o])
      /\ \A o \in Thread : \A i \in DOMAIN todo[o] : HasMsg(todo[o][i]) => todo[o][i].msg # m
      /\ m \notin ToSet(s.queue) \cup ToSet(handed) \cup s.input \cup Texts(s.held) \cup DOMAIN s.delivered
  BY <1>0, <1>1, Unheard
<1>4. told'[m] = "sending" /\ \A y \in Msg : y # m => told'[y] = told[y]
  BY <1>0, <1>1
<1>5. steps \in Seq(Step) /\ MsgsIn(steps) = {m} /\ AsksIn(steps) = {} /\ Separate(steps)
  <2>1. x \in Step
    BY DEF Step
  <2> QED
    BY <2>1, OneMessage
<1>6. Takes(th, steps) /\ MsgsIn(Rest(th)) = {} /\ MsgsIn(todo[th]) = {} /\ AsksIn(Rest(th)) = {}
  BY <1>1, CarriedByFew DEF Takes, Rest
<1>7. /\ \A o \in Thread : Separate(todo'[o])
      /\ MsgsIn(todo'[th]) = {m} /\ \A o \in Thread \ {th} : todo'[o] = todo[o]
  BY <1>0, <1>5, <1>6, Moved DEF MessageInv
<1>8. Promises'
  <2>1. Promise(x)'
    BY <1>1, <1>3, <1>4 DEF Promise, Posthumous, Stopping, HasMsg
  <2>2. ASSUME NEW y \in Step, NEW o \in Thread, NEW j \in DOMAIN todo[o], y = todo[o][j], Promise(y) PROVE Promise(y)'
    <3>1. HasMsg(y) => y.msg \in Msg /\ y.msg # m
      BY <1>3, <2>2, StepFields
    <3> QED
      BY <1>0, <1>1, <1>4, <2>2, <3>1, PromiseKept DEF Promise, Alive
  <2> HIDE DEF x
  <2>3. \A j \in DOMAIN steps : Promise(steps[j])'
    BY <2>1
  <2> HIDE DEF steps
  <2> QED
    BY <1>0, <1>5, <1>6, <2>2, <2>3, PromisesKept
<1>9. MessagesApart'
  <2>1. Sent \subseteq Sent'
    BY <1>4 DEF Sent
  <2>2. \A o \in Thread \ {th} : MsgsIn(todo'[o]) = MsgsIn(todo[o]) /\ {m} \cap MsgsIn(todo[o]) = {}
    BY <1>3, <1>7
  <2>3. /\ IsInjective(s'.queue) /\ IsInjective(handed') /\ ToSet(s'.queue) \cap ToSet(handed') = {}
        /\ ToSet(s'.queue) \cup ToSet(handed') \cup s'.input \cup Texts(s'.held) \cup DOMAIN s'.delivered \subseteq Sent'
    BY <1>0, <1>1, <2>1 DEF MessagesApart
  <2>5. MsgsIn(todo'[th]) \cap (ToSet(s'.queue) \cup ToSet(handed')) = {}
    BY <1>1, <1>3, <1>7
  <2>6. MsgsIn(todo'[th]) \cup ToSet(s'.queue) \cup ToSet(handed')
           \subseteq MsgsIn(todo[th]) \cup ToSet(s.queue) \cup ToSet(handed) \cup {m}
    BY <1>1, <1>7
  <2> QED
    BY <1>0, <2>2, <2>3, <2>5, <2>6, ApartKept
<1>10. ResumeApart'
  BY <1>1, <1>2 DEF MessageInv, ResumeApart
<1>11. Undone'
  <2>1. ~At(th, "unclaim") /\ \A j \in DOMAIN steps : steps[j].op # "requeue"
    BY <1>1 DEF At
  <2> HIDE DEF steps
  <2> QED
    BY <1>0, <1>1, <1>5, <1>6, <2>1, UndoneKept DEF MessageInv
<1>12. Here'
  BY <1>0, <1>1, <1>4, <1>6, <1>7, HereKept DEF MessageInv
<1> QED
  BY <1>7, <1>8, <1>9, <1>10, <1>11, <1>12 DEF MessageInv

LEMMA QueueKeeps ==
  ASSUME TypeOK, TypeOK', MessageInv, NEW th \in Client, NEW m \in Msg, SendQueue(th, m)
  PROVE  MessageInv'
<1> DEFINE steps == Do("drain")
<1>0. /\ todo \in [Thread -> Seq(Step)] /\ th \in Thread /\ s \in RuntimeState /\ s.claims \in Nat /\ s.queue \in Seq(Msg)
      /\ told \in [Msg -> Told] /\ Promises /\ MessagesApart
  BY Threads DEF TypeOK, StateOK, RuntimeState, HistoryOK, Told, MessageInv
<1>1. /\ todo[th] = << >> /\ told[m] = "unsent" /\ Begin(th, steps) /\ s' = [s EXCEPT !.queue = Append(s.queue, m)]
      /\ told' = [told EXCEPT ![m] = "accepted"] /\ UNCHANGED <<handed, stops, exit, events>>
  BY DEF SendQueue, Unsent, Begin, external
<1>2. /\ s'.claims = s.claims /\ s'.input = s.input /\ s'.queue = Append(s.queue, m) /\ s'.held = s.held
      /\ s'.delivered = s.delivered
  BY <1>0, <1>1 DEF RuntimeState
<1>3. /\ \A o \in Thread : m \notin MsgsIn(todo[o])
      /\ \A o \in Thread : \A i \in DOMAIN todo[o] : HasMsg(todo[o][i]) => todo[o][i].msg # m
      /\ m \notin ToSet(s.queue) \cup ToSet(handed) \cup s.input \cup Texts(s.held) \cup DOMAIN s.delivered
  BY <1>0, <1>1, Unheard
<1>4. told'[m] = "accepted" /\ \A y \in Msg : y # m => told'[y] = told[y]
  BY <1>0, <1>1
<1>5. ToSet(s'.queue) = ToSet(s.queue) \cup {m} /\ IsInjective(s'.queue)
  BY <1>0, <1>2, <1>3, AppendedRange DEF MessagesApart
<1>6. Harmless(steps) /\ steps \in Seq(Step) /\ MsgsIn(steps) = {} /\ AsksIn(steps) = {} /\ Separate(steps)
  BY HarmlessSteps, HarmlessCarry DEF LightOp, Harmless
<1>7. Takes(th, steps) /\ MsgsIn(Rest(th)) = {} /\ MsgsIn(todo[th]) = {} /\ AsksIn(Rest(th)) = {}
  BY <1>1, CarriedByFew DEF Takes, Rest
<1> HIDE DEF steps
<1>8. /\ \A o \in Thread : Separate(todo'[o])
      /\ MsgsIn(todo'[th]) = {} /\ \A o \in Thread \ {th} : todo'[o] = todo[o]
  BY <1>0, <1>6, <1>7, Moved DEF MessageInv
<1>9. Promises'
  <2>1. \A j \in DOMAIN steps : Promise(steps[j])'
    BY <1>6, HarmlessCarry
  <2>2. ASSUME NEW y \in Step, NEW o \in Thread, NEW j \in DOMAIN todo[o], y = todo[o][j], Promise(y) PROVE Promise(y)'
    <3>1. HasMsg(y) => y.msg \in Msg /\ y.msg # m
      BY <1>3, <2>2, StepFields
    <3> QED
      BY <1>0, <1>1, <1>2, <1>4, <2>2, <3>1, PromiseKept DEF Promise, Alive
  <2> QED
    BY <1>0, <1>6, <1>7, <2>1, <2>2, PromisesKept
<1>10. MessagesApart'
  <2>1. m \in Sent' /\ Sent \subseteq Sent'
    BY <1>4 DEF Sent
  <2>2. \A o \in Thread \ {th} : MsgsIn(todo'[o]) = MsgsIn(todo[o]) /\ {m} \cap MsgsIn(todo[o]) = {}
    BY <1>3, <1>8
  <2>3. IsInjective(handed') /\ ToSet(s'.queue) \cap ToSet(handed') = {}
    BY <1>0, <1>1, <1>3, <1>5 DEF MessagesApart
  <2>4. ToSet(s'.queue) \cup ToSet(handed') \cup s'.input \cup Texts(s'.held) \cup DOMAIN s'.delivered \subseteq Sent'
    BY <1>0, <1>1, <1>2, <1>5, <2>1 DEF MessagesApart
  <2>5. MsgsIn(todo'[th]) \cap (ToSet(s'.queue) \cup ToSet(handed')) = {}
    BY <1>8
  <2>6. MsgsIn(todo'[th]) \cup ToSet(s'.queue) \cup ToSet(handed')
           \subseteq MsgsIn(todo[th]) \cup ToSet(s.queue) \cup ToSet(handed) \cup {m}
    BY <1>1, <1>5, <1>8
  <2> QED
    BY <1>0, <1>5, <2>2, <2>3, <2>4, <2>5, <2>6, ApartKept
<1>11. ResumeApart'
  BY <1>1, <1>2, <1>3, <1>5 DEF MessageInv, ResumeApart
<1>12. Undone'
  <2>1. ~At(th, "unclaim") /\ \A j \in DOMAIN steps : steps[j].op # "requeue"
    BY <1>1, <1>6 DEF At, Harmless, Light, HasMsg
  <2> QED
    BY <1>0, <1>2, <1>6, <1>7, <2>1, UndoneKept DEF MessageInv
<1>13. Here'
  BY <1>0, <1>1, <1>4, <1>5, <1>7, <1>8, HereKept DEF MessageInv
<1> QED
  BY <1>8, <1>9, <1>10, <1>11, <1>12, <1>13 DEF MessageInv

LEMMA RemoveKeeps ==
  ASSUME TypeOK, TypeOK', MessageInv, NEW th \in Client, NEW i \in DOMAIN s.queue, remove_queued(th, i)
  PROVE  MessageInv'
<1> DEFINE m == s.queue[i]
<1>0. /\ todo \in [Thread -> Seq(Step)] /\ th \in Thread /\ s \in RuntimeState /\ s.claims \in Nat /\ s.queue \in Seq(Msg)
      /\ told \in [Msg -> Told] /\ Promises /\ MessagesApart /\ m \in Msg /\ EventsOK
  <2>1. /\ todo \in [Thread -> Seq(Step)] /\ th \in Thread /\ s \in RuntimeState /\ s.claims \in Nat /\ s.queue \in Seq(Msg)
        /\ told \in [Msg -> Told] /\ Promises /\ MessagesApart /\ EventsOK
    BY Threads DEF TypeOK, StateOK, RuntimeState, HistoryOK, EventsOK, Told, MessageInv
  <2> QED
    BY <2>1
<1>1. /\ s' = [s EXCEPT !.queue = RemoveAt(s.queue, i)] /\ told' = [told EXCEPT ![m] = "removed"]
      /\ UNCHANGED <<handed, stops, exit, todo>> /\ Spend("remove")
  BY DEF remove_queued, external
<1>2. events'.resent = events.resent
  BY <1>0, <1>1, SpendTyped DEF Kind
<1>3. /\ s'.claims = s.claims /\ s'.input = s.input /\ s'.queue = RemoveAt(s.queue, i) /\ s'.held = s.held
      /\ s'.delivered = s.delivered
  BY <1>0, <1>1 DEF RuntimeState
<1>4. /\ ToSet(s'.queue) \subseteq ToSet(s.queue) /\ ToSet(s.queue) \subseteq ToSet(s'.queue) \cup {m}
      /\ IsInjective(s'.queue)
  BY <1>0, <1>3, RemovedRange DEF MessagesApart
<1>5. told'[m] = "removed" /\ \A y \in Msg : y # m => told'[y] = told[y]
  BY <1>0, <1>1
<1> HIDE DEF m
<1>6. Promises'
  <2>1. ASSUME NEW o \in Thread, NEW j \in DOMAIN todo[o] PROVE Promise(todo[o][j])'
    <3>1. PICK y \in Step : y = todo[o][j]
      BY <1>0
    <3>2. Promise(y)
      BY <1>0, <3>1 DEF Promises
    <3>3. HasMsg(y) => y.msg \in Msg
      BY StepFields
    <3>4. Promise(y)'
      BY <1>0, <1>1, <1>3, <1>5, <3>2, <3>3, PromiseKept DEF Promise, Alive
    <3>5. y = todo'[o][j]
      BY <1>1, <3>1
    <3> QED
      BY <3>4, <3>5
  <2> QED
    BY <1>1, <2>1 DEF Promises
<1>7. MessagesApart'
  <2>1. Sent \subseteq Sent'
    BY <1>5 DEF Sent
  <2> QED
    BY <1>0, <1>1, <1>3, <1>4, <2>1 DEF MessagesApart
<1>8. ResumeApart'
  BY <1>2, <1>3, <1>4 DEF MessageInv, ResumeApart
<1>9. Undone' /\ \A o \in Thread : Separate(todo'[o])
  BY <1>1, <1>3 DEF MessageInv, Undone, At
<1>10. Here'
  <2>1. \A y \in Msg : told'[y] = "accepted" => y # m
    BY <1>5
  <2> QED
    BY <1>0, <1>1, <1>4, <1>5, <2>1, HereKept DEF MessageInv
<1> QED
  BY <1>6, <1>7, <1>8, <1>9, <1>10 DEF MessageInv

\* The lists of the others, and what is left of the thread's own, owe what they owed.
LEMMA OthersKept ==
  ASSUME TypeOK, TypeOK', MessageInv, NEW th \in Thread, NEW steps \in Seq(Step), Takes(th, steps),
         \A j \in DOMAIN steps : Promise(steps[j])',
         stops \subseteq stops', Alive' => Alive, s.claims <= s'.claims,
         \A o \in Thread : \A j \in DOMAIN todo[o] : (o = th => j # 1) /\ HasMsg(todo[o][j]) =>
           LET y == todo[o][j] IN
           /\ y.op \in {"forget", "refuse", "requeue"} \/ told'[y.msg] = told[y.msg]
           /\ told'[y.msg] = told[y.msg] \/ told'[y.msg] # "unsent"
           /\ y.op = "deliver" => y.msg \notin s'.input \cup Texts(s'.held)
           /\ y.op \in {"open_turn", "write_turn", "deliver", "requeue"} => y.msg \notin DOMAIN s'.delivered
  PROVE  Promises'
<1>0. todo \in [Thread -> Seq(Step)] /\ Promises /\ s.claims \in Nat /\ s'.claims \in Nat
  BY DEF TypeOK, StateOK, RuntimeState, MessageInv
<1>1. 1 .. s.claims \subseteq 1 .. s'.claims
  BY <1>0
<1>2. ASSUME NEW y \in Step, NEW o \in Thread, NEW j \in DOMAIN todo[o], y = todo[o][j], o = th => j # 1, Promise(y)
      PROVE  Promise(y)'
  <2>1. (Posthumous(y) => ~Alive') /\ (Stopping(y) => stops' # {})
    BY <1>2 DEF Promise
  <2>2. HasMsg(y) => /\ y.op \in {"forget", "refuse", "requeue"} \/ told'[y.msg] = told[y.msg]
                     /\ told'[y.msg] = told[y.msg] \/ told'[y.msg] # "unsent"
                     /\ y.op = "deliver" => y.msg \notin s'.input \cup Texts(s'.held)
                     /\ y.op \in {"open_turn", "write_turn", "deliver", "requeue"} => y.msg \notin DOMAIN s'.delivered
    BY <1>2
  <2> QED
    BY <1>1, <1>2, <2>1, <2>2 DEF Promise, HasMsg, Posthumous, Stopping
<1>3. \A y \in Step : \A o \in Thread : \A j \in DOMAIN todo[o] :
        y = todo[o][j] /\ (o = th => j # 1) /\ Promise(y) => Promise(y)'
  BY <1>2
<1> QED
  BY <1>0, <1>3, PromisesKept

\* A message is popped from the queue and claims a turn.
LEMMA DrainKeeps ==
  ASSUME TypeOK, TypeOK', MessageInv, NEW th \in Thread, Drain(th), s.phase = "ready" /\ s.queue # << >>
  PROVE  MessageInv'
<1>p. PICK m, t : m = Head(s.queue) /\ t = s.claims + 1
  OBVIOUS
<1> DEFINE x == [op |-> "open_turn", msg |-> m, turn |-> t, back |-> TRUE]
           steps == <<x>>
<1>0. /\ todo \in [Thread -> Seq(Step)] /\ s \in RuntimeState /\ s.claims \in Nat /\ s.queue \in Seq(Msg)
      /\ Promises /\ MessagesApart /\ ResumeApart
  BY DEF TypeOK, StateOK, RuntimeState, MessageInv
<1>1. /\ todo[th] # << >> /\ Now(th).op = "drain" /\ Then(th, steps)
      /\ s' = claim_turn([s EXCEPT !.queue = Tail(s.queue)], {m}) /\ UNCHANGED <<told, handed, stops, exit, events>>
  BY <1>p DEF Drain, At, Now, OpenTurn, external, history
<1>2. m \in Msg /\ Tail(s.queue) \in Seq(Msg) /\ ToSet(s.queue) = {m} \cup ToSet(Tail(s.queue))
  BY <1>p, <1>0, HeadAndTail, TailRange
<1>3. IsInjective(Tail(s.queue)) /\ m \notin ToSet(Tail(s.queue))
  <2> DEFINE q == s.queue
             r == Tail(s.queue)
  <2>1. /\ 1 \in DOMAIN q /\ q[1] = m
        /\ \A i \in DOMAIN r : i + 1 \in DOMAIN q /\ r[i] = q[i + 1] /\ i \in Nat
    BY <1>p, <1>0, HeadAndTail
  <2>2. IsInjective(q)
    BY <1>0 DEF MessagesApart
  <2> HIDE DEF q, r
  <2>3. \A i \in DOMAIN r : r[i] # m
    BY <2>1, <2>2 DEF IsInjective
  <2>4. \A i, j \in DOMAIN r : r[i] = r[j] => i = j
    <3> TAKE i, j \in DOMAIN r
    <3>1. q[i + 1] = q[j + 1] => i + 1 = j + 1
      BY <2>1, <2>2 DEF IsInjective
    <3> QED
      BY <2>1, <3>1
  <2>5. IsInjective(r) /\ m \notin ToSet(r)
    BY <2>3, <2>4 DEF IsInjective, ToSet
  <2> QED
    BY <2>5 DEF r
<1>4. /\ s'.claims = s.claims + 1 /\ s'.input = {m} /\ s'.queue = Tail(s.queue) /\ s'.held = s.held
      /\ s'.delivered = s.delivered
  BY <1>0, <1>1, <1>2 DEF claim_turn, RuntimeState
<1>5. m \in Sent /\ m \notin ToSet(handed) \cup DOMAIN s.delivered /\ \A o \in Thread : m \notin MsgsIn(todo[o])
  BY <1>0, <1>2 DEF MessagesApart, ResumeApart
<1>6. \A o \in Thread : \A j \in DOMAIN todo[o] : m \notin MsgsOf(todo[o][j])
  BY <1>5 DEF MsgsIn
<1>7. steps \in Seq(Step) /\ MsgsIn(steps) = {m} /\ AsksIn(steps) = {} /\ Separate(steps)
  <2>1. x \in Step
    BY <1>p, <1>0, <1>2 DEF Step
  <2> QED
    BY <2>1, OneMessage
<1>8. Takes(th, steps) /\ MsgsIn(Rest(th)) = MsgsIn(todo[th])
  <2>1. MsgsOf(Now(th)) = {}
    BY <1>1 DEF MsgsOf
  <2> QED
    BY <1>0, <1>1, <2>1, RestOf DEF Takes
<1>9. /\ \A o \in Thread : Separate(todo'[o])
      /\ MsgsIn(todo'[th]) = {m} \cup MsgsIn(todo[th]) /\ \A o \in Thread \ {th} : todo'[o] = todo[o]
  <2>1. MsgsIn(steps) \cap MsgsIn(Rest(th)) = {} /\ AsksIn(steps) \cap AsksIn(Rest(th)) = {}
    BY <1>5, <1>7, <1>8
  <2>2. \A o \in Thread : Separate(todo[o])
    BY DEF MessageInv
  <2> HIDE DEF steps
  <2> QED
    BY <1>0, <1>7, <1>8, <2>1, <2>2, Moved
<1>10. Promises'
  <2>1. t \in 1 .. s'.claims
    BY <1>p, <1>0, <1>4
  <2>2. Promise(x)'
    BY <1>1, <1>4, <1>5, <2>1 DEF Promise, Posthumous, Stopping, HasMsg, Sent
  <2>3. \A j \in DOMAIN steps : Promise(steps[j])'
    <3> HIDE DEF x
    <3> QED
      BY <2>2
  <2>4. \A o \in Thread : \A j \in DOMAIN todo[o] : todo[o][j].op = "deliver" =>
          todo[o][j].msg \notin s'.input \cup Texts(s'.held)
    BY <1>0, <1>4, <1>6 DEF Promises, Promise, MsgsOf
  <2>5. \A o \in Thread : \A j \in DOMAIN todo[o] : todo[o][j].op \in {"open_turn", "write_turn", "deliver", "requeue"} =>
          todo[o][j].msg \notin DOMAIN s'.delivered
    BY <1>0, <1>4 DEF Promises, Promise
  <2>6. s.claims <= s'.claims /\ (Alive' => Alive) /\ stops \subseteq stops' /\ told' = told
    BY <1>0, <1>1, <1>4 DEF Alive
  <2> HIDE DEF steps
  <2> QED
    BY <1>7, <1>8, <2>3, <2>4, <2>5, <2>6, OthersKept
<1>11. MessagesApart'
  <2>1. Sent' = Sent /\ s'.input \subseteq Sent
    BY <1>1, <1>4, <1>5 DEF Sent
  <2>2. \A o \in Thread \ {th} : MsgsIn(todo'[o]) = MsgsIn(todo[o]) /\ {m} \cap MsgsIn(todo[o]) = {}
    BY <1>5, <1>9
  <2>3. IsInjective(s'.queue) /\ IsInjective(handed') /\ ToSet(s'.queue) \cap ToSet(handed') = {}
    BY <1>0, <1>1, <1>2, <1>3, <1>4 DEF MessagesApart
  <2>4. ToSet(s'.queue) \cup ToSet(handed') \cup s'.input \cup Texts(s'.held) \cup DOMAIN s'.delivered \subseteq Sent'
    BY <1>0, <1>1, <1>2, <1>4, <2>1 DEF MessagesApart
  <2>5. MsgsIn(todo'[th]) \cap (ToSet(s'.queue) \cup ToSet(handed')) = {}
    BY <1>0, <1>1, <1>2, <1>3, <1>4, <1>5, <1>9 DEF MessagesApart
  <2>6. MsgsIn(todo'[th]) \cup ToSet(s'.queue) \cup ToSet(handed')
           \subseteq MsgsIn(todo[th]) \cup ToSet(s.queue) \cup ToSet(handed) \cup {m}
    BY <1>1, <1>2, <1>4, <1>9
  <2> QED
    BY <1>0, <2>2, <2>3, <2>4, <2>5, <2>6, ApartKept
<1>12. ResumeApart'
  <2>1. events'.resent = events.resent /\ (m \notin Texts(s.held) \/ events.resent)
    BY <1>0, <1>1, <1>2 DEF ResumeApart
  <2> QED
    BY <1>0, <1>2, <1>3, <1>4, <1>5, <2>1 DEF ResumeApart
<1>13. Undone'
  <2>1. \A o \in Thread : \A i \in DOMAIN todo[o] :
          todo[o][i].op = "requeue" /\ todo[o][i].msg \in s'.input => todo[o][i].msg \in s.input
    BY <1>4, <1>6 DEF MsgsOf
  <2>2. ~At(th, "unclaim") /\ \A j \in DOMAIN steps : steps[j].op # "requeue"
    BY <1>1 DEF At, Now
  <2> HIDE DEF steps
  <2> QED
    BY <1>0, <1>7, <1>8, <2>1, <2>2, UndoneKept DEF MessageInv
<1>14. Here'
  BY <1>0, <1>1, <1>2, <1>4, <1>9, HereKept DEF MessageInv
<1> QED
  BY <1>9, <1>10, <1>11, <1>12, <1>13, <1>14 DEF MessageInv

\* A turn that cannot be written is undone; its message is put back or refused.
LEMMA FailKeeps ==
  ASSUME TypeOK, TypeOK', MessageInv, NEW th \in Thread, todo[th] # << >>, Now(th).op \in {"open_turn", "write_turn"},
         Then(th, FailTurn(Now(th))), UNCHANGED <<s, told, handed, stops, exit>>, events'.resent = events.resent
  PROVE  MessageInv'
<1>p. PICK x : x = Now(th)
  OBVIOUS
<1> DEFINE m == x.msg
           last == ForMsg(IF x.back THEN "requeue" ELSE "refuse", m)
<1>0. todo \in [Thread -> Seq(Step)] /\ Promises /\ MessagesApart /\ ResumeApart /\ x \in Step
  BY <1>p, HeadStep DEF TypeOK, MessageInv
<1>1. /\ m \in Msg /\ Promise(x) /\ told[m] # "unsent"
      /\ MsgsIn(todo[th]) = {m} \cup MsgsIn(Rest(th)) /\ m \notin MsgsIn(Rest(th))
      /\ \A o \in Thread \ {th} : m \notin MsgsIn(todo[o])
      /\ m \notin ToSet(s.queue) \cup ToSet(handed)
  BY <1>p, InHand
<1>2. PICK light : /\ Harmless(light)
                   /\ FailTurn(x) = (Do("unclaim") \o light) \o last
                   /\ FailTurn(x) \in Seq(Step)
  BY <1>p, <1>0, FailTyped
<1>3. PICK steps \in Seq(Step) : steps = FailTurn(x)
  BY <1>2
<1>4. PICK first : first = Do("unclaim") \o light
  OBVIOUS
<1>5. /\ Do("unclaim") \in Seq(Step) /\ light \in Seq(Step) /\ first \in Seq(Step) /\ last \in Seq(Step)
      /\ MsgsIn(first) = {} /\ AsksIn(first) = {} /\ Separate(first) /\ \A j \in DOMAIN first : Promise(first[j])'
      /\ \A j \in DOMAIN first : first[j].op # "requeue"
      /\ 1 \in DOMAIN first /\ first[1].op = "unclaim"
  <2>1. Harmless(Do("unclaim"))
    BY HarmlessSteps DEF LightOp
  <2>2. Harmless(first)
    BY <1>2, <1>4, <2>1, HarmlessBoth
  <2>3. Do("unclaim") \in Seq(Step) /\ light \in Seq(Step) /\ first \in Seq(Step)
    BY <1>2, <2>1, <2>2 DEF Harmless
  <2>4. last \in Seq(Step)
    BY <1>1, StepsTyped
  <2>5. \A j \in DOMAIN first : first[j].op # "requeue"
    BY <2>2 DEF Harmless, Light, HasMsg
  <2>6. 1 \in DOMAIN Do("unclaim") /\ Do("unclaim")[1].op = "unclaim"
    BY DEF Do
  <2>7. 1 \in DOMAIN first /\ first[1] = Do("unclaim")[1]
    BY <1>4, <2>3, <2>6, Concatenated
  <2> QED
    BY <2>2, <2>3, <2>4, <2>5, <2>6, <2>7, HarmlessCarry
<1>6. /\ MsgsIn(last) = IF x.back THEN {m} ELSE {}
      /\ AsksIn(last) = {} /\ Separate(last)
  BY CarriedByFew DEF ForMsg, MsgsOf, AsksOf
<1>7. \A j \in DOMAIN last : Promise(last[j])'
  <2>1. DOMAIN last = {1} /\ last[1] = [op |-> IF x.back THEN "requeue" ELSE "refuse", msg |-> m]
    BY DEF ForMsg
  <2>2. m \notin DOMAIN s'.delivered /\ told'[m] # "unsent"
    BY <1>p, <1>1 DEF Promise
  <2>3. Promise([op |-> IF x.back THEN "requeue" ELSE "refuse", msg |-> m])'
    BY <2>2 DEF Promise, Posthumous, Stopping, HasMsg
  <2> HIDE DEF last
  <2> QED
    BY <2>1, <2>3
<1> HIDE DEF last
<1>8. steps = first \o last
  BY <1>2, <1>3, <1>4
<1>9. /\ MsgsIn(steps) = MsgsIn(last) /\ AsksIn(steps) = {} /\ Separate(steps)
      /\ \A j \in DOMAIN steps : Promise(steps[j])'
      /\ 1 \in DOMAIN steps /\ steps[1].op = "unclaim"
  <2>1. MsgsIn(steps) = MsgsIn(last) /\ AsksIn(steps) = {}
    BY <1>5, <1>6, <1>8, CarriedTogether
  <2>2. Separate(steps)
    BY <1>5, <1>6, <1>8, SeparateTogether
  <2>3. \A j \in DOMAIN steps : Promise(steps[j])'
    <3> TAKE j \in DOMAIN steps
    <3>1. \/ j \in DOMAIN first /\ steps[j] = first[j]
          \/ j - Len(first) \in DOMAIN last /\ steps[j] = last[j - Len(first)]
      BY <1>5, <1>8, Concatenated
    <3>2. PICK y : y = steps[j]
      OBVIOUS
    <3>3. Promise(y)'
      <4>1. CASE j \in DOMAIN first /\ y = first[j]
        BY <1>5, <4>1
      <4>2. CASE j - Len(first) \in DOMAIN last /\ y = last[j - Len(first)]
        <5>1. PICK k \in DOMAIN last : y = last[k]
          BY <4>2
        <5> QED
          BY <1>7, <5>1
      <4> QED
        BY <3>1, <3>2, <4>1, <4>2
    <3> QED
      BY <3>2, <3>3
  <2>4. 1 \in DOMAIN steps /\ steps[1] = first[1]
    BY <1>5, <1>8, Concatenated
  <2> QED
    BY <1>5, <2>1, <2>2, <2>3, <2>4
<1>10. Takes(th, steps) /\ AsksIn(steps) \cap AsksIn(Rest(th)) = {} /\ MsgsIn(steps) \cap MsgsIn(Rest(th)) = {}
  BY <1>p, <1>1, <1>3, <1>6, <1>9 DEF Takes
<1>11. /\ \A o \in Thread : Separate(todo'[o])
       /\ MsgsIn(todo'[th]) = MsgsIn(last) \cup MsgsIn(Rest(th)) /\ \A o \in Thread \ {th} : todo'[o] = todo[o]
  BY <1>0, <1>9, <1>10, Moved DEF MessageInv
<1>12. At(th, "unclaim")'
  <2>1. todo'[th] = steps \o Rest(th) /\ Rest(th) \in Seq(Step) /\ todo'[th] \in Seq(Step)
    BY <1>0, <1>10, StepTaken
  <2>2. 1 \in DOMAIN todo'[th] /\ todo'[th][1] = steps[1]
    BY <1>9, <2>1, Concatenated
  <2>3. todo'[th] # << >> /\ Head(todo'[th]) = todo'[th][1]
    BY <2>1, <2>2
  <2> QED
    BY <1>9, <2>2, <2>3 DEF At
<1>13. Promises'
  <2>1. \A o \in Thread : \A j \in DOMAIN todo[o] : todo[o][j].op = "deliver" =>
          todo[o][j].msg \notin s'.input \cup Texts(s'.held)
    BY <1>0 DEF Promises, Promise
  <2>2. \A o \in Thread : \A j \in DOMAIN todo[o] : todo[o][j].op \in {"open_turn", "write_turn", "deliver", "requeue"} =>
          todo[o][j].msg \notin DOMAIN s'.delivered
    BY <1>0 DEF Promises, Promise
  <2>3. s.claims <= s'.claims /\ (Alive' => Alive) /\ stops \subseteq stops' /\ told' = told
    BY DEF Alive, TypeOK, StateOK, RuntimeState
  <2> QED
    BY <1>9, <1>10, <2>1, <2>2, <2>3, OthersKept
<1>14. MessagesApart'
  <2>1. MsgsIn(todo'[th]) \subseteq MsgsIn(todo[th])
    BY <1>1, <1>6, <1>11
  <2>2. Sent' = Sent
    BY DEF Sent
  <2>3. \A o \in Thread \ {th} : MsgsIn(todo'[o]) = MsgsIn(todo[o]) /\ {} \cap MsgsIn(todo[o]) = {}
    BY <1>11
  <2>4. /\ IsInjective(s'.queue) /\ IsInjective(handed') /\ ToSet(s'.queue) \cap ToSet(handed') = {}
        /\ ToSet(s'.queue) \cup ToSet(handed') \cup s'.input \cup Texts(s'.held) \cup DOMAIN s'.delivered \subseteq Sent'
    BY <1>0, <2>2 DEF MessagesApart
  <2>5. MsgsIn(todo'[th]) \cap (ToSet(s'.queue) \cup ToSet(handed')) = {}
    BY <1>0, <2>1 DEF MessagesApart
  <2>6. MsgsIn(todo'[th]) \cup ToSet(s'.queue) \cup ToSet(handed')
           \subseteq MsgsIn(todo[th]) \cup ToSet(s.queue) \cup ToSet(handed) \cup {}
    BY <2>1
  <2> QED
    BY <1>0, <2>3, <2>4, <2>5, <2>6, ApartKept
<1>15. ResumeApart'
  BY <1>0 DEF ResumeApart
<1>16. Undone'
  <2>1. ~At(th, "unclaim")
    BY DEF At, Now
  <2> QED
    BY <1>0, <1>10, <1>12, <2>1, UndoneKept DEF MessageInv
<1>17. Here'
  <2>1. ~x.back => told[m] # "accepted"
    BY <1>p, <1>1 DEF Promise
  <2> QED
    BY <1>1, <1>6, <1>11, <2>1, HereKept DEF MessageInv
<1> QED
  BY <1>11, <1>13, <1>14, <1>15, <1>16, <1>17 DEF MessageInv

\* A message that was written, or given up, is in nobody's hands any more.
LEMMA PutDown ==
  ASSUME TypeOK, TypeOK', MessageInv, NEW th \in Thread, todo[th] # << >>,
         Now(th).op \in {"write_turn", "deliver", "write_delivery"},
         NEW steps \in Seq(Step), Then(th, steps), MsgsIn(steps) = {}, AsksIn(steps) = {}, Separate(steps),
         \A j \in DOMAIN steps : Promise(steps[j])' /\ steps[j].op # "requeue",
         UNCHANGED <<s, stops, exit>>, events'.resent = events.resent,
         \/ handed' = Append(handed, Now(th).msg) /\ told' = [told EXCEPT ![Now(th).msg] = "accepted"]
         \/ Now(th).op # "write_turn" /\ UNCHANGED <<handed, told>>
  PROVE  MessageInv'
<1>p. PICK m : m = Now(th).msg
  OBVIOUS
<1>0. /\ todo \in [Thread -> Seq(Step)] /\ Promises /\ MessagesApart /\ ResumeApart /\ handed \in Seq(Msg)
      /\ told \in [Msg -> Told] /\ \A o \in Thread : Separate(todo[o])
  BY DEF TypeOK, HistoryOK, MessageInv, Told
<1>1. /\ m \in Msg /\ Promise(Now(th)) /\ told[m] # "unsent"
      /\ MsgsIn(todo[th]) = {m} \cup MsgsIn(Rest(th)) /\ m \notin MsgsIn(Rest(th))
      /\ m \notin ToSet(s.queue) \cup ToSet(handed)
      /\ \A o \in Thread : \A j \in DOMAIN todo[o] : (o = th => j # 1) => m \notin MsgsOf(todo[o][j])
  BY <1>p, InHand
<1>2. Takes(th, steps) /\ MsgsIn(steps) \cap MsgsIn(Rest(th)) = {} /\ AsksIn(steps) \cap AsksIn(Rest(th)) = {}
  BY DEF Takes
<1>3. /\ \A o \in Thread : Separate(todo'[o])
      /\ MsgsIn(todo'[th]) = MsgsIn(Rest(th)) /\ \A o \in Thread \ {th} : todo'[o] = todo[o]
  <2>1. /\ \A o \in Thread : Separate(todo'[o])
        /\ MsgsIn(todo'[th]) = MsgsIn(steps) \cup MsgsIn(Rest(th)) /\ \A o \in Thread \ {th} : todo'[o] = todo[o]
    BY <1>0, <1>2, Moved
  <2> QED
    BY <2>1
<1>4. \A x \in Msg : told'[x] = told[x] \/ (x = m /\ told'[x] = "accepted" /\ handed' = Append(handed, m))
  BY <1>p, <1>0
<1>5. /\ handed' \in Seq(Msg) /\ IsInjective(handed') /\ ToSet(handed) \subseteq ToSet(handed')
      /\ ToSet(handed') \subseteq ToSet(handed) \cup {m}
      /\ handed' = Append(handed, m) => m \in ToSet(handed')
  <2>1. IsInjective(handed)
    BY <1>0 DEF MessagesApart
  <2>2. CASE handed' = Append(handed, m)
    BY <1>0, <1>1, <2>1, <2>2, AppendedRange
  <2>3. CASE handed' = handed /\ handed' # Append(handed, m)
    BY <1>0, <2>1, <2>3
  <2> QED
    BY <1>p, <2>2, <2>3
<1>6. Sent' = Sent
  BY <1>1, <1>4 DEF Sent
<1>7. Promises'
  <2>1. \A o \in Thread : \A j \in DOMAIN todo[o] : todo[o][j].op = "deliver" =>
          todo[o][j].msg \notin s'.input \cup Texts(s'.held)
    BY <1>0 DEF Promises, Promise
  <2>2. \A o \in Thread : \A j \in DOMAIN todo[o] : todo[o][j].op \in {"open_turn", "write_turn", "deliver", "requeue"} =>
          todo[o][j].msg \notin DOMAIN s'.delivered
    BY <1>0 DEF Promises, Promise
  <2>3. s.claims <= s'.claims /\ (Alive' => Alive) /\ stops \subseteq stops'
    BY DEF Alive, TypeOK, StateOK, RuntimeState
  <2>4. ASSUME NEW o \in Thread, NEW j \in DOMAIN todo[o], o = th => j # 1, HasMsg(todo[o][j])
        PROVE  /\ todo[o][j].op \in {"forget", "refuse", "requeue"} \/ told'[todo[o][j].msg] = told[todo[o][j].msg]
               /\ told'[todo[o][j].msg] = told[todo[o][j].msg] \/ told'[todo[o][j].msg] # "unsent"
    <3>1. PICK y \in Step : y = todo[o][j]
      BY <1>0
    <3>2. y.msg \in Msg /\ m \notin MsgsOf(y) /\ HasMsg(y)
      BY <1>1, <2>4, <3>1, StepFields
    <3>3. y.op \in {"forget", "refuse"} \/ y.msg # m
      BY <3>2 DEF MsgsOf, HasMsg
    <3> QED
      BY <1>4, <3>1, <3>2, <3>3
  <2> QED
    BY <1>2, <2>1, <2>2, <2>3, <2>4, OthersKept
<1>8. MessagesApart'
  <2>1. \A o \in Thread \ {th} : MsgsIn(todo'[o]) = MsgsIn(todo[o]) /\ {} \cap MsgsIn(todo[o]) = {}
    BY <1>3
  <2>2. MsgsIn(todo'[th]) \cup ToSet(s'.queue) \cup ToSet(handed')
           \subseteq MsgsIn(todo[th]) \cup ToSet(s.queue) \cup ToSet(handed) \cup {}
    BY <1>1, <1>3, <1>5
  <2>3. MsgsIn(todo'[th]) \cap (ToSet(s'.queue) \cup ToSet(handed')) = {} /\ ToSet(s'.queue) \cap ToSet(handed') = {}
    BY <1>0, <1>1, <1>3, <1>5 DEF MessagesApart
  <2>4. ToSet(s'.queue) \cup ToSet(handed') \cup s'.input \cup Texts(s'.held) \cup DOMAIN s'.delivered \subseteq Sent'
    <3>1. m \in Sent
      BY <1>1 DEF Sent
    <3> QED
      BY <1>0, <1>5, <1>6, <3>1 DEF MessagesApart
  <2>5. IsInjective(s'.queue)
    BY <1>0 DEF MessagesApart
  <2> QED
    BY <1>0, <1>5, <2>1, <2>2, <2>3, <2>4, <2>5, ApartKept
<1>9. ResumeApart'
  BY <1>0 DEF ResumeApart
<1>10. Undone'
  <2>1. ~At(th, "unclaim")
    BY DEF At, Now
  <2>2. \A o \in Thread : \A i \in DOMAIN todo[o] :
          todo[o][i].op = "requeue" /\ todo[o][i].msg \in s'.input => todo[o][i].msg \in s.input
    OBVIOUS
  <2> QED
    BY <1>0, <1>2, <2>1, <2>2, UndoneKept DEF MessageInv
<1>11. Here'
  <2>1. handed' = Append(handed, m) \/ (told' = told /\ told[m] # "accepted")
    BY <1>p, <1>1 DEF Promise
  <2>2. ASSUME NEW x \in Msg, told'[x] = "accepted"
        PROVE  /\ told[x] = "accepted" \/ x \in ToSet(s'.queue) \cup ToSet(handed')
               /\ x \in ToSet(s.queue) \cup ToSet(handed) \cup MsgsIn(todo[th]) =>
                    x \in ToSet(s'.queue) \cup ToSet(handed') \cup MsgsIn(todo'[th])
    BY <1>1, <1>3, <1>4, <1>5, <2>1, <2>2
  <2> QED
    BY <1>3, <2>2, HereKept DEF MessageInv
<1> QED
  BY <1>3, <1>7, <1>8, <1>9, <1>10, <1>11 DEF MessageInv

\* What is refused was not accepted.
LEMMA GiveUpSteps ==
  ASSUME NEW m \in Msg, told'[m] # "unsent", NEW steps,
         steps = ForMsg("refuse", m) \/ steps = ForMsg("forget", m) \o ForMsg("refuse", m)
  PROVE  /\ steps \in Seq(Step) /\ MsgsIn(steps) = {} /\ AsksIn(steps) = {} /\ Separate(steps)
         /\ \A j \in DOMAIN steps : Promise(steps[j])' /\ steps[j].op # "requeue"
<1> DEFINE x == [op |-> "refuse", msg |-> m]
           y == [op |-> "forget", msg |-> m]
<1>1. /\ x \in Step /\ MsgsOf(x) = {} /\ AsksOf(x) = {} /\ Promise(x)' /\ x.op # "requeue"
      /\ y \in Step /\ MsgsOf(y) = {} /\ AsksOf(y) = {} /\ Promise(y)' /\ y.op # "requeue"
  BY DEF Step, MsgsOf, AsksOf, Promise, HasMsg, Posthumous, Stopping
<1>2. steps = <<x>> \/ steps = <<y, x>>
  BY DEF ForMsg
<1> HIDE DEF x, y
<1>3. CASE steps = <<x>>
  <2>1. DOMAIN steps = {1} /\ steps[1] = x /\ steps \in Seq(Step)
    BY <1>1, <1>3
  <2> QED
    BY <1>1, <2>1 DEF MsgsIn, AsksIn, Separate
<1>4. CASE steps = <<y, x>>
  <2>1. DOMAIN steps = {1, 2} /\ steps[1] = y /\ steps[2] = x /\ steps \in Seq(Step)
    BY <1>1, <1>4
  <2> QED
    BY <1>1, <2>1 DEF MsgsIn, AsksIn, Separate
<1> QED
  BY <1>2, <1>3, <1>4

\* A written turn, a steered message, and the ways they fail.
LEMMA WritesKeep ==
  ASSUME TypeOK, TypeOK', MessageInv, NEW th \in Thread, WriteTurn(th) \/ WriteDelivery(th)
  PROVE  MessageInv'
<1> USE DEF external, history
<1>p. PICK x : x = Now(th)
  OBVIOUS
<1>0. /\ todo[th] # << >> /\ x.op \in {"write_turn", "write_delivery"}
      /\ WriteTurn(th) => x.op = "write_turn"
      /\ WriteDelivery(th) => x.op = "write_delivery"
  BY <1>p DEF WriteTurn, WriteDelivery, Writing, At, Now
<1>1. UNCHANGED <<s, stops, exit>> /\ events'.resent = events.resent
  BY DEF WriteTurn, WriteDelivery
<1>2. /\ << >> \in Seq(Step) /\ MsgsIn(<< >>) = {} /\ AsksIn(<< >>) = {} /\ Separate(<< >>)
      /\ \A j \in DOMAIN << >> : Promise(<< >>[j])' /\ << >>[j].op # "requeue"
  BY CarriedByFew
<1>3. CASE CanWrite
  <2>1. Then(th, << >>) /\ handed' = Append(handed, x.msg) /\ told' = [told EXCEPT ![x.msg] = "accepted"]
    BY <1>p, <1>3 DEF WriteTurn, WriteDelivery
  <2>2. /\ Now(th).op \in {"write_turn", "deliver", "write_delivery"}
        /\ handed' = Append(handed, Now(th).msg) /\ told' = [told EXCEPT ![Now(th).msg] = "accepted"]
    BY <1>p, <1>0, <2>1
  <2> QED
    BY <1>0, <1>1, <1>2, <2>1, <2>2, PutDown
<1>4. CASE ~CanWrite /\ WriteTurn(th)
  <2>1. Then(th, FailTurn(Now(th))) /\ UNCHANGED <<told, handed>>
    BY <1>4 DEF WriteTurn
  <2>2. Now(th).op \in {"open_turn", "write_turn"}
    BY <1>p, <1>0, <1>4
  <2> QED
    BY <1>0, <1>1, <2>1, <2>2, FailKeeps
<1>5. CASE ~CanWrite /\ WriteDelivery(th)
  <2>1. PICK steps : steps = ForMsg("forget", x.msg) \o ForMsg("refuse", x.msg)
    OBVIOUS
  <2>2. Then(th, steps) /\ UNCHANGED <<handed, told>>
    BY <1>p, <1>5, <2>1 DEF WriteDelivery
  <2>3. x.msg \in Msg /\ told'[x.msg] # "unsent"
    BY <1>p, <1>0, <2>2, InHand
  <2>4. /\ steps \in Seq(Step) /\ MsgsIn(steps) = {} /\ AsksIn(steps) = {} /\ Separate(steps)
        /\ \A j \in DOMAIN steps : Promise(steps[j])' /\ steps[j].op # "requeue"
    BY <2>1, <2>3, GiveUpSteps
  <2>5. Now(th).op \in {"write_turn", "deliver", "write_delivery"} /\ Now(th).op # "write_turn"
    BY <1>p, <1>0, <1>5
  <2> QED
    BY <1>0, <1>1, <2>2, <2>4, <2>5, PutDown
<1> QED
  BY <1>3, <1>4, <1>5

\* A step that hands its message to the step after it.
LEMMA PassOn ==
  ASSUME TypeOK, TypeOK', MessageInv, NEW th \in Thread, todo[th] # << >>,
         Now(th).op \in {"open_turn", "deliver"},
         NEW x \in Step, x.op \in {"write_turn", "write_delivery"}, x.msg = Now(th).msg, Promise(x)',
         Then(th, <<x>>), UNCHANGED <<told, handed, stops, exit>>, events'.resent = events.resent,
         s'.claims = s.claims, s'.queue = s.queue, s'.input = s.input, s'.held = s.held,
         \/ s'.delivered = s.delivered
         \/ Now(th).op = "deliver" /\ DOMAIN s'.delivered = DOMAIN s.delivered \cup {Now(th).msg}
  PROVE  MessageInv'
<1>p. PICK m : m = Now(th).msg
  OBVIOUS
<1> DEFINE steps == <<x>>
<1>0. /\ todo \in [Thread -> Seq(Step)] /\ Promises /\ MessagesApart /\ ResumeApart
      /\ (\A o \in Thread : Separate(todo[o])) /\ s.claims \in Nat
  BY DEF TypeOK, StateOK, RuntimeState, MessageInv
<1>1. /\ m \in Msg /\ Promise(Now(th)) /\ told[m] # "unsent"
      /\ MsgsIn(todo[th]) = {m} \cup MsgsIn(Rest(th)) /\ m \notin MsgsIn(Rest(th))
      /\ m \notin ToSet(s.queue) \cup ToSet(handed)
      /\ \A o \in Thread : \A j \in DOMAIN todo[o] : (o = th => j # 1) => m \notin MsgsOf(todo[o][j])
  BY <1>p, InHand
<1>2. /\ steps \in Seq(Step) /\ MsgsIn(steps) = {m} /\ AsksIn(steps) = {} /\ Separate(steps)
      /\ \A j \in DOMAIN steps : Promise(steps[j])' /\ steps[j].op # "requeue"
  BY <1>p, OneMessage
<1>3. Takes(th, steps)
  BY DEF Takes
<1> HIDE DEF steps
<1>4. MsgsIn(steps) \cap MsgsIn(Rest(th)) = {} /\ AsksIn(steps) \cap AsksIn(Rest(th)) = {}
  BY <1>1, <1>2
<1>5. /\ \A o \in Thread : Separate(todo'[o])
      /\ MsgsIn(todo'[th]) = MsgsIn(todo[th]) /\ \A o \in Thread \ {th} : todo'[o] = todo[o]
  <2>1. /\ \A o \in Thread : Separate(todo'[o])
        /\ MsgsIn(todo'[th]) = MsgsIn(steps) \cup MsgsIn(Rest(th)) /\ \A o \in Thread \ {th} : todo'[o] = todo[o]
    BY <1>0, <1>2, <1>3, <1>4, Moved
  <2> QED
    BY <1>1, <1>2, <2>1
<1>6. /\ DOMAIN s'.delivered \subseteq DOMAIN s.delivered \cup {m}
      /\ s'.delivered = s.delivered \/ m \notin s.input \cup Texts(s.held)
  BY <1>p, <1>1 DEF Promise
<1>7. Promises'
  <2>1. \A o \in Thread : \A j \in DOMAIN todo[o] : todo[o][j].op = "deliver" =>
          todo[o][j].msg \notin s'.input \cup Texts(s'.held)
    BY <1>0 DEF Promises, Promise
  <2>2. ASSUME NEW o \in Thread, NEW j \in DOMAIN todo[o], o = th => j # 1,
               todo[o][j].op \in {"open_turn", "write_turn", "deliver", "requeue"}
        PROVE  todo[o][j].msg \notin DOMAIN s'.delivered
    <3>1. m # todo[o][j].msg
      BY <1>1, <2>2 DEF MsgsOf
    <3>2. todo[o][j].msg \notin DOMAIN s.delivered
      BY <1>0, <2>2 DEF Promises, Promise
    <3> QED
      BY <1>6, <3>1, <3>2
  <2>3. s.claims <= s'.claims /\ (Alive' => Alive) /\ stops \subseteq stops' /\ told' = told
    BY <1>0 DEF Alive
  <2> QED
    BY <1>2, <1>3, <2>1, <2>2, <2>3, OthersKept
<1>8. MessagesApart'
  <2>1. Sent' = Sent /\ m \in Sent
    BY <1>1 DEF Sent
  <2>2. \A o \in Thread \ {th} : MsgsIn(todo'[o]) = MsgsIn(todo[o]) /\ {} \cap MsgsIn(todo[o]) = {}
    BY <1>5
  <2>3. MsgsIn(todo'[th]) \cap (ToSet(s'.queue) \cup ToSet(handed')) = {} /\ ToSet(s'.queue) \cap ToSet(handed') = {}
    BY <1>0, <1>5 DEF MessagesApart
  <2>4. ToSet(s'.queue) \cup ToSet(handed') \cup s'.input \cup Texts(s'.held) \cup DOMAIN s'.delivered \subseteq Sent'
    BY <1>0, <1>6, <2>1 DEF MessagesApart
  <2>5. IsInjective(s'.queue) /\ IsInjective(handed')
    BY <1>0 DEF MessagesApart
  <2>6. MsgsIn(todo'[th]) \cup ToSet(s'.queue) \cup ToSet(handed')
           \subseteq MsgsIn(todo[th]) \cup ToSet(s.queue) \cup ToSet(handed) \cup {}
    BY <1>5
  <2> QED
    BY <1>0, <2>2, <2>3, <2>4, <2>5, <2>6, ApartKept
<1>9. ResumeApart'
  BY <1>0, <1>1, <1>6 DEF ResumeApart
<1>10. Undone'
  <2>1. ~At(th, "unclaim")
    BY DEF At, Now
  <2>2. \A o \in Thread : \A i \in DOMAIN todo[o] :
          todo[o][i].op = "requeue" /\ todo[o][i].msg \in s'.input => todo[o][i].msg \in s.input
    OBVIOUS
  <2> QED
    BY <1>0, <1>2, <1>3, <2>1, <2>2, UndoneKept DEF MessageInv
<1>11. Here'
  BY <1>5, HereKept DEF MessageInv
<1> QED
  BY <1>5, <1>7, <1>8, <1>9, <1>10, <1>11 DEF MessageInv

LEMMA OpenKeeps ==
  ASSUME TypeOK, TypeOK', MessageInv, NEW th \in Thread, OpenedTurn(th)
  PROVE  MessageInv'
<1> USE DEF external, history
<1>p. PICK x : x = Now(th)
  OBVIOUS
<1>0. /\ todo[th] # << >> /\ x.op = "open_turn" /\ x \in Step /\ Promise(x) /\ EventsOK /\ "gone" \in Kind
  BY <1>p, HeadStep DEF OpenedTurn, At, Now, MessageInv, TypeOK, HistoryOK, EventsOK, Kind
<1>1. UNCHANGED <<s, told, handed, stops, exit>>
  BY DEF OpenedTurn
<1>2. CASE Spend("gone") /\ Then(th, FailTurn(Now(th)))
  <2>1. events'.resent = events.resent
    BY <1>0, <1>2, SpendTyped
  <2>2. Now(th).op \in {"open_turn", "write_turn"}
    BY <1>p, <1>0
  <2> QED
    BY <1>0, <1>1, <1>2, <2>1, <2>2, FailKeeps
<1>3. CASE UNCHANGED events /\ Then(th, <<[Now(th) EXCEPT !.op = "write_turn"]>>)
  <2>1. PICK y : y = [x EXCEPT !.op = "write_turn"]
    OBVIOUS
  <2>2. /\ y \in Step /\ y.op = "write_turn" /\ y.msg = x.msg /\ y.turn = x.turn /\ y.back = x.back
    BY <1>0, <2>1 DEF Step
  <2>3. Promise(y)'
    BY <1>0, <1>1, <2>2 DEF Promise, HasMsg, Posthumous, Stopping
  <2>4. Then(th, <<y>>)
    BY <1>p, <1>3, <2>1
  <2>5. Now(th).op \in {"open_turn", "deliver"} /\ y.op \in {"write_turn", "write_delivery"} /\ y.msg = Now(th).msg
    BY <1>p, <1>0, <2>2
  <2> QED
    BY <1>0, <1>1, <1>3, <2>2, <2>3, <2>4, <2>5, PassOn
<1> QED
  BY <1>2, <1>3 DEF OpenedTurn

\* A delivery is tracked before it is written.
LEMMA DeliverKeeps ==
  ASSUME TypeOK, TypeOK', MessageInv, NEW th \in Thread, Deliver(th)
  PROVE  MessageInv'
<1> USE DEF external, history
<1>p. PICK m : m = Now(th).msg
  OBVIOUS
<1>0. /\ todo[th] # << >> /\ Now(th).op = "deliver" /\ EventsOK /\ "gone" \in Kind /\ s \in RuntimeState
      /\ s.delivered \in Deliveries
  BY DEF Deliver, At, Now, TypeOK, StateOK, RuntimeState, HistoryOK, EventsOK, Kind
<1>1. UNCHANGED <<told, handed, stops, exit>>
  BY DEF Deliver
<1>2. m \in Msg /\ told[m] # "unsent" /\ told[m] # "accepted"
  BY <1>p, <1>0, InHand DEF Promise
<1>3. CASE Spend("gone") /\ Then(th, ForMsg("refuse", m)) /\ UNCHANGED s
  <2>1. events'.resent = events.resent
    BY <1>0, <1>3, SpendTyped
  <2>2. PICK steps : steps = ForMsg("refuse", m)
    OBVIOUS
  <2>3. /\ steps \in Seq(Step) /\ MsgsIn(steps) = {} /\ AsksIn(steps) = {} /\ Separate(steps)
        /\ \A j \in DOMAIN steps : Promise(steps[j])' /\ steps[j].op # "requeue"
    BY <1>1, <1>2, <2>2, GiveUpSteps
  <2>4. Then(th, steps) /\ Now(th).op \in {"write_turn", "deliver", "write_delivery"} /\ Now(th).op # "write_turn"
    BY <1>0, <1>3, <2>2
  <2> QED
    BY <1>0, <1>1, <1>3, <2>1, <2>3, <2>4, PutDown
<1>4. CASE /\ s' = [s EXCEPT !.delivered = [x \in DOMAIN @ \cup {m} |-> IF x = m THEN "sent" ELSE @[x]]]
           /\ Then(th, ForMsg("write_delivery", m)) /\ UNCHANGED events
  <2>1. PICK d : d = [x \in DOMAIN s.delivered \cup {m} |-> IF x = m THEN "sent" ELSE s.delivered[x]]
    OBVIOUS
  <2>2. s' = [s EXCEPT !.delivered = d] /\ DOMAIN d = DOMAIN s.delivered \cup {m}
    BY <1>4, <2>1
  <2>3. /\ s'.claims = s.claims /\ s'.queue = s.queue /\ s'.input = s.input /\ s'.held = s.held
        /\ s'.delivered = d
    BY <1>0, <2>2 DEF RuntimeState
  <2>4. PICK x : x = [op |-> "write_delivery", msg |-> m]
    OBVIOUS
  <2>5. x \in Step /\ x.op = "write_delivery" /\ x.msg = m
    BY <1>2, <2>4 DEF Step
  <2>6. Promise(x)'
    BY <1>1, <1>2, <2>5 DEF Promise, HasMsg, Posthumous, Stopping
  <2>7. Then(th, <<x>>)
    BY <1>4, <2>4 DEF ForMsg
  <2>8. /\ Now(th).op \in {"open_turn", "deliver"} /\ x.op \in {"write_turn", "write_delivery"} /\ x.msg = Now(th).msg
        /\ Now(th).op = "deliver" /\ DOMAIN s'.delivered = DOMAIN s.delivered \cup {Now(th).msg}
    BY <1>p, <1>0, <2>2, <2>3, <2>5
  <2>9. events'.resent = events.resent
    BY <1>4
  <2> QED
    BY <1>0, <1>1, <2>3, <2>5, <2>6, <2>7, <2>8, <2>9, PassOn
<1> QED
  BY <1>p, <1>3, <1>4 DEF Deliver

LEMMA PrependedRange ==
  ASSUME NEW S, NEW a \in Seq(S), NEW x \in S
  PROVE  /\ <<x>> \o a \in Seq(S) /\ ToSet(<<x>> \o a) = {x} \cup ToSet(a)
         /\ (IsInjective(a) /\ x \notin ToSet(a) => IsInjective(<<x>> \o a))
<1> DEFINE b == <<x>>
           c == b \o a
<1>1. b \in Seq(S) /\ Len(b) = 1 /\ DOMAIN b = {1} /\ b[1] = x
  OBVIOUS
<1> HIDE DEF b
<1>2. c \in Seq(S) /\ ToSet(c) = ToSet(b) \cup ToSet(a)
  BY <1>1, Concatenated, ConcatenatedRange
<1>3. ToSet(b) = {x}
  BY <1>1 DEF ToSet
<1>4. \A i \in DOMAIN c : (i = 1 /\ c[i] = x) \/ (i \in Nat /\ i - 1 \in DOMAIN a /\ c[i] = a[i - 1])
  <2> TAKE i \in DOMAIN c
  <2>1. i \in Nat /\ ((i \in DOMAIN b /\ c[i] = b[i]) \/ (i - 1 \in DOMAIN a /\ c[i] = a[i - 1]))
    BY <1>1, <1>2, Concatenated
  <2> QED
    BY <1>1, <2>1
<1> HIDE DEF c
<1>5. ASSUME IsInjective(a), x \notin ToSet(a) PROVE IsInjective(c)
  <2> SUFFICES ASSUME NEW i \in DOMAIN c, NEW j \in DOMAIN c, c[i] = c[j] PROVE i = j
    BY DEF IsInjective
  <2>1. \A k \in DOMAIN a : a[k] # x
    BY <1>5 DEF ToSet
  <2>2. CASE i - 1 \in DOMAIN a /\ j - 1 \in DOMAIN a /\ c[i] = a[i - 1] /\ c[j] = a[j - 1] /\ i \in Nat /\ j \in Nat
    <3>1. i - 1 = j - 1
      BY <1>5, <2>2 DEF IsInjective
    <3> QED
      BY <2>2, <3>1
  <2> QED
    BY <1>4, <2>1, <2>2
<1> QED
  BY <1>2, <1>3, <1>5 DEF b, c

\* A message is put back at the front of the queue.
LEMMA RequeueKeeps ==
  ASSUME TypeOK, TypeOK', MessageInv, NEW th \in Thread, requeue_front(th)
  PROVE  MessageInv'
<1> USE DEF external, history
<1>p. PICK m : m = Now(th).msg
  OBVIOUS
<1>0. /\ todo \in [Thread -> Seq(Step)] /\ Promises /\ MessagesApart /\ ResumeApart /\ s \in RuntimeState
      /\ (\A o \in Thread : Separate(todo[o])) /\ s.claims \in Nat /\ s.queue \in Seq(Msg)
      /\ events \in [budget : Budgets, count : [Kind \cup {AnyKind} -> Nat], resent : BOOLEAN]
  BY DEF TypeOK, StateOK, RuntimeState, HistoryOK, MessageInv
<1>1. /\ todo[th] # << >> /\ Now(th).op = "requeue" /\ Then(th, << >>)
      /\ s' = [s EXCEPT !.queue = <<m>> \o s.queue] /\ UNCHANGED <<told, handed, stops, exit>>
      /\ events' = [events EXCEPT !.resent = events.resent \/ m \in Texts(s.held)]
  BY <1>p DEF requeue_front, At, Now
<1>2. /\ m \in Msg /\ Promise(Now(th)) /\ told[m] # "unsent"
      /\ MsgsIn(todo[th]) = {m} \cup MsgsIn(Rest(th)) /\ m \notin MsgsIn(Rest(th))
      /\ m \notin ToSet(s.queue) \cup ToSet(handed)
      /\ \A o \in Thread \ {th} : m \notin MsgsIn(todo[o])
  BY <1>p, <1>1, InHand
<1>3. /\ s'.claims = s.claims /\ s'.queue = <<m>> \o s.queue /\ s'.input = s.input /\ s'.held = s.held
      /\ s'.delivered = s.delivered /\ events'.resent = (events.resent \/ m \in Texts(s.held))
  BY <1>0, <1>1 DEF RuntimeState
<1>4. ToSet(s'.queue) = {m} \cup ToSet(s.queue) /\ IsInjective(s'.queue)
  BY <1>0, <1>2, <1>3, PrependedRange DEF MessagesApart
<1>5. m \notin s.input /\ m \notin DOMAIN s.delivered
  <2>1. 1 \in DOMAIN todo[th] /\ todo[th][1] = Now(th)
    BY <1>0, <1>1, HeadAndTail DEF Now
  <2>2. m \in s.input => At(th, "unclaim")
    BY <1>p, <1>1, <2>1 DEF MessageInv, Undone
  <2> QED
    BY <1>p, <1>1, <1>2, <2>2 DEF At, Now, Promise
<1>6. Takes(th, << >>) /\ << >> \in Seq(Step)
  BY <1>1 DEF Takes
<1>7. /\ \A o \in Thread : Separate(todo'[o])
      /\ MsgsIn(todo'[th]) = MsgsIn(Rest(th)) /\ \A o \in Thread \ {th} : todo'[o] = todo[o]
  <2>1. /\ \A o \in Thread : Separate(todo'[o])
        /\ MsgsIn(todo'[th]) = MsgsIn(<< >>) \cup MsgsIn(Rest(th)) /\ \A o \in Thread \ {th} : todo'[o] = todo[o]
    BY <1>0, <1>6, CarriedByFew, Moved
  <2> QED
    BY <2>1, CarriedByFew
<1>8. Promises'
  <2>1. \A o \in Thread : \A j \in DOMAIN todo[o] : todo[o][j].op = "deliver" =>
          todo[o][j].msg \notin s'.input \cup Texts(s'.held)
    BY <1>0, <1>3 DEF Promises, Promise
  <2>2. \A o \in Thread : \A j \in DOMAIN todo[o] : todo[o][j].op \in {"open_turn", "write_turn", "deliver", "requeue"} =>
          todo[o][j].msg \notin DOMAIN s'.delivered
    BY <1>0, <1>3 DEF Promises, Promise
  <2>3. s.claims <= s'.claims /\ (Alive' => Alive) /\ stops \subseteq stops' /\ told' = told
    BY <1>0, <1>1, <1>3 DEF Alive
  <2>4. \A j \in DOMAIN << >> : Promise(<< >>[j])'
    OBVIOUS
  <2> QED
    BY <1>6, <2>1, <2>2, <2>3, <2>4, OthersKept
<1>9. MessagesApart'
  <2>0. PICK X : X = {m}
    OBVIOUS
  <2>1. Sent' = Sent /\ m \in Sent
    BY <1>1, <1>2 DEF Sent
  <2>2. \A o \in Thread \ {th} : MsgsIn(todo'[o]) = MsgsIn(todo[o]) /\ X \cap MsgsIn(todo[o]) = {}
    BY <1>2, <1>7, <2>0
  <2>3. MsgsIn(todo'[th]) \cap (ToSet(s'.queue) \cup ToSet(handed')) = {}
    BY <1>0, <1>1, <1>2, <1>4, <1>7 DEF MessagesApart
  <2>3a. ToSet(s'.queue) \cap ToSet(handed') = {}
    BY <1>0, <1>1, <1>2, <1>4 DEF MessagesApart
  <2>4. ToSet(s'.queue) \cup ToSet(handed') \cup s'.input \cup Texts(s'.held) \cup DOMAIN s'.delivered \subseteq Sent'
    BY <1>0, <1>1, <1>3, <1>4, <2>1 DEF MessagesApart
  <2>5. IsInjective(s'.queue) /\ IsInjective(handed')
    BY <1>0, <1>1, <1>4 DEF MessagesApart
  <2>6. MsgsIn(todo'[th]) \cup ToSet(s'.queue) \cup ToSet(handed')
           \subseteq MsgsIn(todo[th]) \cup ToSet(s.queue) \cup ToSet(handed) \cup X
    BY <1>1, <1>2, <1>4, <1>7, <2>0
  <2> QED
    BY <1>0, <2>2, <2>3, <2>3a, <2>4, <2>5, <2>6, ApartKept
<1>10. ResumeApart'
  BY <1>0, <1>3, <1>4, <1>5 DEF ResumeApart
<1>11. Undone'
  <2>1. ~At(th, "unclaim")
    BY <1>1 DEF At, Now
  <2>2. \A o \in Thread : \A i \in DOMAIN todo[o] :
          todo[o][i].op = "requeue" /\ todo[o][i].msg \in s'.input => todo[o][i].msg \in s.input
    BY <1>3
  <2>3. \A j \in DOMAIN << >> : << >>[j].op = "requeue" => At(th, "unclaim")'
    OBVIOUS
  <2> QED
    BY <1>0, <1>6, <2>1, <2>2, <2>3, UndoneKept DEF MessageInv
<1>12. Here'
  BY <1>1, <1>2, <1>4, <1>7, HereKept DEF MessageInv
<1> QED
  BY <1>7, <1>8, <1>9, <1>10, <1>11, <1>12 DEF MessageInv

\* What is remembered of a message changes: the running input, the kept ones, the deliveries.
LEMMA RememberKeeps ==
  ASSUME TypeOK, TypeOK', MessageInv, NEW th \in Thread, todo[th] # << >>, Lightly(th), Now(th).op # "unclaim",
         UNCHANGED <<told, handed, stops, exit>>, s.claims <= s'.claims,
         s'.queue = s.queue \/ (s'.queue = << >> /\ stops # {}),
         s'.input \subseteq s.input \cup DOMAIN s.delivered,
         Texts(s'.held) \subseteq s.input \cup Texts(s.held) \cup ToSet(s.queue),
         DOMAIN s'.delivered \subseteq DOMAIN s.delivered, ResumeApart'
  PROVE  MessageInv'
<1>0. /\ todo \in [Thread -> Seq(Step)] /\ Promises /\ MessagesApart /\ ResumeApart
      /\ (\A o \in Thread : Separate(todo[o]))
  BY DEF TypeOK, MessageInv
<1>1. PICK steps : Harmless(steps) /\ Takes(th, steps) /\ MsgsOf(Now(th)) = {}
  BY DEF Lightly
<1>2. /\ steps \in Seq(Step) /\ \A j \in DOMAIN steps : Promise(steps[j])' /\ steps[j].op # "requeue"
  BY <1>1, HarmlessCarry DEF Harmless, Light, HasMsg
<1>3. /\ \A o \in Thread : MsgsIn(todo'[o]) = MsgsIn(todo[o]) /\ Separate(todo'[o])
      /\ \A o \in Thread \ {th} : todo'[o] = todo[o]
  BY <1>0, <1>1, <1>2, LightlyTaken, StepTaken
<1>4. ToSet(s'.queue) \subseteq ToSet(s.queue) /\ IsInjective(s'.queue)
  BY <1>0, EmptyRange DEF MessagesApart
<1>5. Promises'
  <2>1. ASSUME NEW o \in Thread, NEW j \in DOMAIN todo[o], todo[o][j].op = "deliver"
        PROVE  todo[o][j].msg \notin s'.input \cup Texts(s'.held)
    <3>1. PICK y \in Step : y = todo[o][j]
      BY <1>0
    <3>2. y.msg \notin s.input \cup Texts(s.held) /\ y.msg \notin DOMAIN s.delivered
      BY <1>0, <2>1, <3>1 DEF Promises, Promise
    <3>3. y.msg \in MsgsIn(todo[o])
      BY <2>1, <3>1 DEF MsgsIn, MsgsOf
    <3>4. y.msg \notin ToSet(s.queue)
      BY <1>0, <3>3 DEF MessagesApart
    <3> QED
      BY <3>1, <3>2, <3>4
  <2>2. \A o \in Thread : \A j \in DOMAIN todo[o] : todo[o][j].op \in {"open_turn", "write_turn", "deliver", "requeue"} =>
          todo[o][j].msg \notin DOMAIN s'.delivered
    BY <1>0 DEF Promises, Promise
  <2>3. (Alive' => Alive) /\ stops \subseteq stops' /\ told' = told
    BY DEF Alive
  <2> QED
    BY <1>1, <1>2, <2>1, <2>2, <2>3, OthersKept
<1>6. MessagesApart'
  <2>1. Sent' = Sent
    BY DEF Sent
  <2> QED
    BY <1>0, <1>3, <1>4, <2>1 DEF MessagesApart
<1>7. Undone'
  <2>1. ~At(th, "unclaim")
    BY DEF At, Now
  <2>2. \A o \in Thread : \A i \in DOMAIN todo[o] :
          todo[o][i].op = "requeue" /\ todo[o][i].msg \in s'.input => todo[o][i].msg \in s.input
    BY <1>0 DEF Promises, Promise
  <2> QED
    BY <1>0, <1>1, <1>2, <2>1, <2>2, UndoneKept DEF MessageInv
<1>8. Here'
  <2>1. stops' = {} => s'.queue = s.queue
    OBVIOUS
  <2> QED
    BY <1>3, <2>1, HereKept DEF MessageInv
<1> QED
  BY <1>3, <1>5, <1>6, <1>7, <1>8 DEF MessageInv

-----------------------------------------------------------------------------
(* What is kept for a resume.                                              *)

Disjoint(held) == \A i, j \in DOMAIN held : i # j => held[i].text \cap held[j].text = {}

LEMMA TextsTogether ==
  ASSUME NEW a \in Seq(Held), NEW b \in Seq(Held)
  PROVE  /\ Texts(a \o b) = Texts(a) \cup Texts(b)
         /\ Disjoint(a) /\ Disjoint(b) /\ Texts(a) \cap Texts(b) = {} => Disjoint(a \o b)
<1> DEFINE c == a \o b
<1>1. /\ Len(a) \in Nat /\ ToSet(c) = ToSet(a) \cup ToSet(b) /\ \A i \in DOMAIN c : i \in Nat
      /\ \A i \in DOMAIN c : (i \in DOMAIN a /\ c[i] = a[i]) \/ (i - Len(a) \in DOMAIN b /\ c[i] = b[i - Len(a)])
  BY Concatenated, ConcatenatedRange
<1>2. /\ \A i \in DOMAIN a : a[i].text \subseteq Texts(a)
      /\ \A i \in DOMAIN b : b[i].text \subseteq Texts(b)
  BY DEF Texts, ToSet
<1> HIDE DEF c
<1>3. Texts(c) = Texts(a) \cup Texts(b)
  BY <1>1 DEF Texts
<1>4. ASSUME Disjoint(a), Disjoint(b), Texts(a) \cap Texts(b) = {} PROVE Disjoint(c)
  <2> SUFFICES ASSUME NEW i \in DOMAIN c, NEW j \in DOMAIN c, i # j PROVE c[i].text \cap c[j].text = {}
    BY DEF Disjoint
  <2>1. CASE i \in DOMAIN a /\ c[i] = a[i] /\ j \in DOMAIN a /\ c[j] = a[j]
    BY <1>4, <2>1 DEF Disjoint
  <2>2. CASE i - Len(a) \in DOMAIN b /\ c[i] = b[i - Len(a)] /\ j - Len(a) \in DOMAIN b /\ c[j] = b[j - Len(a)]
    <3>1. i - Len(a) # j - Len(a)
      BY <1>1
    <3> QED
      BY <1>4, <2>2, <3>1 DEF Disjoint
  <2>3. CASE i \in DOMAIN a /\ c[i] = a[i] /\ j - Len(a) \in DOMAIN b /\ c[j] = b[j - Len(a)]
    BY <1>2, <1>4, <2>3
  <2>4. CASE i - Len(a) \in DOMAIN b /\ c[i] = b[i - Len(a)] /\ j \in DOMAIN a /\ c[j] = a[j]
    BY <1>2, <1>4, <2>4
  <2> QED
    BY <1>1, <2>1, <2>2, <2>3, <2>4
<1> QED
  BY <1>3, <1>4 DEF c

\* A usage limit moves the running input to what is kept.
LEMMA ErrorKeeps ==
  ASSUME TypeOK, TypeOK', MessageInv, NEW th \in Thread, apply_error_event(th)
  PROVE  MessageInv'
<1>0. /\ s \in RuntimeState /\ s.claims \in Nat /\ s.held \in Seq(Held) /\ s.input \in SUBSET Msg /\ ResumeApart
  BY DEF TypeOK, StateOK, RuntimeState, MessageInv
<1>1. /\ todo[th] # << >> /\ Now(th).op = "error" /\ Lightly(th)
      /\ UNCHANGED <<told, handed, stops, exit, events>>
  BY Quiet1Lightly DEF apply_error_event, Quiet1, At, Now, external, history
<1>2. CASE UNCHANGED s
  <2>1. ResumeApart'
    BY <1>0, <1>1, <1>2 DEF ResumeApart
  <2> QED
    BY <1>0, <1>1, <1>2, <2>1, RememberKeeps
<1>3. CASE ~UNCHANGED s
  <2>1. PICK h : h = IF Len(s.held) < MAX_QUEUED_MESSAGES
                     THEN Append(s.held, [text |-> s.input, started |-> TRUE]) ELSE s.held
    OBVIOUS
  <2>2. s' = [s EXCEPT !.input = {}, !.held = h]
    BY <1>3, <2>1 DEF apply_error_event
  <2>3. /\ s'.claims = s.claims /\ s'.queue = s.queue /\ s'.input = {} /\ s'.held = h /\ s'.delivered = s.delivered
    BY <1>0, <2>2 DEF RuntimeState
  <2>4. /\ Texts(h) \subseteq Texts(s.held) \cup s.input
        /\ Disjoint(s.held) /\ s.input \cap Texts(s.held) = {} => Disjoint(h)
    <3> DEFINE x == [text |-> s.input, started |-> TRUE]
               one == <<x>>
    <3>1. one \in Seq(Held) /\ DOMAIN one = {1} /\ one[1].text = s.input /\ Append(s.held, x) = s.held \o one
      <4>1. x \in Held /\ x.text = s.input
        BY <1>0 DEF Held
      <4>2. \A y \in Held : Append(s.held, y) = s.held \o <<y>>
        BY <1>0
      <4> HIDE DEF x
      <4> QED
        BY <4>1, <4>2
    <3> HIDE DEF one
    <3>2. Texts(one) = s.input /\ Disjoint(one)
      BY <3>1 DEF Texts, ToSet, Disjoint
    <3>3. Texts(s.held \o one) = Texts(s.held) \cup s.input
      BY <1>0, <3>1, <3>2, TextsTogether
    <3>4. Disjoint(s.held) /\ s.input \cap Texts(s.held) = {} => Disjoint(s.held \o one)
      BY <1>0, <3>1, <3>2, TextsTogether
    <3>5. h = s.held \o one \/ h = s.held
      BY <2>1, <3>1
    <3> QED
      BY <3>3, <3>4, <3>5
  <2>5. ResumeApart'
    BY <1>0, <1>1, <2>3, <2>4 DEF ResumeApart, Disjoint
  <2>6. s.claims <= s'.claims /\ Now(th).op # "unclaim"
    BY <1>0, <1>1, <2>3
  <2> QED
    BY <1>1, <2>3, <2>4, <2>5, <2>6, RememberKeeps
<1> QED
  BY <1>2, <1>3

\* The end for a usage limit moves the queue to what is kept.
LEMMA PreserveKeeps ==
  ASSUME TypeOK, TypeOK', MessageInv, NEW th \in Thread, Preserve(th)
  PROVE  MessageInv'
<1>0. /\ s \in RuntimeState /\ s.claims \in Nat /\ s.held \in Seq(Held) /\ s.queue \in Seq(Msg)
      /\ ResumeApart /\ IsInjective(s.queue)
  BY DEF TypeOK, StateOK, RuntimeState, MessageInv, MessagesApart
<1>1. /\ todo[th] # << >> /\ Now(th).op = "preserve" /\ Lightly(th)
      /\ UNCHANGED <<told, handed, stops, exit, events>>
  BY Quiet1Lightly DEF Preserve, Quiet1, At, Now, external, history
<1>2. stops # {}
  BY <1>1, HeadStep DEF Promise, Stopping, MessageInv
<1> DEFINE more == [i \in 1 .. Len(s.queue) |-> [text |-> {s.queue[i]}, started |-> FALSE]]
<1>3. more \in Seq(Held) /\ DOMAIN more = DOMAIN s.queue /\ \A i \in DOMAIN more : more[i].text = {s.queue[i]}
  BY <1>0 DEF Held
<1>4. s' = [s EXCEPT !.queue = << >>, !.held = s.held \o more]
  BY DEF Preserve
<1> HIDE DEF more
<1>5. /\ s'.claims = s.claims /\ s'.queue = << >> /\ s'.input = s.input /\ s'.held = s.held \o more
      /\ s'.delivered = s.delivered
  BY <1>0, <1>4 DEF RuntimeState
<1>6. Texts(more) = ToSet(s.queue)
  BY <1>3 DEF Texts, ToSet
<1>7. Disjoint(more)
  BY <1>0, <1>3 DEF Disjoint, IsInjective
<1>8. /\ Texts(s'.held) = Texts(s.held) \cup ToSet(s.queue)
      /\ Disjoint(s.held) /\ Texts(s.held) \cap ToSet(s.queue) = {} => Disjoint(s'.held)
  BY <1>0, <1>3, <1>5, <1>6, <1>7, TextsTogether
<1>9. ResumeApart'
  BY <1>0, <1>1, <1>5, <1>8, EmptyRange DEF ResumeApart, Disjoint
<1>10. s.claims <= s'.claims /\ Now(th).op # "unclaim"
  BY <1>0, <1>1, <1>5
<1> QED
  BY <1>1, <1>2, <1>5, <1>8, <1>9, <1>10, RememberKeeps

\* Deliveries that were not taken in become the input of the turn the CLI works on.
LEMMA AdoptKeeps ==
  ASSUME TypeOK, TypeOK', MessageInv, Gone, NEW th \in Thread, Adopt(th), ~Mild
  PROVE  MessageInv'
<1>0. /\ s \in RuntimeState /\ s.claims \in Nat /\ ResumeApart /\ Promises
  BY DEF TypeOK, StateOK, RuntimeState, MessageInv
<1>1. /\ todo[th] # << >> /\ Now(th).op = "adopt" /\ UNCHANGED <<told, handed, stops, exit, events>>
  BY DEF Adopt, At, Now, external, history
<1>2. Lightly(th)
  BY <1>0, Quiet2Lightly DEF Quiet2
<1>3. CASE s' = [s EXCEPT !.delivered = << >>]
  <2>1. UNCHANGED Fields /\ s'.input \subseteq s.input /\ DOMAIN s'.delivered \subseteq DOMAIN s.delivered
    BY <1>0, <1>3, NoDelivery DEF Fields, RuntimeState
  <2>2. MildState
    BY <2>1, MildFields
  <2>3. MildHistory
    BY <1>1, MildFrame DEF Counts
  <2>4. SameHands
    BY <1>1, <1>2, LightlySame
  <2> QED
    BY <2>2, <2>3, <2>4, MildParts
<1>4. CASE s' = claim_turn([s EXCEPT !.delivered = << >>], take_unstarted_deliveries(s.delivered))
  <2>1. PICK taken : taken = take_unstarted_deliveries(s.delivered)
    OBVIOUS
  <2>2. taken \subseteq DOMAIN s.delivered
    BY <2>1 DEF take_unstarted_deliveries
  <2>3. PICK empty : empty = << >> /\ DOMAIN empty = {}
    BY NoDelivery
  <2>4. s' = claim_turn([s EXCEPT !.delivered = empty], taken)
    BY <1>4, <2>1, <2>3
  <2>5. /\ s'.claims = s.claims + 1 /\ s'.queue = s.queue /\ s'.input = taken /\ s'.held = s.held
        /\ s'.delivered = empty
    BY <1>0, <2>4 DEF claim_turn, RuntimeState
  <2>6. ResumeApart'
    BY <1>0, <1>1, <2>2, <2>3, <2>5 DEF ResumeApart
  <2>7. /\ s.claims <= s'.claims /\ s'.input \subseteq s.input \cup DOMAIN s.delivered
        /\ Texts(s'.held) \subseteq s.input \cup Texts(s.held) \cup ToSet(s.queue)
        /\ DOMAIN s'.delivered \subseteq DOMAIN s.delivered /\ Now(th).op # "unclaim"
    BY <1>0, <1>1, <2>2, <2>3, <2>5
  <2> QED
    BY <1>1, <1>2, <2>5, <2>6, <2>7, RememberKeeps
<1> QED
  BY <1>3, <1>4 DEF Adopt

\* A drain that finds nothing to do moves nothing.
LEMMA DrainIdle ==
  ASSUME TypeOK, NEW th \in Thread, Drain(th), ~(s.phase = "ready" /\ s.queue # << >>)
  PROVE  Mild /\ Lightly(th)
<1>1. /\ todo[th] # << >> /\ Now(th).op = "drain" /\ Then(th, << >>)
      /\ UNCHANGED <<s, told, handed, stops, exit, events>>
  BY DEF Drain, At, Now, external, history
<1>2. Lightly(th)
  BY <1>1, HarmlessNone DEF Lightly, Takes, MsgsOf
<1>3. MildState /\ MildHistory /\ SameHands
  BY <1>1, <1>2, MildFrame, LightlySame DEF Counts
<1> QED
  BY <1>2, <1>3, MildParts

-----------------------------------------------------------------------------
(* Who has a message, after any step.                                      *)

\* The steps that take requests in hand, or put them down.
Asking(th) ==
  \/ WriteAnswer(th) \/ Reinsert(th) \/ cancel_pending_approvals(th) \/ Respond(th)
  \/ \E a \in Ask, d \in Decision : Approve(th, a, d)

\* Every step moves messages, or requests, or neither.
LEMMA NextSplit ==
  ASSUME TypeOK, Promises, Gone, Next
  PROVE  \/ UNCHANGED todo \/ (\E th \in Thread : Lightly(th)) \/ (\E th \in Thread : Asking(th))
         \/ (\E th \in Thread : Carries(th)) \/ (\E th \in Client : Brings(th))
<1>1. ASSUME NEW th \in Thread, Advance(th) PROVE UNCHANGED todo \/ Lightly(th) \/ Asking(th) \/ Carries(th)
  <2>1. Wait(th) => UNCHANGED todo
    BY DEF Wait
  <2>2. Laden(th) => Asking(th) \/ Carries(th)
    BY DEF Laden, Asking, Carries
  <2> QED
    BY <1>1, <2>1, <2>2, AdvanceSplit, Quiet1Lightly, Quiet2Lightly
<1>2. ASSUME NEW th \in Client, Call(th) PROVE UNCHANGED todo \/ Lightly(th) \/ Asking(th) \/ Brings(th)
  <2>1. \A m \in Msg : SendRefused(th, m) => UNCHANGED todo
    BY DEF SendRefused
  <2>2. Interrupt(th) \/ Stop(th) => Lightly(th)
    BY Threads, CallsLightly
  <2> QED
    BY <1>2, <2>1, <2>2 DEF Call, Send, Asking, Brings
<1>3. Read => UNCHANGED todo \/ Lightly(Reader)
  <2>1. ReadLifecycle => UNCHANGED todo
    BY DEF ReadLifecycle
  <2> QED
    BY <2>1, ReadsLightly, CancelLightly DEF Read
<1>4. Poll \/ TurnWatchdog \/ InterruptWatchdog => Lightly(Monitor) \/ Lightly(Dog)
  BY WatchLightly
<1>5. InterruptSeen \/ Cli \/ CliMay => UNCHANGED todo
  BY DEF InterruptSeen, Cli, CliMay, CliTakesMessage, CliTakesInterrupt, CliTakesAnswer, CliSpeaks, CliNext, CliEnds,
         CliAsks, CliWithdraws, CliWakes, CliExits, CliFreezes
<1> QED
  BY <1>1, <1>2, <1>3, <1>4, <1>5, Threads DEF Next

\* The requests of a list whose head is taken.
LEMMA AskMoved ==
  ASSUME TypeOK, \A x \in Thread : Separate(todo[x]), RequestsApart,
         NEW th \in Thread, NEW steps \in Seq(Step), Takes(th, steps), MsgsIn(steps) = {}, Separate(steps),
         AsksIn(steps) \subseteq s.approvals \cup (IF todo[th] = << >> THEN {} ELSE AsksOf(Now(th)))
  PROVE  /\ \A x \in Thread : Separate(todo'[x])
         /\ AsksIn(todo'[th]) = AsksIn(steps) \cup AsksIn(Rest(th))
         /\ AsksIn(Rest(th)) \subseteq AsksIn(todo[th])
         /\ todo[th] # << >> => AsksOf(Now(th)) \subseteq AsksIn(todo[th]) /\ AsksOf(Now(th)) \cap AsksIn(Rest(th)) = {}
         /\ \A o \in Thread \ {th} : todo'[o] = todo[o]
<1>0. todo \in [Thread -> Seq(Step)]
  BY DEF TypeOK
<1>1. /\ AsksIn(Rest(th)) \subseteq AsksIn(todo[th])
      /\ todo[th] # << >> => AsksOf(Now(th)) \subseteq AsksIn(todo[th]) /\ AsksOf(Now(th)) \cap AsksIn(Rest(th)) = {}
      /\ todo[th] = << >> => AsksIn(todo[th]) = {}
  BY <1>0, RestOf
<1>2. AsksIn(todo[th]) \cap s.approvals = {}
  BY DEF RequestsApart
<1>3. AsksIn(steps) \cap AsksIn(Rest(th)) = {} /\ MsgsIn(steps) \cap MsgsIn(Rest(th)) = {}
  BY <1>1, <1>2
<1>4. /\ \A x \in Thread : Separate(todo'[x])
      /\ AsksIn(todo'[th]) = AsksIn(steps) \cup AsksIn(Rest(th))
      /\ \A o \in Thread \ {th} : todo'[o] = todo[o]
  BY <1>0, <1>3, Moved
<1> QED
  BY <1>1, <1>4

\* What the steps about requests do with them.
LEMMA AskingDoes ==
  ASSUME TypeOK, \A x \in Thread : Separate(todo[x]), RequestsApart, NEW th \in Thread, Asking(th)
  PROVE  \E steps \in Seq(Step) :
           /\ Takes(th, steps) /\ MsgsIn(steps) = {} /\ Separate(steps) /\ UNCHANGED <<fresh, outbox>>
           /\ LET old == IF todo[th] = << >> THEN {} ELSE AsksOf(Now(th)) IN
              /\ AsksIn(steps) \subseteq s.approvals \cup old
              /\ s'.approvals \subseteq s.approvals \cup old
              /\ AsksIn(steps) \cap s'.approvals = {}
              /\ \/ answered' = answered
                 \/ \E a \in old : a \in Ask /\ answered' = Append(answered, a) /\ a \notin AsksIn(steps) \cup s'.approvals
<1>0. /\ s \in RuntimeState /\ s.approvals \in SUBSET Ask /\ (todo[th] # << >> => Now(th) \in Step)
  BY HeadStep DEF TypeOK, StateOK, RuntimeState
<1>1. UNCHANGED <<fresh, outbox>>
  BY DEF Asking, WriteAnswer, Reinsert, cancel_pending_approvals, Respond, Approve, external
<1>2. \A x \in Step : MsgsOf(x) = {} => <<x>> \in Seq(Step) /\ MsgsIn(<<x>>) = {} /\ Separate(<<x>>) /\ AsksIn(<<x>>) = AsksOf(x)
  BY CarriedByFew
<1>3. ASSUME NEW a \in Ask
      PROVE  /\ [op |-> "reinsert", ask |-> a] \in Step /\ MsgsOf([op |-> "reinsert", ask |-> a]) = {}
             /\ AsksOf([op |-> "reinsert", ask |-> a]) = {a}
             /\ \A d \in Decision : /\ [op |-> "answer", ask |-> a, decision |-> d] \in Step
                                    /\ MsgsOf([op |-> "answer", ask |-> a, decision |-> d]) = {}
                                    /\ AsksOf([op |-> "answer", ask |-> a, decision |-> d]) = {a}
  BY DEF Step, MsgsOf, AsksOf
<1>4. ASSUME NEW A \in SUBSET Ask
      PROVE  /\ Responses(A) \in Seq(Step) /\ MsgsIn(Responses(A)) = {} /\ Separate(Responses(A))
             /\ AsksIn(Responses(A)) = A
  <2>1. CASE A = {}
    BY <2>1, CarriedByFew DEF Responses
  <2>2. CASE A # {}
    <3>1. PICK x : x = [op |-> "respond", asks |-> A]
      OBVIOUS
    <3>2. x \in Step /\ MsgsOf(x) = {} /\ AsksOf(x) = A
      BY <3>1 DEF Step, MsgsOf, AsksOf
    <3> QED
      BY <1>2, <2>2, <3>1, <3>2 DEF Responses
  <2> QED
    BY <2>1, <2>2
<1>5. CASE \E a \in Ask, d \in Decision : Approve(th, a, d)
  <2>1. PICK a \in Ask, d \in Decision : Approve(th, a, d)
    BY <1>5
  <2>2. PICK x : x = IF d = "acceptAll" THEN [op |-> "reinsert", ask |-> a] ELSE [op |-> "answer", ask |-> a, decision |-> d]
    OBVIOUS
  <2>3. x \in Step /\ MsgsOf(x) = {} /\ AsksOf(x) = {a}
    BY <1>3, <2>2
  <2>4. /\ a \in s.approvals /\ s' = [s EXCEPT !.approvals = s.approvals \ {a}] /\ Begin(th, <<x>>)
        /\ answered' = answered
    BY <2>1, <2>2 DEF Approve, history
  <2>5. s'.approvals = s.approvals \ {a}
    BY <1>0, <2>4 DEF RuntimeState
  <2>6. todo[th] = << >> /\ Takes(th, <<x>>)
    BY <2>4 DEF Begin, Takes
  <2>7. <<x>> \in Seq(Step) /\ MsgsIn(<<x>>) = {} /\ Separate(<<x>>) /\ AsksIn(<<x>>) = {a}
    BY <1>2, <2>3
  <2>8. PICK steps \in Seq(Step) : steps = <<x>>
    BY <2>7
  <2> QED
    BY <1>1, <2>4, <2>5, <2>6, <2>7, <2>8
<1>6. CASE WriteAnswer(th)
  <2>1. todo[th] # << >> /\ Now(th).op = "answer" /\ UNCHANGED s
    BY <1>6 DEF WriteAnswer, Writing, At, Now
  <2>2. PICK a, d : a = Now(th).ask /\ d = Now(th).decision
    OBVIOUS
  <2>3. a \in Ask /\ d \in Decision /\ AsksOf(Now(th)) = {a}
    BY <1>0, <2>1, <2>2, StepFields DEF AsksOf
  <2>3a. {a} \cap s.approvals = {}
    BY <2>1, <2>3, RestOf DEF RequestsApart, TypeOK
  <2>4. CASE CanWrite
    <3>1. PICK x : x = [op |-> "note", decision |-> d]
      OBVIOUS
    <3>2. x \in Step /\ MsgsOf(x) = {} /\ AsksOf(x) = {}
      BY <2>3, <3>1 DEF Step, MsgsOf, AsksOf
    <3>3. <<x>> \in Seq(Step) /\ MsgsIn(<<x>>) = {} /\ Separate(<<x>>) /\ AsksIn(<<x>>) = {}
      BY <1>2, <3>2
    <3>4. Takes(th, <<x>>) /\ answered' = Append(answered, a)
      BY <1>6, <2>1, <2>2, <2>4, <3>1 DEF WriteAnswer, Takes
    <3>5. PICK steps \in Seq(Step) : steps = <<x>>
      BY <3>3
    <3> QED
      BY <1>1, <2>1, <2>3, <2>3a, <3>3, <3>4, <3>5
  <2>5. CASE ~CanWrite
    <3>1. PICK x : x = [op |-> "reinsert", ask |-> a]
      OBVIOUS
    <3>2. <<x>> \in Seq(Step) /\ MsgsIn(<<x>>) = {} /\ Separate(<<x>>) /\ AsksIn(<<x>>) = {a}
      BY <1>2, <1>3, <2>3, <3>1
    <3>3. Takes(th, <<x>>) /\ answered' = answered
      BY <1>6, <2>1, <2>2, <2>5, <3>1 DEF WriteAnswer, Takes
    <3>4. PICK steps \in Seq(Step) : steps = <<x>>
      BY <3>2
    <3> QED
      BY <1>1, <2>1, <2>3, <2>3a, <3>2, <3>3, <3>4
  <2> QED
    BY <2>4, <2>5
<1>7. CASE Reinsert(th)
  <2>1. todo[th] # << >> /\ Now(th).op = "reinsert" /\ Takes(th, << >>) /\ answered' = answered
    BY <1>7 DEF Reinsert, At, Now, Takes, history
  <2>2. PICK a : a = Now(th).ask
    OBVIOUS
  <2>3. a \in Ask /\ AsksOf(Now(th)) = {a} /\ s' = [s EXCEPT !.approvals = s.approvals \cup {a}]
    BY <1>0, <1>7, <2>1, <2>2, StepFields DEF AsksOf, Reinsert
  <2>4. s'.approvals = s.approvals \cup {a}
    BY <1>0, <2>3 DEF RuntimeState
  <2>5. << >> \in Seq(Step) /\ MsgsIn(<< >>) = {} /\ AsksIn(<< >>) = {} /\ Separate(<< >>)
    BY CarriedByFew
  <2>6. PICK steps : steps = << >>
    OBVIOUS
  <2> QED
    BY <1>1, <2>1, <2>3, <2>4, <2>5, <2>6
<1>8. CASE cancel_pending_approvals(th)
  <2>1. /\ todo[th] # << >> /\ answered' = answered /\ s' = [s EXCEPT !.approvals = {}]
        /\ Takes(th, Responses(s.approvals))
    BY <1>8 DEF cancel_pending_approvals, At, Takes, history
  <2>2. s'.approvals = {}
    BY <1>0, <2>1 DEF RuntimeState
  <2>3. PICK steps : steps = Responses(s.approvals)
    OBVIOUS
  <2>4. steps \in Seq(Step) /\ MsgsIn(steps) = {} /\ Separate(steps) /\ AsksIn(steps) = s.approvals
    BY <1>0, <1>4, <2>3
  <2> QED
    BY <1>1, <2>1, <2>2, <2>3, <2>4
<1>9. CASE Respond(th)
  <2>1. todo[th] # << >> /\ Now(th).op = "respond" /\ UNCHANGED s
    BY <1>9 DEF Respond, Writing, At, Now
  <2>2. PICK A : A = Now(th).asks
    OBVIOUS
  <2>3. A \in SUBSET Ask /\ AsksOf(Now(th)) = A
    BY <1>0, <2>1, <2>2, StepFields DEF AsksOf
  <2>3a. A \cap s.approvals = {}
    BY <2>1, <2>3, RestOf DEF RequestsApart, TypeOK
  <2>4. PICK a \in A : /\ Then(th, Do("progress") \o Responses(A \ {a}))
                       /\ answered' = answered \/ answered' = Append(answered, a)
    BY <1>9, <2>2 DEF Respond
  <2>5. PICK first, rest : first = Do("progress") /\ rest = Responses(A \ {a})
    OBVIOUS
  <2>6. /\ first \in Seq(Step) /\ MsgsIn(first) = {} /\ AsksIn(first) = {} /\ Separate(first)
    BY <2>5, HarmlessSteps, HarmlessCarry DEF LightOp, Harmless
  <2>7. rest \in Seq(Step) /\ MsgsIn(rest) = {} /\ AsksIn(rest) = A \ {a} /\ Separate(rest)
    <3>1. A \ {a} \in SUBSET Ask
      BY <2>3
    <3> QED
      BY <1>4, <2>5, <3>1
  <2>8. PICK steps : steps = first \o rest
    OBVIOUS
  <2>9. steps \in Seq(Step) /\ MsgsIn(steps) = {} /\ AsksIn(steps) = A \ {a} /\ Separate(steps)
    <3>1. steps \in Seq(Step)
      BY <2>6, <2>7, <2>8, Concatenated
    <3>2. MsgsIn(steps) = {} /\ AsksIn(steps) = A \ {a}
      BY <2>6, <2>7, <2>8, CarriedTogether
    <3>3. Separate(steps)
      BY <2>6, <2>7, <2>8, SeparateTogether
    <3> QED
      BY <3>1, <3>2, <3>3
  <2>10. Takes(th, steps)
    BY <2>1, <2>4, <2>5, <2>8 DEF Takes
  <2> QED
    BY <1>1, <2>1, <2>3, <2>3a, <2>4, <2>9, <2>10
<1> QED
  BY <1>5, <1>6, <1>7, <1>8, <1>9 DEF Asking

\* Messages, with every step.
LEMMA MessagesKept ==
  ASSUME IInv, TypeOK', Next
  PROVE  MessageInv'
<1>0. /\ TypeOK /\ Gone /\ MessageInv /\ RequestsApart /\ Promises /\ todo \in [Thread -> Seq(Step)]
      /\ \A x \in Thread : Separate(todo[x])
  BY DEF IInv, MessageInv, TypeOK
<1>1. ASSUME Mild, \A x \in Thread : Separate(todo'[x]) PROVE MessageInv'
  BY <1>0, <1>1, MildPromises, MildMessages, MildResume, MildUndone, MildHere DEF MessageInv
<1>2. ASSUME NEW th \in Client, Brings(th) PROVE MessageInv'
  BY <1>0, <1>2, StartKeeps, SteerKeeps, QueueKeeps, RemoveKeeps DEF Brings
<1>3. ASSUME NEW th \in Thread, Lightly(th) PROVE \A x \in Thread : Separate(todo'[x])
  BY <1>0, <1>3, LightlyTaken DEF Lightly
<1>4. ASSUME NEW th \in Thread, Asking(th) PROVE \A x \in Thread : Separate(todo'[x])
  <2>1. PICK steps \in Seq(Step) :
          /\ Takes(th, steps) /\ MsgsIn(steps) = {} /\ Separate(steps)
          /\ AsksIn(steps) \subseteq s.approvals \cup (IF todo[th] = << >> THEN {} ELSE AsksOf(Now(th)))
    BY <1>0, <1>4, AskingDoes
  <2> QED
    BY <1>0, <2>1, AskMoved
<1>5. ASSUME NEW th \in Thread, Carries(th) PROVE MessageInv'
  <2>1. CASE Drain(th)
    BY <1>0, <1>1, <1>3, <2>1, DrainKeeps, DrainIdle
  <2>2. CASE Adopt(th)
    <3>1. Lightly(th)
      BY <1>0, <2>2, Quiet2Lightly DEF Quiet2
    <3> QED
      BY <1>0, <1>1, <1>3, <2>2, <3>1, AdoptKeeps
  <2>3. CASE OpenedTurn(th) \/ WriteTurn(th) \/ requeue_front(th) \/ Deliver(th) \/ WriteDelivery(th)
    BY <1>0, <2>3, OpenKeeps, WritesKeep, RequeueKeeps, DeliverKeeps
  <2>4. CASE apply_error_event(th) \/ Preserve(th)
    BY <1>0, <2>4, ErrorKeeps, PreserveKeeps
  <2> QED
    BY <1>5, <2>1, <2>2, <2>3, <2>4 DEF Carries
<1>6. CASE Mild /\ UNCHANGED todo
  BY <1>0, <1>1, <1>6
<1> QED
  BY <1>0, <1>1, <1>2, <1>3, <1>4, <1>5, <1>6, MildOrNot, NextSplit

-----------------------------------------------------------------------------
(* Who has a request, after any step.                                      *)

LEMMA AskedTogether ==
  ASSUME NEW a \in Seq(Output), NEW b \in Seq(Output)
  PROVE  /\ AskedIn(a \o b) = AskedIn(a) \cup AskedIn(b)
         /\ Once(a) /\ Once(b) /\ AskedIn(a) \cap AskedIn(b) = {} => Once(a \o b)
<1> DEFINE c == a \o b
<1>1. /\ Len(a) \in Nat /\ \A i \in DOMAIN c : i \in Nat
      /\ \A i \in DOMAIN a : i \in DOMAIN c /\ c[i] = a[i]
      /\ \A i \in DOMAIN b : Len(a) + i \in DOMAIN c /\ c[Len(a) + i] = b[i]
      /\ \A i \in DOMAIN c : (i \in DOMAIN a /\ c[i] = a[i]) \/ (i - Len(a) \in DOMAIN b /\ c[i] = b[i - Len(a)])
  BY Concatenated
<1> HIDE DEF c
<1>2. AskedIn(c) = AskedIn(a) \cup AskedIn(b)
  <2>1. ASSUME NEW x \in AskedIn(c) PROVE x \in AskedIn(a) \cup AskedIn(b)
    <3>1. PICK i \in DOMAIN c : c[i].kind = "ask" /\ x = c[i].ask
      BY <2>1 DEF AskedIn
    <3> QED
      BY <1>1, <3>1 DEF AskedIn
  <2>2. ASSUME NEW x \in AskedIn(a) PROVE x \in AskedIn(c)
    <3>1. PICK i \in DOMAIN a : a[i].kind = "ask" /\ x = a[i].ask
      BY <2>2 DEF AskedIn
    <3> QED
      BY <1>1, <3>1 DEF AskedIn
  <2>3. ASSUME NEW x \in AskedIn(b) PROVE x \in AskedIn(c)
    <3>1. PICK i \in DOMAIN b : b[i].kind = "ask" /\ x = b[i].ask
      BY <2>3 DEF AskedIn
    <3>2. Len(a) + i \in DOMAIN c /\ c[Len(a) + i] = b[i]
      BY <1>1
    <3> QED
      BY <3>1, <3>2 DEF AskedIn
  <2> QED
    BY <2>1, <2>2, <2>3
<1>3. ASSUME Once(a), Once(b), AskedIn(a) \cap AskedIn(b) = {} PROVE Once(c)
  <2> SUFFICES ASSUME NEW i \in DOMAIN c, NEW j \in DOMAIN c, c[i].kind = "ask", c[j].kind = "ask", c[i].ask = c[j].ask
               PROVE  i = j
    BY DEF Once
  <2>1. CASE i \in DOMAIN a /\ c[i] = a[i] /\ j \in DOMAIN a /\ c[j] = a[j]
    BY <1>3, <2>1 DEF Once
  <2>2. CASE i - Len(a) \in DOMAIN b /\ c[i] = b[i - Len(a)] /\ j - Len(a) \in DOMAIN b /\ c[j] = b[j - Len(a)]
    <3>1. i - Len(a) = j - Len(a)
      BY <1>3, <2>2 DEF Once
    <3> QED
      BY <1>1, <3>1
  <2>3. CASE i \in DOMAIN a /\ c[i] = a[i] /\ j - Len(a) \in DOMAIN b /\ c[j] = b[j - Len(a)]
    BY <1>3, <2>3 DEF AskedIn
  <2>4. CASE i - Len(a) \in DOMAIN b /\ c[i] = b[i - Len(a)] /\ j \in DOMAIN a /\ c[j] = a[j]
    BY <1>3, <2>4 DEF AskedIn
  <2> QED
    BY <1>1, <2>1, <2>2, <2>3, <2>4
<1> QED
  BY <1>2, <1>3 DEF c

LEMMA AskedNext ==
  ASSUME NEW a \in Seq(Output), a # << >>
  PROVE  /\ AskedIn(Tail(a)) \subseteq AskedIn(a) /\ (Once(a) => Once(Tail(a)))
         /\ Head(a).kind = "ask" => /\ Head(a).ask \in AskedIn(a)
                                    /\ Once(a) => Head(a).ask \notin AskedIn(Tail(a))
<1> DEFINE b == Tail(a)
           x == Head(a)
<1>1. /\ 1 \in DOMAIN a /\ a[1] = x
      /\ \A i \in DOMAIN b : i \in Nat /\ i + 1 \in DOMAIN a /\ i + 1 # 1 /\ b[i] = a[i + 1]
  BY HeadAndTail
<1>2. \A i, j \in DOMAIN b : i + 1 = j + 1 => i = j
  BY <1>1
<1> HIDE DEF b, x
<1>3. ASSUME NEW y \in AskedIn(b) PROVE \E i \in DOMAIN a : i # 1 /\ a[i].kind = "ask" /\ y = a[i].ask
  <2>1. PICK i \in DOMAIN b : b[i].kind = "ask" /\ y = b[i].ask
    BY <1>3 DEF AskedIn
  <2>2. i + 1 \in DOMAIN a /\ i + 1 # 1 /\ b[i] = a[i + 1]
    BY <1>1
  <2> QED
    BY <2>1, <2>2
<1>4. AskedIn(b) \subseteq AskedIn(a)
  BY <1>3 DEF AskedIn
<1>5. Once(a) => Once(b)
  BY <1>1, <1>2 DEF Once
<1>6. x.kind = "ask" => x.ask \in AskedIn(a) /\ (Once(a) => x.ask \notin AskedIn(b))
  BY <1>1, <1>3 DEF AskedIn, Once
<1> QED
  BY <1>4, <1>5, <1>6 DEF b, x

LEMMA NothingAsked ==
  /\ AskedIn(<< >>) = {} /\ Once(<< >>)
  /\ \A x \in BOOLEAN : AskedIn(Content(x)) = {} /\ Once(Content(x))
  /\ \A r : AskedIn(Result(r)) = {} /\ Once(Result(r))
  /\ \A f, x : AskedIn(Lifecycle(f, x)) = {} /\ Once(Lifecycle(f, x))
  /\ \A messages : AskedIn(Cancelled(messages)) = {} /\ Once(Cancelled(messages))
  /\ AskedIn(<<[kind |-> "refusal"]>>) = {} /\ Once(<<[kind |-> "refusal"]>>)
  /\ \A a : /\ AskedIn(<<[kind |-> "cancel", ask |-> a]>>) = {} /\ Once(<<[kind |-> "cancel", ask |-> a]>>)
            /\ AskedIn(<<[kind |-> "ask", ask |-> a]>>) = {a} /\ Once(<<[kind |-> "ask", ask |-> a]>>)
<1>1. \A frames : (\A i \in DOMAIN frames : frames[i].kind # "ask") => AskedIn(frames) = {} /\ Once(frames)
  BY DEF AskedIn, Once
<1>2. \A i \in DOMAIN << >> : << >>[i].kind # "ask"
  OBVIOUS
<1>3. \A x : \A i \in DOMAIN Content(x) : Content(x)[i].kind # "ask"
  BY DEF Content
<1>4. \A r : \A i \in DOMAIN Result(r) : Result(r)[i].kind # "ask"
  BY DEF Result
<1>5. ASSUME NEW f, NEW x PROVE \A i \in DOMAIN Lifecycle(f, x) : Lifecycle(f, x)[i].kind # "ask"
  <2>1. CASE f.tracked
    BY <2>1 DEF Lifecycle
  <2>2. CASE ~f.tracked
    BY <2>2 DEF Lifecycle
  <2> QED
    BY <2>1, <2>2
<1>6. \A messages : \A i \in DOMAIN Cancelled(messages) : Cancelled(messages)[i].kind # "ask"
  BY DEF Cancelled
<1>7. \A a : AskedIn(<<[kind |-> "ask", ask |-> a]>>) = {a} /\ Once(<<[kind |-> "ask", ask |-> a]>>)
  <2> TAKE a
  <2>1. PICK x : x = [kind |-> "ask", ask |-> a]
    OBVIOUS
  <2>2. x.kind = "ask" /\ x.ask = a /\ DOMAIN <<x>> = {1} /\ <<x>>[1] = x
    BY <2>1
  <2> QED
    BY <2>1, <2>2 DEF AskedIn, Once
<1>8. \A i \in DOMAIN <<[kind |-> "refusal"]>> : <<[kind |-> "refusal"]>>[i].kind # "ask"
  OBVIOUS
<1>9. \A a : \A i \in DOMAIN <<[kind |-> "cancel", ask |-> a]>> : <<[kind |-> "cancel", ask |-> a]>>[i].kind # "ask"
  OBVIOUS
<1> QED
  BY <1>1, <1>2, <1>3, <1>4, <1>5, <1>6, <1>7, <1>8, <1>9

\* Requests pass from place to place.
LEMMA RequestsMoved ==
  ASSUME RequestsApart, NEW th \in Thread, \A o \in Thread \ {th} : AsksIn(todo'[o]) \subseteq AsksIn(todo[o]),
         AsksIn(todo'[th]) \cup fresh' \cup Asked' \cup s'.approvals \cup ToSet(answered')
           \subseteq AsksIn(todo[th]) \cup fresh \cup Asked \cup s.approvals \cup ToSet(answered),
         AsksIn(todo'[th]) \cap (fresh' \cup Asked' \cup s'.approvals \cup ToSet(answered')) = {},
         fresh' \cap (Asked' \cup s'.approvals \cup ToSet(answered')) = {},
         Asked' \cap (s'.approvals \cup ToSet(answered')) = {}, s'.approvals \cap ToSet(answered') = {},
         Once(outbox'), IsInjective(answered')
  PROVE  RequestsApart'
<1> DEFINE before == AsksIn(todo[th]) \cup fresh \cup Asked \cup s.approvals \cup ToSet(answered)
           after == AsksIn(todo'[th]) \cup fresh' \cup Asked' \cup s'.approvals \cup ToSet(answered')
<1>1. \A o \in Thread \ {th} : AsksIn(todo[o]) \cap before = {}
  BY DEF RequestsApart
<1>2. after \subseteq before
  OBVIOUS
<1> HIDE DEF before
<1>3. \A o \in Thread \ {th} : AsksIn(todo'[o]) \cap after = {}
  BY <1>1, <1>2
<1>4. \A a, o \in Thread : a # o => AsksIn(todo'[a]) \cap AsksIn(todo'[o]) = {}
  <2>1. ASSUME NEW a \in Thread, NEW o \in Thread, a # o PROVE AsksIn(todo'[a]) \cap AsksIn(todo'[o]) = {}
    <3>1. CASE a = th \/ o = th
      BY <1>3, <2>1, <3>1
    <3>2. CASE a # th /\ o # th
      BY <2>1, <3>2 DEF RequestsApart
    <3> QED
      BY <3>1, <3>2
  <2> QED
    BY <2>1
<1>5. \A a \in Thread : AsksIn(todo'[a]) \cap (fresh' \cup Asked' \cup s'.approvals \cup ToSet(answered')) = {}
  BY <1>3
<1> QED
  BY <1>4, <1>5 DEF RequestsApart

\* What the reader and the CLI do with the frames, when no request is among the new ones.
OutboxCalm ==
  \/ outbox' = outbox
  \/ outbox # << >> /\ outbox' = Tail(outbox)
  \/ \E frames \in Seq(Output) : outbox' = outbox \o frames /\ AskedIn(frames) = {} /\ Once(frames)

LEMMA CalmAsked ==
  ASSUME TypeOK, OutboxCalm
  PROVE  Asked' \subseteq Asked /\ (Once(outbox) => Once(outbox'))
<1>0. outbox \in Seq(Output)
  BY DEF TypeOK, CliOK
<1>1. CASE outbox' = outbox
  BY <1>1 DEF Asked
<1>2. CASE outbox # << >> /\ outbox' = Tail(outbox)
  BY <1>0, <1>2, AskedNext DEF Asked
<1>3. CASE \E frames \in Seq(Output) : outbox' = outbox \o frames /\ AskedIn(frames) = {} /\ Once(frames)
  BY <1>0, <1>3, AskedTogether DEF Asked
<1> QED
  BY <1>1, <1>2, <1>3 DEF OutboxCalm

\* No request passes to another place.
AskCalm == fresh' = fresh /\ answered' = answered /\ s'.approvals \subseteq s.approvals /\ OutboxCalm

LEMMA CalmRequests ==
  ASSUME TypeOK, AskCalm, \A o \in Thread : AsksIn(todo'[o]) \subseteq AsksIn(todo[o]), RequestsApart
  PROVE  RequestsApart'
<1>1. Asked' \subseteq Asked /\ Once(outbox')
  BY CalmAsked DEF AskCalm, RequestsApart
<1>2. fresh' = fresh /\ answered' = answered /\ s'.approvals \subseteq s.approvals
  BY DEF AskCalm
<1>3. \A th, o \in Thread : th # o => AsksIn(todo'[th]) \cap AsksIn(todo'[o]) = {}
  BY DEF RequestsApart
<1>4. \A th \in Thread : AsksIn(todo'[th]) \cap (fresh' \cup Asked' \cup s'.approvals \cup ToSet(answered')) = {}
  BY <1>1, <1>2 DEF RequestsApart
<1> QED
  BY <1>1, <1>2, <1>3, <1>4 DEF RequestsApart

\* Lists that carry no request, in front of what was left.
LEMMA FewerAsks ==
  ASSUME TypeOK, NEW th \in Thread, NEW steps \in Seq(Step), Takes(th, steps), AsksIn(steps) = {}
  PROVE  \A o \in Thread : AsksIn(todo'[o]) \subseteq AsksIn(todo[o])
<1>0. todo \in [Thread -> Seq(Step)]
  BY DEF TypeOK
<1>1. Rest(th) \in Seq(Step) /\ todo'[th] = steps \o Rest(th) /\ \A o \in Thread \ {th} : todo'[o] = todo[o]
  BY <1>0, StepTaken
<1>2. AsksIn(todo'[th]) = AsksIn(steps) \cup AsksIn(Rest(th))
  <2>1. AsksIn(steps \o Rest(th)) = AsksIn(steps) \cup AsksIn(Rest(th))
    BY <1>1, CarriedTogether
  <2> QED
    BY <1>1, <2>1
<1>3. AsksIn(Rest(th)) \subseteq AsksIn(todo[th])
  BY <1>0, RestOf
<1> QED
  BY <1>1, <1>2, <1>3

LEMMA MessageStepsAskless ==
  /\ << >> \in Seq(Step) /\ AsksIn(<< >>) = {}
  /\ \A op \in LightOp : Do(op) \in Seq(Step) /\ AsksIn(Do(op)) = {}
  /\ \A m \in Msg, t \in Nat, b \in BOOLEAN : OpenTurn(m, t, b) \in Seq(Step) /\ AsksIn(OpenTurn(m, t, b)) = {}
  /\ \A m \in Msg, op \in {"deliver", "write_delivery", "forget", "requeue", "refuse"} :
       ForMsg(op, m) \in Seq(Step) /\ AsksIn(ForMsg(op, m)) = {}
  /\ \A x \in Step : x.op \in {"open_turn", "write_turn"} => FailTurn(x) \in Seq(Step) /\ AsksIn(FailTurn(x)) = {}
<1>1. ASSUME NEW op \in LightOp PROVE Do(op) \in Seq(Step) /\ AsksIn(Do(op)) = {}
  BY HarmlessSteps, HarmlessCarry DEF Harmless
<1>2. ASSUME NEW m \in Msg, NEW t \in Nat, NEW b \in BOOLEAN PROVE AsksIn(OpenTurn(m, t, b)) = {}
  BY CarriedByFew DEF OpenTurn, AsksOf
<1>3. ASSUME NEW m \in Msg, NEW op \in {"deliver", "write_delivery", "forget", "requeue", "refuse"}
      PROVE  ForMsg(op, m) \in Seq(Step) /\ AsksIn(ForMsg(op, m)) = {}
  BY StepsTyped, CarriedByFew DEF ForMsg, AsksOf
<1>4. ASSUME NEW x \in Step, x.op \in {"open_turn", "write_turn"}
      PROVE  FailTurn(x) \in Seq(Step) /\ AsksIn(FailTurn(x)) = {}
  <2>1. PICK light : /\ Harmless(light)
                     /\ FailTurn(x) = (Do("unclaim") \o light) \o ForMsg(IF x.back THEN "requeue" ELSE "refuse", x.msg)
                     /\ FailTurn(x) \in Seq(Step)
    BY <1>4, FailTyped
  <2>2. PICK first, last : first = Do("unclaim") \o light /\ last = ForMsg(IF x.back THEN "requeue" ELSE "refuse", x.msg)
    OBVIOUS
  <2>3. Harmless(first)
    BY <2>1, <2>2, HarmlessSteps, HarmlessBoth DEF LightOp
  <2>4. first \in Seq(Step) /\ AsksIn(first) = {}
    BY <2>3, HarmlessCarry DEF Harmless
  <2>5. last \in Seq(Step) /\ AsksIn(last) = {}
    BY <1>3, <1>4, <2>2, StepFields
  <2>6. AsksIn(first \o last) = {}
    BY <2>4, <2>5, CarriedTogether
  <2> QED
    BY <2>1, <2>2, <2>6
<1>5. << >> \in Seq(Step)
  OBVIOUS
<1> QED
  BY <1>1, <1>2, <1>3, <1>4, <1>5, StepsTyped, CarriedByFew

LEMMA CarriesFewer ==
  ASSUME TypeOK, Promises, Gone, NEW th \in Thread, Carries(th)
  PROVE  \A o \in Thread : AsksIn(todo'[o]) \subseteq AsksIn(todo[o])
<1> SUFFICES \E steps \in Seq(Step) : Takes(th, steps) /\ AsksIn(steps) = {}
  BY FewerAsks
<1>0. /\ s.claims \in Nat /\ s.queue \in Seq(Msg) /\ todo[th] # << >> /\ Now(th) \in Step
  BY HeadStep DEF TypeOK, StateOK, RuntimeState, Carries, Drain, OpenedTurn, WriteTurn, requeue_front, Deliver,
                  WriteDelivery, apply_error_event, Preserve, Adopt, Writing, At
<1>1. SUFFICES \E steps \in Seq(Step) : Then(th, steps) /\ AsksIn(steps) = {}
  BY <1>0 DEF Takes
<1>2. CASE Drain(th)
  <2>1. s.queue # << >> => OpenTurn(Head(s.queue), s.claims + 1, TRUE) \in Seq(Step)
                           /\ AsksIn(OpenTurn(Head(s.queue), s.claims + 1, TRUE)) = {}
    <3>1. s.queue # << >> => Head(s.queue) \in Msg
      BY <1>0
    <3>2. s.claims + 1 \in Nat
      BY <1>0
    <3> QED
      BY <3>1, <3>2, MessageStepsAskless
  <2> QED
    BY <1>2, <2>1, MessageStepsAskless DEF Drain
<1>3. CASE OpenedTurn(th)
  <2>1. Now(th).op = "open_turn"
    BY <1>3 DEF OpenedTurn, At, Now
  <2>2. CASE Then(th, FailTurn(Now(th)))
    BY <1>0, <2>1, <2>2, MessageStepsAskless
  <2>3. CASE Then(th, <<[Now(th) EXCEPT !.op = "write_turn"]>>)
    <3>1. PICK y : y = [Now(th) EXCEPT !.op = "write_turn"]
      OBVIOUS
    <3>2. y \in Step /\ y.op = "write_turn"
      BY <1>0, <2>1, <3>1 DEF Step
    <3>3. <<y>> \in Seq(Step) /\ AsksIn(<<y>>) = {}
      BY <3>2, OneMessage
    <3> QED
      BY <2>3, <3>1, <3>3
  <2> QED
    BY <1>3, <2>2, <2>3 DEF OpenedTurn
<1>4. CASE WriteTurn(th)
  <2>1. Now(th).op = "write_turn"
    BY <1>4 DEF WriteTurn, Writing, At, Now
  <2> QED
    BY <1>0, <1>4, <2>1, MessageStepsAskless DEF WriteTurn
<1>5. CASE requeue_front(th) \/ apply_error_event(th) \/ Preserve(th)
  BY <1>5, MessageStepsAskless DEF requeue_front, apply_error_event, Preserve
<1>6. CASE Deliver(th)
  <2>1. Now(th).msg \in Msg
    BY <1>0, <1>6, StepFields DEF Deliver, At, Now, HasMsg
  <2> QED
    BY <1>6, <2>1, MessageStepsAskless DEF Deliver
<1>7. CASE WriteDelivery(th)
  <2>1. PICK m \in Msg : m = Now(th).msg
    BY <1>0, <1>7, StepFields DEF WriteDelivery, Writing, At, Now, HasMsg
  <2>2. PICK a, b : a = ForMsg("forget", m) /\ b = ForMsg("refuse", m)
    OBVIOUS
  <2>3. a \in Seq(Step) /\ b \in Seq(Step) /\ AsksIn(a) = {} /\ AsksIn(b) = {}
    BY <2>2, MessageStepsAskless
  <2>4. a \o b \in Seq(Step) /\ AsksIn(a \o b) = {}
    BY <2>3, Concatenated, CarriedTogether
  <2>5. Then(th, << >>) \/ Then(th, a \o b)
    BY <1>7, <2>1, <2>2 DEF WriteDelivery
  <2> QED
    BY <2>4, <2>5, MessageStepsAskless
<1>8. CASE Adopt(th)
  BY <1>8, MessageStepsAskless DEF Adopt, LightOp
<1> QED
  BY <1>2, <1>3, <1>4, <1>5, <1>6, <1>7, <1>8 DEF Carries

LEMMA BringsFewer ==
  ASSUME TypeOK, NEW th \in Client, Brings(th)
  PROVE  \A o \in Thread : AsksIn(todo'[o]) \subseteq AsksIn(todo[o])
<1>0. s.claims \in Nat /\ s.claims + 1 \in Nat /\ th \in Thread
  BY Threads DEF TypeOK, StateOK, RuntimeState
<1>1. CASE \E i \in DOMAIN s.queue : remove_queued(th, i)
  BY <1>1 DEF remove_queued
<1>2. ASSUME NEW m \in Msg, SendStart(th, m) \/ SendDeliver(th, m) \/ SendQueue(th, m)
      PROVE  \E steps \in Seq(Step) : Takes(th, steps) /\ AsksIn(steps) = {}
  <2>1. /\ OpenTurn(m, s.claims + 1, FALSE) \in Seq(Step) /\ AsksIn(OpenTurn(m, s.claims + 1, FALSE)) = {}
        /\ ForMsg("deliver", m) \in Seq(Step) /\ AsksIn(ForMsg("deliver", m)) = {}
        /\ Do("drain") \in Seq(Step) /\ AsksIn(Do("drain")) = {}
    BY <1>0, MessageStepsAskless DEF LightOp
  <2> QED
    BY <1>2, <2>1 DEF SendStart, SendDeliver, SendQueue, Takes, Begin
<1> QED
  BY <1>0, <1>1, <1>2, FewerAsks DEF Brings

\* What a step of the runtime itself does with requests that it does not take in hand.
LEMMA CalmFrame ==
  /\ UNCHANGED <<fresh, answered, outbox>> /\ s'.approvals \subseteq s.approvals => AskCalm
  /\ UNCHANGED <<fresh, answered, outbox, s>> => AskCalm
BY DEF AskCalm, OutboxCalm

LEMMA CalmAdvance ==
  ASSUME TypeOK, NEW th \in Thread, Advance(th)
  PROVE  AskCalm \/ Asking(th)
<1> USE DEF external, history
<1>0. s \in RuntimeState
  BY DEF TypeOK, StateOK
<1>1. CASE Quiet1(th)
  <2>1. UNCHANGED <<fresh, answered, outbox>>
    BY <1>1 DEF Quiet1, Unclaim, Refuse, forget_delivery, Unflag, set_phase, apply_turn_event, ClearTurn,
                apply_error_event, Progress, Preserve, CloseStdin, release_account_runtime, ReleaseChild
  <2>2. CASE UNCHANGED s
    BY <2>1, <2>2, CalmFrame
  <2>3. CASE forget_delivery(th)
    <3>1. PICK d : s' = [s EXCEPT !.delivered = d]
      BY <2>3 DEF forget_delivery
    <3>2. s'.approvals \subseteq s.approvals
      BY <1>0, <3>1 DEF RuntimeState
    <3> QED
      BY <2>1, <3>2, CalmFrame
  <2>4. CASE Unclaim(th) \/ Unflag(th) \/ ClearTurn(th)
    <3>1. s'.approvals \subseteq s.approvals
      BY <1>0, <2>4 DEF Unclaim, Unflag, ClearTurn, RuntimeState
    <3> QED
      BY <2>1, <3>1, CalmFrame
  <2>5. CASE set_phase(th)
    <3>1. PICK p, i : s' = [s EXCEPT !.phase = p, !.input = i]
      BY <2>5 DEF set_phase
    <3>2. s'.approvals \subseteq s.approvals
      BY <1>0, <3>1 DEF RuntimeState
    <3> QED
      BY <2>1, <3>2, CalmFrame
  <2>6. CASE apply_turn_event(th)
    <3>1. PICK h : s' = [s EXCEPT !.held = h]
      BY <2>6 DEF apply_turn_event
    <3>2. s'.approvals \subseteq s.approvals
      BY <1>0, <3>1 DEF RuntimeState
    <3> QED
      BY <2>1, <3>2, CalmFrame
  <2>7. CASE apply_error_event(th) /\ ~UNCHANGED s
    <3>1. PICK h : s' = [s EXCEPT !.input = {}, !.held = h]
      BY <2>7 DEF apply_error_event
    <3>2. s'.approvals \subseteq s.approvals
      BY <1>0, <3>1 DEF RuntimeState
    <3> QED
      BY <2>1, <3>2, CalmFrame
  <2>8. CASE Preserve(th)
    <3>1. PICK h : s' = [s EXCEPT !.queue = << >>, !.held = h]
      BY <2>8 DEF Preserve
    <3>2. s'.approvals \subseteq s.approvals
      BY <1>0, <3>1 DEF RuntimeState
    <3> QED
      BY <2>1, <3>2, CalmFrame
  <2> QED
    BY <1>1, <2>2, <2>3, <2>4, <2>5, <2>6, <2>7, <2>8 DEF Quiet1, Refuse, Progress, CloseStdin,
       release_account_runtime, ReleaseChild
<1>2. CASE Quiet2(th)
  <2>1. UNCHANGED <<fresh, answered, outbox>>
    BY <1>2 DEF Quiet2, Note, WriteInterrupt, emit_turn, discard_pending_approvals, Adopt, Kill, Reap, Clear, Judge
  <2>2. CASE UNCHANGED s
    BY <2>1, <2>2, CalmFrame
  <2>3. CASE Note(th) \/ Judge(th)
    <3>1. PICK i : s' = [s EXCEPT !.interrupting = i]
      BY <2>3 DEF Note, Judge
    <3>2. s'.approvals \subseteq s.approvals
      BY <1>0, <3>1 DEF RuntimeState
    <3> QED
      BY <2>1, <3>2, CalmFrame
  <2>4. CASE discard_pending_approvals(th)
    <3>1. s'.approvals \subseteq s.approvals
      BY <1>0, <2>4 DEF discard_pending_approvals, RuntimeState
    <3> QED
      BY <2>1, <3>1, CalmFrame
  <2>5. CASE Clear(th)
    <3>1. s'.approvals \subseteq s.approvals
      BY <1>0, <2>5 DEF Clear, RuntimeState
    <3> QED
      BY <2>1, <3>1, CalmFrame
  <2>6. CASE Adopt(th)
    <3>1. PICK taken, empty : s' = [s EXCEPT !.delivered = empty] \/ s' = claim_turn([s EXCEPT !.delivered = empty], taken)
      BY <2>6 DEF Adopt
    <3>2. s'.approvals \subseteq s.approvals
      BY <1>0, <3>1 DEF claim_turn, RuntimeState
    <3> QED
      BY <2>1, <3>2, CalmFrame
  <2> QED
    BY <1>2, <2>2, <2>3, <2>4, <2>5, <2>6 DEF Quiet2, WriteInterrupt, emit_turn, Kill, Reap
<1>3. CASE (Laden(th) \/ Wait(th)) /\ ~Asking(th)
  <2>1. UNCHANGED <<fresh, answered, outbox>>
    BY <1>3 DEF Laden, Asking, Drain, OpenedTurn, WriteTurn, requeue_front, Deliver, WriteDelivery, Wait
  <2>2. CASE UNCHANGED s
    BY <2>1, <2>2, CalmFrame
  <2>3. CASE Drain(th) /\ ~UNCHANGED s
    <3>1. PICK q, i : s' = claim_turn([s EXCEPT !.queue = q], i)
      BY <2>3 DEF Drain
    <3>2. s'.approvals \subseteq s.approvals
      BY <1>0, <3>1 DEF claim_turn, RuntimeState
    <3> QED
      BY <2>1, <3>2, CalmFrame
  <2>4. CASE requeue_front(th)
    <3>1. PICK q : s' = [s EXCEPT !.queue = q]
      BY <2>4 DEF requeue_front
    <3>2. s'.approvals \subseteq s.approvals
      BY <1>0, <3>1 DEF RuntimeState
    <3> QED
      BY <2>1, <3>2, CalmFrame
  <2>5. CASE Deliver(th) /\ ~UNCHANGED s
    <3>1. PICK d : s' = [s EXCEPT !.delivered = d]
      BY <2>5 DEF Deliver
    <3>2. s'.approvals \subseteq s.approvals
      BY <1>0, <3>1 DEF RuntimeState
    <3> QED
      BY <2>1, <3>2, CalmFrame
  <2> QED
    BY <1>3, <2>2, <2>3, <2>4, <2>5 DEF Laden, Asking, OpenedTurn, WriteTurn, WriteDelivery, Wait
<1> QED
  BY <1>1, <1>2, <1>3, AdvanceSplit

LEMMA CalmCalls ==
  ASSUME TypeOK, NEW th \in Client, Call(th)
  PROVE  AskCalm \/ Asking(th)
<1> USE DEF external, history
<1>0. s \in RuntimeState
  BY DEF TypeOK, StateOK
<1>1. CASE ~Asking(th)
  <2>1. UNCHANGED <<fresh, answered, outbox>>
    BY <1>1 DEF Call, Send, Asking, SendRefused, SendStart, SendDeliver, SendQueue, remove_queued, Interrupt, Stop
  <2>2. CASE UNCHANGED s
    BY <2>1, <2>2, CalmFrame
  <2>3. ASSUME NEW m \in Msg, SendStart(th, m) PROVE AskCalm
    <3>1. s'.approvals \subseteq s.approvals
      BY <1>0, <2>3 DEF SendStart, claim_turn, RuntimeState
    <3> QED
      BY <2>1, <3>1, CalmFrame
  <2>4. ASSUME NEW m \in Msg, SendQueue(th, m) PROVE AskCalm
    <3>1. PICK q : s' = [s EXCEPT !.queue = q]
      BY <2>4 DEF SendQueue
    <3>2. s'.approvals \subseteq s.approvals
      BY <1>0, <3>1 DEF RuntimeState
    <3> QED
      BY <2>1, <3>2, CalmFrame
  <2>5. ASSUME NEW i \in DOMAIN s.queue, remove_queued(th, i) PROVE AskCalm
    <3>1. PICK q : s' = [s EXCEPT !.queue = q]
      BY <2>5 DEF remove_queued
    <3>2. s'.approvals \subseteq s.approvals
      BY <1>0, <3>1 DEF RuntimeState
    <3> QED
      BY <2>1, <3>2, CalmFrame
  <2>6. CASE Interrupt(th)
    <3>1. s'.approvals \subseteq s.approvals
      BY <1>0, <2>6 DEF Interrupt, RuntimeState
    <3> QED
      BY <2>1, <3>1, CalmFrame
  <2> QED
    BY <1>1, <2>2, <2>3, <2>4, <2>5, <2>6 DEF Call, Send, Asking, SendRefused, SendDeliver, Stop
<1> QED
  BY <1>1

\* The reader takes a frame, or another thread looks at the process.
LEMMA CalmRead ==
  ASSUME TypeOK, Read \/ Poll \/ TurnWatchdog \/ InterruptWatchdog \/ InterruptSeen, ~ReadAsk
  PROVE  AskCalm
<1> USE DEF external, history
<1>0. s \in RuntimeState
  BY DEF TypeOK, StateOK
<1>1. CASE Read
  <2>1. UNCHANGED <<fresh, answered>> /\ OutboxCalm
    BY <1>1 DEF Read, ReadContent, ReadCancel, ReadLifecycle, ReadRefusal, ReadResult, Frame, OutboxCalm
  <2>2. CASE UNCHANGED s
    BY <2>1, <2>2 DEF AskCalm
  <2>3. CASE ReadContent /\ ~UNCHANGED s
    <3>1. s' = claim_turn(s, {})
      BY <2>3 DEF ReadContent
    <3>2. s'.approvals \subseteq s.approvals
      BY <1>0, <3>1 DEF claim_turn, RuntimeState
    <3> QED
      BY <2>1, <3>2 DEF AskCalm
  <2>4. CASE ReadCancel /\ ~UNCHANGED s
    <3>1. PICK a, p : s' = [s EXCEPT !.approvals = @ \ {a}, !.phase = p]
      BY <2>4 DEF ReadCancel
    <3>2. s'.approvals \subseteq s.approvals
      BY <1>0, <3>1 DEF RuntimeState
    <3> QED
      BY <2>1, <3>2 DEF AskCalm
  <2>5. CASE ReadLifecycle /\ ~UNCHANGED s
    <3>1. PICK d : s' = [s EXCEPT !.delivered = d]
      BY <2>5 DEF ReadLifecycle
    <3>2. s'.approvals \subseteq s.approvals
      BY <1>0, <3>1 DEF RuntimeState
    <3> QED
      BY <2>1, <3>2 DEF AskCalm
  <2>6. CASE ReadRefusal \/ ReadResult
    <3>1. s' = [s EXCEPT !.interrupting = FALSE]
      BY <2>6 DEF ReadRefusal, ReadResult
    <3>2. s'.approvals \subseteq s.approvals
      BY <1>0, <3>1 DEF RuntimeState
    <3> QED
      BY <2>1, <3>2 DEF AskCalm
  <2> QED
    BY <1>1, <2>2, <2>3, <2>4, <2>5, <2>6 DEF Read
<1>2. CASE Poll \/ TurnWatchdog \/ InterruptWatchdog \/ InterruptSeen
  <2>1. UNCHANGED <<fresh, answered, outbox, s>>
    BY <1>2 DEF Poll, TurnWatchdog, InterruptWatchdog, InterruptSeen
  <2> QED
    BY <2>1, CalmFrame
<1> QED
  BY <1>1, <1>2

\* What the CLI says, if it asks nothing.
LEMMA CalmCli ==
  ASSUME TypeOK, Cli \/ CliMay, \A a \in Ask : ~CliAsks(a)
  PROVE  AskCalm
<1> USE DEF history
<1>0. /\ outbox \in Seq(Output) /\ inbox \in Seq(Input) /\ backlog \in Seq(Message)
      /\ cli \in {"idle", "thinking", "speaking"} \cup Ask
  BY DEF TypeOK, CliOK
<1>1. UNCHANGED <<s, answered, fresh>>
  BY DEF Cli, CliMay, CliTakesMessage, CliTakesInterrupt, CliTakesAnswer, CliSpeaks, CliNext, CliEnds,
         CliWithdraws, CliWakes, CliExits, CliFreezes
<1>2. SUFFICES OutboxCalm
  BY <1>1 DEF AskCalm
<1>3. ASSUME NEW frames \in Seq(Output), Say(frames), AskedIn(frames) = {}, Once(frames) PROVE OutboxCalm
  BY <1>3 DEF Say, OutboxCalm
<1>4. /\ \A x \in BOOLEAN : Content(x) \in Seq(Output) /\ AskedIn(Content(x)) = {} /\ Once(Content(x))
      /\ \A r \in {"ok", "error", "limit", "aborted"} :
           Result(r) \in Seq(Output) /\ AskedIn(Result(r)) = {} /\ Once(Result(r))
      /\ \A f \in Message, x \in {"queued", "started", "cancelled"} :
           Lifecycle(f, x) \in Seq(Output) /\ AskedIn(Lifecycle(f, x)) = {} /\ Once(Lifecycle(f, x))
  BY FramesTyped, NothingAsked
<1>5. CASE CliTakesMessage
  <2>1. PICK f : f = Head(inbox)
    OBVIOUS
  <2>2. f \in Message
    <3>1. f \in Input /\ f.kind = "message"
      BY <1>0, <1>5, <2>1, HeadAndTail DEF CliTakesMessage
    <3> QED
      BY <3>1 DEF Input, Message
  <2>3. Say(Lifecycle(f, "started")) \/ Say(Lifecycle(f, "queued"))
    BY <1>5, <2>1 DEF CliTakesMessage
  <2> QED
    BY <1>3, <1>4, <2>2, <2>3
<1>6. CASE CliTakesInterrupt
  <2>1. CASE Say(<<[kind |-> "refusal"]>>)
    BY <1>3, <2>1, FramesTyped, NothingAsked
  <2>2. CASE Say(Cancelled(backlog) \o (IF cli = "idle" THEN << >> ELSE Result("aborted")))
    <3>1. PICK a, b : a = Cancelled(backlog) /\ b = IF cli = "idle" THEN << >> ELSE Result("aborted")
      OBVIOUS
    <3>2. a \in Seq(Output) /\ AskedIn(a) = {} /\ Once(a)
      BY <1>0, <3>1, FramesTyped, NothingAsked
    <3>3. b \in Seq(Output) /\ AskedIn(b) = {} /\ Once(b)
      <4>1. << >> \in Seq(Output)
        OBVIOUS
      <4> QED
        BY <1>4, <3>1, <4>1, NothingAsked
    <3>4. PICK frames : frames = a \o b
      OBVIOUS
    <3>5. frames \in Seq(Output) /\ AskedIn(frames) = {} /\ Once(frames)
      BY <3>2, <3>3, <3>4, Concatenated, AskedTogether
    <3> QED
      BY <1>3, <2>2, <3>1, <3>4, <3>5
  <2> QED
    BY <1>6, <2>1, <2>2 DEF CliTakesInterrupt
<1>7. CASE CliTakesAnswer
  BY <1>3, <1>4, <1>7 DEF CliTakesAnswer, OutboxCalm
<1>8. CASE CliSpeaks \/ CliWakes
  BY <1>3, <1>4, <1>8 DEF CliSpeaks, CliWakes
<1>9. CASE CliNext
  <2>1. PICK f : f = Head(backlog)
    OBVIOUS
  <2>2. f \in Message
    BY <1>0, <1>9, <2>1, HeadAndTail DEF CliNext
  <2> QED
    BY <1>3, <1>4, <1>9, <2>1, <2>2 DEF CliNext
<1>10. ASSUME NEW r \in {"ok", "error", "limit"}, CliEnds(r) PROVE OutboxCalm
  <2>1. CASE r # "limit"
    BY <1>3, <1>4, <1>10, <2>1 DEF CliEnds
  <2>2. CASE r = "limit"
    <3>1. PICK a, b : a = Content(TRUE) /\ b = Result(r)
      OBVIOUS
    <3>2. a \in Seq(Output) /\ AskedIn(a) = {} /\ Once(a) /\ b \in Seq(Output) /\ AskedIn(b) = {} /\ Once(b)
      BY <1>4, <3>1
    <3>3. PICK frames : frames = a \o b
      OBVIOUS
    <3>4. frames \in Seq(Output) /\ AskedIn(frames) = {} /\ Once(frames)
      BY <3>2, <3>3, Concatenated, AskedTogether
    <3> QED
      BY <1>3, <1>10, <2>2, <3>1, <3>3, <3>4 DEF CliEnds
  <2> QED
    BY <2>1, <2>2
<1>11. CASE CliWithdraws
  <2>1. PICK frames : frames = <<[kind |-> "cancel", ask |-> cli]>>
    OBVIOUS
  <2>2. frames \in Seq(Output) /\ AskedIn(frames) = {} /\ Once(frames)
    BY <1>11, <2>1, FramesTyped, NothingAsked DEF CliWithdraws
  <2> QED
    BY <1>3, <1>11, <2>1, <2>2 DEF CliWithdraws
<1>12. CASE CliExits \/ CliFreezes
  BY <1>12 DEF CliExits, CliFreezes, OutboxCalm
<1> QED
  BY <1>5, <1>6, <1>7, <1>8, <1>9, <1>10, <1>11, <1>12 DEF Cli, CliMay

LEMMA AskingKeeps ==
  ASSUME IInv, NEW th \in Thread, Asking(th)
  PROVE  RequestsApart'
<1>0. TypeOK /\ RequestsApart /\ (\A x \in Thread : Separate(todo[x])) /\ answered \in Seq(Ask) /\ IsInjective(answered)
  BY DEF IInv, MessageInv, TypeOK, HistoryOK, RequestsApart
<1>1. PICK old : old = IF todo[th] = << >> THEN {} ELSE AsksOf(Now(th))
  OBVIOUS
<1>2. PICK steps \in Seq(Step) :
        /\ Takes(th, steps) /\ MsgsIn(steps) = {} /\ Separate(steps) /\ UNCHANGED <<fresh, outbox>>
        /\ AsksIn(steps) \subseteq s.approvals \cup old
        /\ s'.approvals \subseteq s.approvals \cup old
        /\ AsksIn(steps) \cap s'.approvals = {}
        /\ \/ answered' = answered
           \/ \E a \in old : a \in Ask /\ answered' = Append(answered, a) /\ a \notin AsksIn(steps) \cup s'.approvals
  BY <1>0, <1>1, AskingDoes
<1>3. /\ AsksIn(todo'[th]) = AsksIn(steps) \cup AsksIn(Rest(th))
      /\ AsksIn(Rest(th)) \subseteq AsksIn(todo[th])
      /\ old \subseteq AsksIn(todo[th]) /\ old \cap AsksIn(Rest(th)) = {}
      /\ \A o \in Thread \ {th} : todo'[o] = todo[o]
  BY <1>0, <1>1, <1>2, AskMoved
<1>4. /\ IsInjective(answered') /\ ToSet(answered') \subseteq ToSet(answered) \cup old
      /\ ToSet(answered') \cap (AsksIn(steps) \cup s'.approvals) \subseteq ToSet(answered)
      /\ ToSet(answered') \cap AsksIn(Rest(th)) \subseteq ToSet(answered)
  <2>1. CASE answered' = answered
    BY <1>0, <2>1
  <2>2. ASSUME NEW a \in old, a \in Ask, answered' = Append(answered, a), a \notin AsksIn(steps) \cup s'.approvals
        PROVE  /\ IsInjective(answered') /\ ToSet(answered') = ToSet(answered) \cup {a}
    <3>1. a \notin ToSet(answered)
      BY <1>0, <1>3 DEF RequestsApart
    <3> QED
      BY <1>0, <2>2, <3>1, AppendedRange
  <2> QED
    BY <1>2, <1>3, <2>1, <2>2
<1>5. AsksIn(todo[th]) \cap (fresh \cup Asked \cup s.approvals \cup ToSet(answered)) = {}
  BY <1>0 DEF RequestsApart
<1>6. Asked' = Asked /\ fresh' = fresh /\ Once(outbox')
  BY <1>0, <1>2 DEF Asked, RequestsApart
<1>7. /\ fresh \cap (Asked \cup s.approvals \cup ToSet(answered)) = {}
      /\ Asked \cap (s.approvals \cup ToSet(answered)) = {} /\ s.approvals \cap ToSet(answered) = {}
  BY <1>0 DEF RequestsApart
<1>8. /\ AsksIn(todo'[th]) \cup fresh' \cup Asked' \cup s'.approvals \cup ToSet(answered')
           \subseteq AsksIn(todo[th]) \cup fresh \cup Asked \cup s.approvals \cup ToSet(answered)
      /\ AsksIn(todo'[th]) \cap (fresh' \cup Asked') = {}
      /\ fresh' \cap (Asked' \cup s'.approvals \cup ToSet(answered')) = {}
      /\ Asked' \cap (s'.approvals \cup ToSet(answered')) = {}
  BY <1>2, <1>3, <1>4, <1>5, <1>6, <1>7
<1>9. AsksIn(todo'[th]) \cap (s'.approvals \cup ToSet(answered')) = {} /\ s'.approvals \cap ToSet(answered') = {}
  BY <1>2, <1>3, <1>4, <1>5, <1>7
<1> QED
  BY <1>0, <1>3, <1>4, <1>6, <1>8, <1>9, RequestsMoved

\* The reader puts a request on the screen.
LEMMA ReadAskKeeps ==
  ASSUME IInv, ReadAsk
  PROVE  RequestsApart'
<1>p. PICK a : a = Head(outbox).ask
  OBVIOUS
<1>0. /\ TypeOK /\ RequestsApart /\ (\A x \in Thread : Separate(todo[x])) /\ outbox \in Seq(Output)
      /\ todo \in [Thread -> Seq(Step)] /\ s \in RuntimeState /\ Once(outbox)
  BY DEF IInv, MessageInv, TypeOK, StateOK, CliOK, RequestsApart
<1>1. /\ outbox # << >> /\ Head(outbox).kind = "ask" /\ outbox' = Tail(outbox)
      /\ s' = [s EXCEPT !.approvals = s.approvals \cup {a}, !.phase = "waitingApproval"]
      /\ Begin(Reader, Do("progress")) /\ UNCHANGED <<fresh, answered>>
  BY <1>p DEF ReadAsk, Frame, history
<1>2. Reader \in Thread /\ Harmless(Do("progress")) /\ Takes(Reader, Do("progress")) /\ todo[Reader] = << >>
  BY <1>1, Threads, HarmlessSteps DEF LightOp, Takes, Begin
<1>3. \A o \in Thread : AsksIn(todo'[o]) \subseteq AsksIn(todo[o])
  BY <1>0, <1>2, LightlyTaken
<1>4. s'.approvals = s.approvals \cup {a}
  BY <1>0, <1>1 DEF RuntimeState
<1>5. a \in Asked /\ a \notin Asked' /\ Asked' \subseteq Asked /\ Once(outbox')
  BY <1>p, <1>0, <1>1, AskedNext DEF Asked
<1>6. /\ AsksIn(todo[Reader]) \cap (fresh \cup Asked \cup s.approvals \cup ToSet(answered)) = {}
      /\ fresh \cap (Asked \cup s.approvals \cup ToSet(answered)) = {}
      /\ Asked \cap (s.approvals \cup ToSet(answered)) = {} /\ s.approvals \cap ToSet(answered) = {}
      /\ IsInjective(answered)
  BY <1>0, <1>2 DEF RequestsApart
<1>7. /\ AsksIn(todo'[Reader]) \cup fresh' \cup Asked' \cup s'.approvals \cup ToSet(answered')
           \subseteq AsksIn(todo[Reader]) \cup fresh \cup Asked \cup s.approvals \cup ToSet(answered)
      /\ AsksIn(todo'[Reader]) \cap (fresh' \cup Asked' \cup s'.approvals \cup ToSet(answered')) = {}
      /\ fresh' \cap (Asked' \cup s'.approvals \cup ToSet(answered')) = {}
      /\ Asked' \cap (s'.approvals \cup ToSet(answered')) = {} /\ s'.approvals \cap ToSet(answered') = {}
      /\ IsInjective(answered')
  BY <1>1, <1>2, <1>3, <1>4, <1>5, <1>6, SMTT(30)
<1> QED
  BY <1>0, <1>2, <1>3, <1>5, <1>7, RequestsMoved

\* The CLI makes a request.
LEMMA CliAsksKeeps ==
  ASSUME IInv, NEW a \in Ask, CliAsks(a)
  PROVE  RequestsApart'
<1>p. PICK frames : frames = <<[kind |-> "ask", ask |-> a]>>
  OBVIOUS
<1>0. TypeOK /\ RequestsApart /\ outbox \in Seq(Output) /\ Once(outbox) /\ Reader \in Thread
  BY Threads DEF IInv, TypeOK, CliOK, RequestsApart
<1>1. /\ a \in fresh /\ fresh' = fresh \ {a} /\ outbox' = outbox \o frames /\ UNCHANGED <<s, todo, answered>>
  BY <1>p DEF CliAsks, Say, history
<1>2. frames \in Seq(Output) /\ AskedIn(frames) = {a} /\ Once(frames)
  BY <1>p, FramesTyped, NothingAsked
<1>3. /\ AsksIn(todo[Reader]) \cap (fresh \cup Asked \cup s.approvals \cup ToSet(answered)) = {}
      /\ fresh \cap (Asked \cup s.approvals \cup ToSet(answered)) = {}
      /\ Asked \cap (s.approvals \cup ToSet(answered)) = {} /\ s.approvals \cap ToSet(answered) = {}
      /\ IsInjective(answered)
  BY <1>0 DEF RequestsApart
<1>4. Asked' = Asked \cup {a} /\ Once(outbox')
  BY <1>0, <1>1, <1>2, <1>3, AskedTogether DEF Asked
<1>5. \A o \in Thread : AsksIn(todo'[o]) \subseteq AsksIn(todo[o])
  BY <1>1
<1>6. /\ AsksIn(todo'[Reader]) \cup fresh' \cup Asked' \cup s'.approvals \cup ToSet(answered')
           \subseteq AsksIn(todo[Reader]) \cup fresh \cup Asked \cup s.approvals \cup ToSet(answered)
      /\ AsksIn(todo'[Reader]) \cap (fresh' \cup Asked' \cup s'.approvals \cup ToSet(answered')) = {}
      /\ fresh' \cap (Asked' \cup s'.approvals \cup ToSet(answered')) = {}
      /\ Asked' \cap (s'.approvals \cup ToSet(answered')) = {} /\ s'.approvals \cap ToSet(answered') = {}
      /\ IsInjective(answered')
  BY <1>1, <1>3, <1>4
<1> QED
  BY <1>0, <1>4, <1>5, <1>6, RequestsMoved

LEMMA RequestsKept ==
  ASSUME IInv, Next
  PROVE  RequestsApart'
<1>0. TypeOK /\ Gone /\ Promises /\ RequestsApart /\ \A x \in Thread : Separate(todo[x])
  BY DEF IInv, MessageInv
<1>1. AskCalm \/ (\E th \in Thread : Asking(th)) \/ ReadAsk \/ \E a \in Ask : CliAsks(a)
  BY <1>0, Threads, CalmAdvance, CalmCalls, CalmRead, CalmCli DEF Next
<1>2. (\A o \in Thread : AsksIn(todo'[o]) \subseteq AsksIn(todo[o])) \/ \E th \in Thread : Asking(th)
  <2>1. ASSUME NEW th \in Thread, Lightly(th) PROVE \A o \in Thread : AsksIn(todo'[o]) \subseteq AsksIn(todo[o])
    BY <1>0, <2>1, LightlyTaken DEF Lightly, TypeOK
  <2> QED
    BY <1>0, <2>1, NextSplit, CarriesFewer, BringsFewer
<1> QED
  BY <1>0, <1>1, <1>2, AskingKeeps, ReadAskKeeps, CliAsksKeeps, CalmRequests

-----------------------------------------------------------------------------
(* The invariant, and what follows from it.                                *)

LEMMA InitHolds == Init => IInv
<1> SUFFICES ASSUME Init PROVE IInv
  OBVIOUS
<1>1. \A th \in Thread : todo[th] = << >> /\ MsgsIn(todo[th]) = {} /\ AsksIn(todo[th]) = {} /\ Separate(todo[th])
  BY CarriedByFew DEF Init
<1>2. /\ s.claims = 0 /\ s.turn = 0 /\ s.queue = << >> /\ s.input = {} /\ s.held = << >> /\ s.approvals = {}
      /\ s.delivered = << >> /\ handed = << >> /\ answered = << >> /\ outbox = << >> /\ stops = {} /\ exit = "no"
  BY DEF Init
<1>3. ToSet(<< >>) = {} /\ Texts(<< >>) = {} /\ IsInjective(<< >>) /\ DOMAIN << >> = {}
  BY EmptyRange, NoDelivery
<1>4. TypeOK
  <2>1. StateOK
    <3>1. << >> \in Seq(Msg)
      OBVIOUS
    <3>2. << >> \in Seq(Held)
      OBVIOUS
    <3>3. << >> \in Deliveries
      BY NoDelivery
    <3>4. PICK nobody \in Seq(Msg) : nobody = << >>
      BY <3>1, Zenon
    <3>5. PICK nothing \in Seq(Held) : nothing = << >>
      BY <3>2, Zenon
    <3>6. PICK none \in Deliveries : none = << >>
      BY <3>3, Zenon
    <3>7. s = [phase |-> "ready", turn |-> 0, claims |-> 0, input |-> {}, queue |-> nobody,
               delivered |-> none, approvals |-> {}, interrupting |-> FALSE, held |-> nothing]
      BY <3>4, <3>5, <3>6, Zenon DEF Init
    <3>8. s \in RuntimeState
      BY <3>7 DEF RuntimeState, Phase
    <3>9. armed = {} /\ impatient = FALSE
      BY DEF Init
    <3>10. armed \subseteq 1 .. s.claims /\ impatient \in BOOLEAN
      BY <3>9
    <3>11. s.turn <= s.claims
      BY <1>2
    <3> QED
      BY <3>8, <3>10, <3>11 DEF StateOK
  <2>2. ProcessOK
    BY DEF Init, ProcessOK
  <2>3. CliOK
    BY DEF Init, CliOK
  <2>4. HistoryOK
    <3>1. [k \in Kind \cup {AnyKind} |-> 0] \in [Kind \cup {AnyKind} -> Nat]
      OBVIOUS
    <3>2. events \in [budget : Budgets, count : [Kind \cup {AnyKind} -> Nat], resent : BOOLEAN]
      BY <3>1 DEF Init
    <3>3. told \in [Msg -> {"unsent", "sending", "accepted", "refused", "removed"}]
      BY DEF Init
    <3> QED
      BY <3>2, <3>3 DEF Init, HistoryOK
  <2>5. todo \in [Thread -> Seq(Step)]
    <3>1. << >> \in Seq(Step)
      OBVIOUS
    <3> QED
      BY <3>1 DEF Init
  <2> QED
    BY <2>1, <2>2, <2>3, <2>4, <2>5 DEF TypeOK
<1>5. Gone
  BY DEF Init, Gone
<1>6. Promises /\ Undone
  BY <1>1 DEF Promises, Undone
<1>7. MessagesApart /\ ResumeApart
  BY <1>1, <1>2, <1>3 DEF MessagesApart, ResumeApart
<1>8. Here
  BY DEF Init, Here
<1>9. RequestsApart
  BY <1>1, <1>2, <1>3, NothingAsked DEF RequestsApart, Asked
<1> QED
  BY <1>1, <1>4, <1>5, <1>6, <1>7, <1>8, <1>9 DEF IInv, MessageInv

LEMMA NextHolds == IInv /\ [Next]_vars => IInv'
<1> SUFFICES ASSUME IInv, [Next]_vars PROVE IInv'
  OBVIOUS
<1>1. CASE Next
  <2>1. TypeOK /\ Promises /\ Gone
    BY DEF IInv, MessageInv
  <2>2. TypeOK' /\ Gone'
    BY <1>1, <2>1, TypesKept, GoneKept
  <2> QED
    BY <1>1, <2>2, MessagesKept, RequestsKept DEF IInv
<1>2. CASE UNCHANGED vars
  <2>1. /\ UNCHANGED <<s, stdin, pen, slot, lease, armed, impatient, todo, events>>
        /\ UNCHANGED <<exit, cli, fresh, backlog, inbox, outbox, told, lined, handed, answered, stops>>
    BY <1>2 DEF vars, process, dogs, external, history
  <2>2. TypeOK' /\ Gone'
    BY <2>1 DEF IInv, TypeOK, StateOK, ProcessOK, CliOK, HistoryOK, Gone, Alive
  <2>3. Promises'
    BY <2>1 DEF IInv, MessageInv, Promises, Promise, Posthumous, Stopping, Alive
  <2>4. (\A th \in Thread : Separate(todo[th]))' /\ MessagesApart' /\ ResumeApart' /\ Undone' /\ Here'
    BY <2>1 DEF IInv, MessageInv, MessagesApart, Sent, ResumeApart, Undone, At, Here
  <2>5. RequestsApart'
    BY <2>1 DEF IInv, RequestsApart, Asked
  <2> QED
    BY <2>2, <2>3, <2>4, <2>5 DEF IInv, MessageInv
<1> QED
  BY <1>1, <1>2

\* Everything above holds in every reachable state.
THEOREM RuntimeInvariance == Spec => []IInv
BY InitHolds, NextHolds, PTL DEF Spec

\* The values of chat.rs's state, and the steps a thread has still to take, are of their types.
THEOREM RuntimeTypeOK == Spec => []TypeOK
<1>1. IInv => TypeOK
  BY DEF IInv
<1> QED
  BY <1>1, RuntimeInvariance, PTL

\* release_account_runtime runs only when the CLI process is gone, on whichever path it is reached.
THEOREM LeaseOutlivesTheProcess == Spec => []LeaseOutlivesProcess
<1>1. IInv => LeaseOutlivesProcess
  BY DEF IInv, Gone, LeaseOutlivesProcess
<1> QED
  BY <1>1, RuntimeInvariance, PTL

\* A permission request is answered once, and one whose card is up has not been answered.
THEOREM RequestsAreAnsweredOnce == Spec => []AnsweredOnce
<1>1. IInv => AnsweredOnce
  BY DEF IInv, RequestsApart, AnsweredOnce
<1> QED
  BY <1>1, RuntimeInvariance, PTL

\* No message is written to the CLI twice, nor named twice by what a resume would send.
THEOREM MessagesAreWrittenOnce == Spec => []AtMostOnce
<1>1. IInv => AtMostOnce
  BY DEF IInv, MessageInv, MessagesApart, ResumeApart, AtMostOnce
<1> QED
  BY <1>1, RuntimeInvariance, PTL

\* A message whose sender believes it accepted is not lost while nothing stops the conversation.
THEOREM AcceptedIsAccounted == Spec => []Accounted
<1>1. IInv => Accounted
  <2> SUFFICES ASSUME IInv, NEW m \in Msg, told[m] = "accepted", stops = {} PROVE Kept(m)
    BY DEF Accounted
  <2>1. m \in ToSet(s.queue) \cup ToSet(handed) \/ \E th \in Thread : m \in MsgsIn(todo[th])
    BY DEF IInv, MessageInv, Here
  <2>2. ASSUME NEW th \in Thread, m \in MsgsIn(todo[th]) PROVE Kept(m)
    <3>1. PICK i \in DOMAIN todo[th] : m \in MsgsOf(todo[th][i])
      BY <2>2 DEF MsgsIn
    <3>2. PICK step \in Step : step = todo[th][i]
      BY DEF IInv, TypeOK
    <3>3. "msg" \in DOMAIN step /\ step.msg = m
      <4>1. step.op \in {"open_turn", "write_turn", "deliver", "write_delivery", "requeue"} /\ step.msg = m
        BY <3>1, <3>2 DEF MsgsOf
      <4> QED
        BY <4>1 DEF Step
    <3> QED
      BY <3>2, <3>3 DEF Kept
  <2> QED
    BY <2>1, <2>2 DEF Kept
<1> QED
  BY <1>1, RuntimeInvariance, PTL

-----------------------------------------------------------------------------
(* The order of the messages.  As long as nothing makes an exception, and  *)
(* the CLI can still be written to, one turn at most is under way: claimed *)
(* and not yet written, unread by the CLI, worked on by it, its result     *)
(* unread, or read and not yet taken note of.  So nobody claims a turn     *)
(* while another thread still has one to write.                            *)

\* Nothing has happened that changes the order of the messages.
Undisturbed == ~Happened("steer") /\ ~Happened("gone") /\ ~Happened("wake")

FreeOf(list, S) == \A i \in DOMAIN list : list[i] \notin S
AtMostOneOf(list, S) == \A i, j \in DOMAIN list : list[i] \in S /\ list[j] \in S => i = j

\* A turn to be written, or to be taken note of as over.
TurnSteps ==
  {x \in Step : x.op \in {"open_turn", "write_turn"} \/ (x.op = "set_phase" /\ x.phase = "ready")}
Results == {f \in Output : f.kind = "result"}

\* Steps that only an exception, or a pipe without a reader, leaves to do.
RoughSteps == {x \in Step : x.op \in {"deliver", "write_delivery", "unclaim", "requeue"}}

NoneInHand == \A th \in Thread : FreeOf(todo[th], TurnSteps)
NoTurn == NoneInHand /\ FreeOf(inbox, Message) /\ FreeOf(outbox, Results) /\ cli = "idle"

OneTurn ==
  /\ \A th, o \in Thread : th = o \/ FreeOf(todo[th], TurnSteps) \/ FreeOf(todo[o], TurnSteps)
  /\ \A th \in Thread : AtMostOneOf(todo[th], TurnSteps)
  /\ AtMostOneOf(inbox, Message) /\ AtMostOneOf(outbox, Results) /\ backlog = << >>
  /\ NoneInHand \/ (FreeOf(inbox, Message) /\ FreeOf(outbox, Results) /\ cli = "idle")
  /\ FreeOf(inbox, Message) \/ (FreeOf(outbox, Results) /\ cli = "idle")
  /\ FreeOf(outbox, Results) \/ cli = "idle"
  /\ s.phase = "ready" => NoTurn

Smooth == \A th \in Thread : FreeOf(todo[th], RoughSteps)

\* Of two messages the first was let in first.
Before(m, n) == \E i, j \in DOMAIN lined : i < j /\ lined[i] = m /\ lined[j] = n

\* What is written came before what is claimed, that before what waits, and that waits in order.
InLine ==
  /\ \A m \in ToSet(s.queue) \cup ToSet(handed) : m \in ToSet(lined)
  /\ \A th \in Thread : MsgsIn(todo[th]) \subseteq ToSet(lined)
  /\ \A i, j \in DOMAIN s.queue : i < j => Before(s.queue[i], s.queue[j])
  /\ \A m \in ToSet(handed), n \in ToSet(s.queue) : Before(m, n)
  /\ \A th \in Thread : \A m \in MsgsIn(todo[th]) :
       /\ \A n \in ToSet(s.queue) : Before(m, n)
       /\ \A n \in ToSet(handed) : Before(n, m)

\* A turn at most is under way, and what it carries is in line.
Flow == Smooth /\ OneTurn /\ InLine

LinedOnce == IsInjective(lined) /\ ToSet(lined) \subseteq Sent
HandedInLine == \A i, j \in DOMAIN handed : i < j => Before(handed[i], handed[j])

\* Once the CLI cannot be written to, turns fail and what is left to do is of no
\* account: nothing more is handed to it.
OrderInv ==
  /\ LinedOnce
  /\ Undisturbed => HandedInLine
  /\ Undisturbed /\ CanWrite => Flow

-----------------------------------------------------------------------------
(* Lists with at most one of a kind.                                       *)

LEMMA FreeNone == \A S : FreeOf(<< >>, S) /\ AtMostOneOf(<< >>, S)
BY DEF FreeOf, AtMostOneOf

LEMMA FreeOne == \A x, S : AtMostOneOf(<<x>>, S) /\ (x \notin S => FreeOf(<<x>>, S))
BY DEF FreeOf, AtMostOneOf

LEMMA FreeTogether ==
  ASSUME NEW T, NEW a \in Seq(T), NEW b \in Seq(T), NEW S
  PROVE  /\ FreeOf(a, S) /\ FreeOf(b, S) => FreeOf(a \o b, S)
         /\ FreeOf(a, S) /\ AtMostOneOf(b, S) => AtMostOneOf(a \o b, S)
         /\ AtMostOneOf(a, S) /\ FreeOf(b, S) => AtMostOneOf(a \o b, S)
<1> DEFINE n == Len(a)
           c == a \o b
<1>1. /\ n \in Nat /\ DOMAIN a = 1 .. n
      /\ \A i \in DOMAIN c : \/ i \in DOMAIN a /\ c[i] = a[i]
                             \/ i - n \in DOMAIN b /\ c[i] = b[i - n]
      /\ DOMAIN c \subseteq Nat
  <2>1. Len(c) \in Nat /\ DOMAIN c = 1 .. Len(c) /\ n \in Nat /\ DOMAIN a = 1 .. n
    OBVIOUS
  <2> QED
    BY <2>1, Concatenated
<1> HIDE DEF n, c
<1>2. FreeOf(a, S) /\ FreeOf(b, S) => FreeOf(c, S)
  BY <1>1 DEF FreeOf
<1>3. FreeOf(a, S) /\ AtMostOneOf(b, S) => AtMostOneOf(c, S)
  <2> SUFFICES ASSUME FreeOf(a, S), AtMostOneOf(b, S),
                      NEW i \in DOMAIN c, NEW j \in DOMAIN c, c[i] \in S, c[j] \in S
               PROVE  i = j
    BY DEF AtMostOneOf
  <2>1. i - n \in DOMAIN b /\ b[i - n] \in S /\ j - n \in DOMAIN b /\ b[j - n] \in S
    BY <1>1 DEF FreeOf
  <2>2. i - n = j - n
    BY <2>1 DEF AtMostOneOf
  <2> QED
    BY <1>1, <2>2
<1>4. AtMostOneOf(a, S) /\ FreeOf(b, S) => AtMostOneOf(c, S)
  BY <1>1 DEF FreeOf, AtMostOneOf
<1> QED
  BY <1>2, <1>3, <1>4 DEF c

LEMMA FreeAhead ==
  ASSUME NEW T, NEW a \in Seq(T), a # << >>, NEW S
  PROVE  /\ Tail(a) \in Seq(T)
         /\ FreeOf(a, S) => FreeOf(Tail(a), S) /\ Head(a) \notin S
         /\ AtMostOneOf(a, S) => AtMostOneOf(Tail(a), S)
         /\ AtMostOneOf(a, S) /\ Head(a) \in S => FreeOf(Tail(a), S)
<1>1. /\ Tail(a) \in Seq(T) /\ 1 \in DOMAIN a /\ a[1] = Head(a)
      /\ \A i \in DOMAIN Tail(a) : i + 1 \in DOMAIN a /\ Tail(a)[i] = a[i + 1] /\ i \in Nat \ {0}
  <2>1. DOMAIN Tail(a) = 1 .. Len(Tail(a)) /\ Len(Tail(a)) \in Nat
    OBVIOUS
  <2> QED
    BY <2>1, HeadAndTail
<1>2. FreeOf(a, S) => FreeOf(Tail(a), S) /\ Head(a) \notin S
  BY <1>1 DEF FreeOf
<1>3. AtMostOneOf(a, S) => AtMostOneOf(Tail(a), S)
  <2> SUFFICES ASSUME AtMostOneOf(a, S), NEW i \in DOMAIN Tail(a), NEW j \in DOMAIN Tail(a),
                      Tail(a)[i] \in S, Tail(a)[j] \in S
               PROVE  i = j
    BY DEF AtMostOneOf
  <2>1. i + 1 = j + 1
    BY <1>1 DEF AtMostOneOf
  <2> QED
    BY <1>1, <2>1
<1>4. AtMostOneOf(a, S) /\ Head(a) \in S => FreeOf(Tail(a), S)
  <2> SUFFICES ASSUME AtMostOneOf(a, S), Head(a) \in S, NEW i \in DOMAIN Tail(a), Tail(a)[i] \in S
               PROVE  FALSE
    BY DEF FreeOf
  <2>1. i + 1 = 1
    BY <1>1 DEF AtMostOneOf
  <2> QED
    BY <1>1, <2>1
<1> QED
  BY <1>1, <1>2, <1>3, <1>4

LEMMA FreeAppended ==
  ASSUME NEW T, NEW a \in Seq(T), NEW x \in T, NEW S
  PROVE  /\ x \notin S /\ FreeOf(a, S) => FreeOf(Append(a, x), S)
         /\ x \notin S /\ AtMostOneOf(a, S) => AtMostOneOf(Append(a, x), S)
         /\ FreeOf(a, S) => AtMostOneOf(Append(a, x), S)
<1>1. /\ DOMAIN Append(a, x) = 1 .. Len(a) + 1 /\ DOMAIN a = 1 .. Len(a) /\ Len(a) \in Nat
      /\ Append(a, x)[Len(a) + 1] = x /\ \A i \in 1 .. Len(a) : Append(a, x)[i] = a[i]
  OBVIOUS
<1>2. \A i \in 1 .. Len(a) + 1 : i \in 1 .. Len(a) \/ i = Len(a) + 1
  BY <1>1
<1> QED
  BY <1>1, <1>2 DEF FreeOf, AtMostOneOf

\* What a thread that takes a step leaves in its list.
LEMMA Onward ==
  ASSUME TypeOK, NEW th \in Thread, NEW steps \in Seq(Step), Takes(th, steps), NEW S
  PROVE  /\ \A o \in Thread \ {th} : todo'[o] = todo[o]
         /\ FreeOf(steps, S) /\ FreeOf(todo[th], S) => FreeOf(todo'[th], S)
         /\ FreeOf(steps, S) /\ AtMostOneOf(todo[th], S) => AtMostOneOf(todo'[th], S)
         /\ AtMostOneOf(steps, S) /\ FreeOf(todo[th], S) => AtMostOneOf(todo'[th], S)
         /\ AtMostOneOf(todo[th], S) /\ todo[th] # << >> /\ Now(th) \in S =>
              /\ FreeOf(steps, S) => FreeOf(todo'[th], S)
              /\ AtMostOneOf(steps, S) => AtMostOneOf(todo'[th], S)
<1>1. todo \in [Thread -> Seq(Step)]
  BY DEF TypeOK
<1>2. Rest(th) \in Seq(Step) /\ todo'[th] = steps \o Rest(th) /\ \A o \in Thread \ {th} : todo'[o] = todo[o]
  BY <1>1, StepTaken
<1>3. /\ FreeOf(todo[th], S) => FreeOf(Rest(th), S)
      /\ AtMostOneOf(todo[th], S) => AtMostOneOf(Rest(th), S)
      /\ AtMostOneOf(todo[th], S) /\ todo[th] # << >> /\ Now(th) \in S => FreeOf(Rest(th), S)
  <2>1. CASE todo[th] = << >>
    BY <2>1, FreeNone DEF Rest
  <2>2. CASE todo[th] # << >>
    BY <1>1, <2>2, FreeAhead DEF Rest, Now
  <2> QED
    BY <2>1, <2>2
<1> QED
  BY <1>2, <1>3, FreeTogether

-----------------------------------------------------------------------------
(* What comes about and does not go away.                                  *)

\* What is over does not come back.
Less == (stdin' => stdin) /\ (exit' = "no" => exit = "no") /\ (CanWrite' => CanWrite)

LEMMA Monotone ==
  ASSUME TypeOK, Next
  PROVE  (\A k \in Kind : Happened(k) => Happened(k)') /\ Less
<1> USE DEF history, external, process, dogs, vars
<1>1. ASSUME Counts PROVE \A k \in Kind : Happened(k) => Happened(k)'
  <2>1. /\ events.count \in [Kind \cup {AnyKind} -> Nat]
        /\ \A kind \in Kind : Spend(kind) => events'.count = Counted(events.count, kind)
    BY DEF TypeOK, HistoryOK, Spend
  <2>2. \A kind \in Kind, k \in Kind : Counted(events.count, kind)[k] >= events.count[k] /\ events.count[k] \in Nat
    BY <2>1 DEF Counted
  <2>3. ASSUME NEW k \in Kind, events.count[k] > 0 PROVE events'.count[k] > 0
    <3>1. CASE UNCHANGED events
      BY <2>3, <3>1
    <3>2. ASSUME NEW kind \in Kind, Spend(kind) PROVE events'.count[k] > 0
      <4>1. events'.count = Counted(events.count, kind)
        BY <2>1, <3>2
      <4>2. Counted(events.count, kind)[k] >= events.count[k] /\ events.count[k] \in Nat
        BY <2>2
      <4>3. Counted(events.count, kind)[k] \in Nat
        BY <2>1 DEF Counted
      <4> QED
        BY <2>3, <4>1, <4>2, <4>3
    <3> QED
      BY <1>1, <3>1, <3>2 DEF Counts
  <2> QED
    BY <2>3 DEF Happened
<1>2. ASSUME stdin' \in {stdin, FALSE}, exit' \in {exit, "hung", "ok", "bad"}, exit' = "hung" => exit \in {"no", "hung"}
      PROVE  Less
  <2>1. stdin' => stdin
    BY <1>2, Zenon
  <2>2. exit' = "no" => exit = "no"
    BY <1>2
  <2>3. CanWrite' => CanWrite
    BY <1>2 DEF CanWrite, Alive
  <2> QED
    BY <2>1, <2>2, <2>3 DEF Less
<1>3. ASSUME NEW th \in Thread, Advance(th) PROVE (\A k \in Kind : Happened(k) => Happened(k)') /\ Less
  <2>0. {"gone", "stubborn"} \subseteq Kind
    BY DEF Kind
  <2>1. CASE Quiet1(th)
    <3>1. UNCHANGED <<events, exit>> /\ stdin' \in {stdin, FALSE}
      BY <2>1 DEF Quiet1, Unclaim, Refuse, forget_delivery, Unflag, set_phase, apply_turn_event, ClearTurn,
           apply_error_event, Progress, Preserve, CloseStdin, release_account_runtime, ReleaseChild
    <3> QED
      BY <1>1, <1>2, <3>1 DEF Counts
  <2>2. CASE Quiet2(th)
    <3>1. Counts /\ UNCHANGED stdin /\ exit' \in {exit, "bad"}
      BY <2>0, <2>2 DEF Counts, Quiet2, Note, WriteInterrupt, emit_turn, discard_pending_approvals, Adopt, Kill, Reap, Clear, Judge
    <3> QED
      BY <1>1, <1>2, <3>1
  <2>3. CASE Laden(th)
    <3>1. UNCHANGED <<stdin, exit>> /\ (Counts \/ events'.count = events.count)
      <4>1. CASE requeue_front(th)
        BY <4>1 DEF requeue_front, TypeOK, HistoryOK
      <4>2. CASE ~requeue_front(th)
        BY <2>0, <2>3, <4>2 DEF Counts, Laden, Drain, OpenedTurn, WriteTurn, Deliver, WriteDelivery,
             WriteAnswer, Reinsert, cancel_pending_approvals, Respond
      <4> QED
        BY <4>1, <4>2
    <3> QED
      BY <1>1, <1>2, <3>1 DEF Happened
  <2>4. CASE Wait(th)
    BY <1>1, <1>2, <2>4 DEF Wait, Counts
  <2> QED
    BY <1>3, <2>1, <2>2, <2>3, <2>4, AdvanceSplit
<1>4. ASSUME NEW th \in Client, Call(th) PROVE Counts /\ UNCHANGED <<stdin, exit>>
  BY <1>4 DEF Counts, Kind, Call, Send, SendRefused, SendStart, SendDeliver, SendQueue, remove_queued, Approve, Interrupt, Stop
<1>5. CASE Read \/ Poll \/ TurnWatchdog \/ InterruptWatchdog \/ InterruptSeen
  <2>1. Counts /\ UNCHANGED <<stdin, exit>>
    BY <1>5 DEF Counts, Kind, Read, ReadContent, ReadAsk, ReadCancel, ReadLifecycle, ReadRefusal, ReadResult,
           Poll, TurnWatchdog, InterruptWatchdog, InterruptSeen
  <2> QED
    BY <1>1, <1>2, <2>1
<1>6. CASE Cli \/ CliMay
  <2>1. Counts /\ UNCHANGED stdin
    BY <1>6 DEF Counts, Kind, Cli, CliMay, CliTakesMessage, CliTakesInterrupt, CliTakesAnswer, CliSpeaks, CliNext,
           CliEnds, CliAsks, CliWithdraws, CliWakes, CliExits, CliFreezes
  <2>2. exit' \in {exit, "hung", "ok", "bad"} /\ (exit' = "hung" => exit \in {"no", "hung"})
    BY <1>6 DEF Cli, CliMay, CliTakesMessage, CliTakesInterrupt, CliTakesAnswer, CliSpeaks, CliNext,
           CliEnds, CliAsks, CliWithdraws, CliWakes, CliExits, CliFreezes
  <2> QED
    BY <1>1, <1>2, <2>1, <2>2
<1> QED
  BY <1>1, <1>2, <1>3, <1>4, <1>5, <1>6 DEF Next

LEMMA StaysUndisturbed ==
  ASSUME TypeOK, Next
  PROVE  (Undisturbed' => Undisturbed) /\ (CanWrite' => CanWrite)
BY Monotone DEF Undisturbed, Kind, Less

-----------------------------------------------------------------------------
(* Steps that move no turn.                                                *)

TodoSteady ==
  \A th \in Thread :
    /\ FreeOf(todo[th], TurnSteps) => FreeOf(todo'[th], TurnSteps)
    /\ AtMostOneOf(todo[th], TurnSteps) => AtMostOneOf(todo'[th], TurnSteps)
    /\ FreeOf(todo[th], RoughSteps) => FreeOf(todo'[th], RoughSteps)
    /\ MsgsIn(todo'[th]) \subseteq MsgsIn(todo[th])

PipesSteady ==
  /\ FreeOf(inbox, Message) => FreeOf(inbox', Message)
  /\ AtMostOneOf(inbox, Message) => AtMostOneOf(inbox', Message)
  /\ FreeOf(outbox, Results) => FreeOf(outbox', Results)
  /\ AtMostOneOf(outbox, Results) => AtMostOneOf(outbox', Results)
  /\ cli = "idle" => cli' = "idle"
  /\ backlog' = backlog

StateSteady ==
  /\ s'.phase = "ready" => s.phase = "ready"
  /\ s'.queue \in {s.queue, << >>}
  /\ UNCHANGED <<lined, handed>>

LEMMA TurnKeeps ==
  ASSUME Smooth, OneTurn, TodoSteady, PipesSteady, s'.phase = "ready" => s.phase = "ready"
  PROVE  Smooth' /\ OneTurn'
<1>1. Smooth'
  BY DEF Smooth, TodoSteady
<1>2. NoneInHand => NoneInHand'
  BY DEF NoneInHand, TodoSteady
<1>3. NoTurn => NoTurn'
  BY <1>2 DEF NoTurn, PipesSteady
<1>4. \A th, o \in Thread : th = o \/ FreeOf(todo'[th], TurnSteps) \/ FreeOf(todo'[o], TurnSteps)
  BY DEF OneTurn, TodoSteady
<1>5. \A th \in Thread : AtMostOneOf(todo'[th], TurnSteps)
  BY DEF OneTurn, TodoSteady
<1> QED
  BY <1>1, <1>2, <1>3, <1>4, <1>5 DEF OneTurn, PipesSteady

LEMMA BeforeKept == ASSUME UNCHANGED lined PROVE \A m, n : Before(m, n)' <=> Before(m, n)
BY DEF Before

\* What waits only gets less, nothing new is written, and nobody gets hold of another message.
LEMMA LineKeeps ==
  ASSUME InLine, UNCHANGED <<lined, handed>>, s'.queue \in {s.queue, << >>},
         \A th \in Thread : MsgsIn(todo'[th]) \subseteq MsgsIn(todo[th])
  PROVE  InLine'
<1>1. /\ ToSet(s'.queue) \subseteq ToSet(s.queue) /\ ToSet(lined') = ToSet(lined) /\ ToSet(handed') = ToSet(handed)
      /\ DOMAIN s'.queue \subseteq DOMAIN s.queue /\ \A i \in DOMAIN s'.queue : s'.queue[i] = s.queue[i]
  <2>1. ToSet(<< >>) = {} /\ DOMAIN << >> = {}
    BY EmptyRange
  <2> QED
    BY <2>1
<1>2. \A i, j \in DOMAIN s'.queue : i < j => Before(s'.queue[i], s'.queue[j])
  BY <1>1 DEF InLine
<1>3. /\ \A m \in ToSet(s'.queue) \cup ToSet(handed') : m \in ToSet(lined')
      /\ \A th \in Thread : MsgsIn(todo'[th]) \subseteq ToSet(lined')
  BY <1>1 DEF InLine
<1>4. \A m \in ToSet(handed'), n \in ToSet(s'.queue) : Before(m, n)
  BY <1>1 DEF InLine
<1>5. ASSUME NEW th \in Thread, NEW m \in MsgsIn(todo'[th])
      PROVE  /\ \A n \in ToSet(s'.queue) : Before(m, n)
             /\ \A n \in ToSet(handed') : Before(n, m)
  <2>1. m \in MsgsIn(todo[th])
    BY <1>5
  <2> QED
    BY <1>1, <2>1 DEF InLine
<1>6. \A m, n : Before(m, n)' <=> Before(m, n)
  BY BeforeKept
<1> QED
  BY <1>2, <1>3, <1>4, <1>5, <1>6 DEF InLine

LEMMA SteadyKeeps ==
  ASSUME Smooth, OneTurn, InLine, TodoSteady, PipesSteady, StateSteady
  PROVE  Smooth' /\ OneTurn' /\ InLine'
BY TurnKeeps, LineKeeps DEF TodoSteady, StateSteady

\* Nobody carries a message who has no turn to write and nothing to make up for.
LEMMA EmptyHanded ==
  ASSUME NEW steps \in Seq(Step), FreeOf(steps, TurnSteps), FreeOf(steps, RoughSteps)
  PROVE  MsgsIn(steps) = {}
<1>1. ASSUME NEW x \in Step, x \notin TurnSteps, x \notin RoughSteps PROVE MsgsOf(x) = {}
  BY <1>1 DEF MsgsOf, TurnSteps, RoughSteps
<1>2. \A i \in DOMAIN steps : MsgsOf(steps[i]) = {}
  BY <1>1 DEF FreeOf
<1> QED
  BY <1>2 DEF MsgsIn

\* Steps that have nothing to do with turns.
Easy(steps) == steps \in Seq(Step) /\ FreeOf(steps, TurnSteps) /\ FreeOf(steps, RoughSteps)

LEMMA EasyNone == Easy(<< >>)
BY FreeNone DEF Easy

LEMMA EasyOne == ASSUME NEW x \in Step, x \notin TurnSteps, x \notin RoughSteps PROVE Easy(<<x>>)
BY FreeOne DEF Easy

LEMMA EasyBoth == ASSUME NEW a, NEW b, Easy(a), Easy(b) PROVE Easy(a \o b)
<1>1. a \o b \in Seq(Step)
  BY Concatenated DEF Easy
<1> QED
  BY <1>1, FreeTogether DEF Easy

EasyOp == {"drain", "clear_turn", "unflag", "progress", "discard", "preserve", "adopt", "cancel", "close_stdin",
           "kill", "reap", "release", "release_child", "release_stdin", "judge", "write_interrupt"}

LEMMA EasySteps ==
  /\ \A op \in EasyOp : Easy(Do(op))
  /\ \A x \in BOOLEAN : Easy(<<[op |-> "clear", terminated |-> x]>>)
  /\ \A x \in BOOLEAN : Easy(<<[op |-> "error", limit |-> x]>>)
  /\ \A x \in Status : Easy(EmitTurn(x))
  /\ \A x \in Status, t \in Nat : Easy(<<[op |-> "turn_event", turn |-> t, status |-> x]>>)
  /\ \A x \in Phase \ {"ready"} : Easy(SetPhase(x))
  /\ \A x \in Decision : Easy(<<[op |-> "note", decision |-> x]>>)
  /\ \A a \in Ask, x \in Decision : Easy(<<[op |-> "answer", ask |-> a, decision |-> x]>>)
  /\ \A a \in Ask : Easy(<<[op |-> "reinsert", ask |-> a]>>)
  /\ \A A \in SUBSET Ask : Easy(Responses(A))
<1> USE DEF TurnSteps, RoughSteps
<1>1. ASSUME NEW op \in EasyOp PROVE Easy(Do(op))
  BY EasyOne DEF EasyOp, Do, Step
<1>2. ASSUME NEW x \in BOOLEAN
      PROVE  Easy(<<[op |-> "clear", terminated |-> x]>>) /\ Easy(<<[op |-> "error", limit |-> x]>>)
  BY EasyOne DEF Step
<1>3. ASSUME NEW x \in Status PROVE Easy(EmitTurn(x))
  BY EasyOne DEF EmitTurn, Step
<1>4. ASSUME NEW x \in Status, NEW t \in Nat PROVE Easy(<<[op |-> "turn_event", turn |-> t, status |-> x]>>)
  BY EasyOne DEF Step
<1>5. ASSUME NEW x \in Phase \ {"ready"} PROVE Easy(SetPhase(x))
  BY EasyOne DEF SetPhase, Step
<1>6. ASSUME NEW x \in Decision PROVE Easy(<<[op |-> "note", decision |-> x]>>)
  BY EasyOne DEF Step
<1>7. ASSUME NEW a \in Ask, NEW x \in Decision PROVE Easy(<<[op |-> "answer", ask |-> a, decision |-> x]>>)
  BY EasyOne DEF Step
<1>8. ASSUME NEW a \in Ask PROVE Easy(<<[op |-> "reinsert", ask |-> a]>>)
  BY EasyOne DEF Step
<1>9. ASSUME NEW A \in SUBSET Ask PROVE Easy(Responses(A))
  <2>1. Easy(<<[op |-> "respond", asks |-> A]>>)
    BY EasyOne DEF Step
  <2> QED
    BY <2>1, EasyNone DEF Responses
<1> QED
  BY <1>1, <1>2, <1>3, <1>4, <1>5, <1>6, <1>7, <1>8, <1>9

LEMMA StopStepsEasy == Easy(StopSteps)
BY EasySteps, EasyBoth DEF StopSteps, EasyOp

\* A thread that takes such steps moves no turn.
Easily(th) == \E steps : Easy(steps) /\ Takes(th, steps)

LEMMA EasilySteady ==
  ASSUME TypeOK, UNCHANGED todo \/ \E th \in Thread : Easily(th)
  PROVE  TodoSteady
<1>1. CASE UNCHANGED todo
  BY <1>1 DEF TodoSteady
<1>2. ASSUME NEW th \in Thread, Easily(th) PROVE TodoSteady
  <2>1. PICK steps : Easy(steps) /\ Takes(th, steps)
    BY <1>2 DEF Easily
  <2>2. /\ \A o \in Thread \ {th} : todo'[o] = todo[o]
        /\ FreeOf(todo[th], TurnSteps) => FreeOf(todo'[th], TurnSteps)
        /\ AtMostOneOf(todo[th], TurnSteps) => AtMostOneOf(todo'[th], TurnSteps)
        /\ FreeOf(todo[th], RoughSteps) => FreeOf(todo'[th], RoughSteps)
    BY <2>1, Onward DEF Easy
  <2>3. MsgsIn(steps) = {}
    BY <2>1, EmptyHanded DEF Easy
  <2>4. MsgsIn(todo'[th]) \subseteq MsgsIn(todo[th])
    <3>1. /\ steps \in Seq(Step) /\ Rest(th) \in Seq(Step) /\ todo'[th] = steps \o Rest(th)
          /\ MsgsIn(Rest(th)) \subseteq MsgsIn(todo[th])
      BY <2>1, StepTaken, RestOf DEF TypeOK, Easy
    <3>2. MsgsIn(steps \o Rest(th)) = MsgsIn(steps) \cup MsgsIn(Rest(th))
      BY <3>1, CarriedTogether
    <3> QED
      BY <2>3, <3>1, <3>2
  <2> QED
    BY <2>2, <2>4 DEF TodoSteady
<1> QED
  BY <1>1, <1>2

Steady == TodoSteady /\ PipesSteady /\ StateSteady

LEMMA EasyHead ==
  ASSUME NEW th \in Thread, NEW steps, Easy(steps), todo[th] # << >>, Then(th, steps)
  PROVE  Easily(th)
BY DEF Easily, Takes

LEMMA EasyBegin ==
  ASSUME NEW th \in Thread, NEW steps, Easy(steps), Begin(th, steps)
  PROVE  Easily(th)
BY DEF Easily, Takes

\* The pipes, when a frame goes in that is neither a message nor a result.
LEMMA PipesAppended ==
  ASSUME TypeOK,
         UNCHANGED <<cli, backlog>>,
         inbox' = inbox \/ (\E f \in Input \ Message : inbox' = Append(inbox, f)),
         UNCHANGED outbox \/ (outbox # << >> /\ outbox' = Tail(outbox))
  PROVE  PipesSteady
<1>1. inbox \in Seq(Input) /\ outbox \in Seq(Output)
  BY DEF TypeOK, CliOK
<1>2. /\ FreeOf(inbox, Message) => FreeOf(inbox', Message)
      /\ AtMostOneOf(inbox, Message) => AtMostOneOf(inbox', Message)
  <2>1. ASSUME NEW f \in Input, f \notin Message
        PROVE  /\ FreeOf(inbox, Message) => FreeOf(Append(inbox, f), Message)
               /\ AtMostOneOf(inbox, Message) => AtMostOneOf(Append(inbox, f), Message)
    BY <1>1, <2>1, FreeAppended
  <2> QED
    BY <2>1
<1>3. /\ FreeOf(outbox, Results) => FreeOf(outbox', Results)
      /\ AtMostOneOf(outbox, Results) => AtMostOneOf(outbox', Results)
  <2>1. CASE UNCHANGED outbox
    BY <2>1
  <2>2. CASE outbox # << >> /\ outbox' = Tail(outbox)
    <3>1. /\ FreeOf(outbox, Results) => FreeOf(Tail(outbox), Results)
          /\ AtMostOneOf(outbox, Results) => AtMostOneOf(Tail(outbox), Results)
      BY <1>1, <2>2, FreeAhead
    <3> QED
      BY <2>2, <3>1
  <2> QED
    BY <2>1, <2>2
<1> QED
  BY <1>2, <1>3 DEF PipesSteady

LEMMA SteadyQuiet1 ==
  ASSUME TypeOK, Smooth, OneTurn, NEW th \in Thread, Quiet1(th), ~ (set_phase(th) /\ s'.phase = "ready")
  PROVE  Steady
<1>1. /\ todo[th] # << >> /\ Then(th, << >>)
      /\ UNCHANGED external /\ UNCHANGED <<lined, handed>>
  BY DEF history, Quiet1, Unclaim, Refuse, forget_delivery, Unflag, set_phase, apply_turn_event, ClearTurn,
         apply_error_event, Progress, Preserve, CloseStdin, release_account_runtime, ReleaseChild, At
<1>2. TodoSteady
  BY <1>1, EasyNone, EasyHead, EasilySteady
<1>3. PipesSteady
  BY <1>1, PipesAppended DEF external
<1>4. ~ Unclaim(th)
  <2>1. SUFFICES ASSUME Unclaim(th) PROVE FALSE
    OBVIOUS
  <2>2. todo[th] \in Seq(Step) /\ Now(th).op = "unclaim"
    BY <2>1 DEF Unclaim, At, Now, TypeOK
  <2>3. Now(th) \in Step /\ 1 \in DOMAIN todo[th] /\ todo[th][1] = Now(th)
    BY <1>1, <2>2, HeadAndTail DEF Now
  <2> QED
    BY <2>2, <2>3 DEF Smooth, FreeOf, RoughSteps
<1>5. (s'.phase = "ready" => s.phase = "ready") /\ s'.queue \in {s.queue, << >>}
  <2>1. s \in RuntimeState
    BY DEF TypeOK, StateOK
  <2>2. CASE UNCHANGED s
    BY <2>2
  <2>3. CASE set_phase(th) \/ forget_delivery(th) \/ Unflag(th) \/ apply_turn_event(th)
    BY <2>1, <2>3 DEF RuntimeState, set_phase, forget_delivery, Unflag, apply_turn_event
  <2>4. CASE ClearTurn(th) \/ apply_error_event(th) \/ Preserve(th)
    BY <2>1, <2>4 DEF RuntimeState, ClearTurn, apply_error_event, Preserve
  <2> QED
    BY <1>4, <2>2, <2>3, <2>4 DEF Quiet1, Refuse, Progress, CloseStdin, release_account_runtime, ReleaseChild
<1> QED
  BY <1>1, <1>2, <1>3, <1>5 DEF Steady, StateSteady

LEMMA EasyQuiet2 ==
  ASSUME TypeOK, NEW th \in Thread, Quiet2(th)
  PROVE  Easily(th)
<1> USE DEF EasyOp
<1>0. todo[th] # << >>
  BY QuietHead
<1>1. Now(th) \in Step
  BY <1>0, HeadStep
<1>2. SUFFICES \E steps : Easy(steps) /\ Then(th, steps)
  BY <1>0, EasyHead
<1>3. CASE Note(th)
  <2>1. approval_phase(s.approvals) \in Phase \ {"ready"}
    BY DEF approval_phase, Phase, Active
  <2>2. Easy(SetPhase(approval_phase(s.approvals))) /\ Easy(Do("progress"))
    BY <2>1, EasySteps
  <2> QED
    BY <1>3, <2>2, EasyBoth DEF Note
<1>4. CASE WriteInterrupt(th) \/ discard_pending_approvals(th) \/ Adopt(th)
  BY <1>4, EasyNone, EasySteps DEF WriteInterrupt, discard_pending_approvals, Adopt
<1>5. CASE emit_turn(th)
  <2>1. Now(th).status \in Status /\ s.turn \in Nat
    BY <1>1, <1>5, StepFields DEF emit_turn, At, Now, TypeOK, StateOK, RuntimeState
  <2>2. Easy(<<[op |-> "turn_event", turn |-> s.turn, status |-> Now(th).status]>>) /\ Easy(Do("clear_turn"))
    BY <2>1, EasySteps
  <2> QED
    BY <1>5, <2>2, EasyBoth DEF emit_turn
<1>6. CASE Kill(th) \/ Reap(th)
  BY <1>6, EasySteps DEF Kill, Reap
<1>7. CASE Clear(th)
  <2>1. Easy(SetPhase("stopped")) /\ Easy(SetPhase("failed")) /\ Easy(Do("release"))
    BY EasySteps DEF Phase, Terminal
  <2> QED
    BY <1>7, <2>1, EasyBoth DEF Clear
<1>8. CASE Judge(th)
  <2>1. /\ Easy(SetPhase("stopped")) /\ Easy(SetPhase("failed"))
        /\ Easy(<<[op |-> "error", limit |-> FALSE]>>) /\ Easy(EmitTurn("failed")) /\ Easy(<< >>)
    BY EasySteps, EasyNone DEF Phase, Terminal, Status
  <2> DEFINE end == IF exit = "ok" THEN SetPhase("stopped")
                    ELSE SetPhase("failed") \o <<[op |-> "error", limit |-> FALSE]>>
             report == IF s.turn # 0 THEN EmitTurn("failed") ELSE << >>
  <2>2. Easy(end) /\ Easy(report)
    BY <2>1, EasyBoth
  <2>3. Then(th, IF s.phase = "stopped" THEN << >> ELSE end \o report)
    BY <1>8 DEF Judge
  <2> HIDE DEF end, report
  <2>4. Easy(end \o report)
    BY <2>2, EasyBoth
  <2> QED
    BY <2>1, <2>3, <2>4
<1> QED
  BY <1>3, <1>4, <1>5, <1>6, <1>7, <1>8 DEF Quiet2

LEMMA SteadyQuiet2 ==
  ASSUME TypeOK, NEW th \in Thread, Quiet2(th)
  PROVE  Steady
<1>1. TodoSteady
  BY EasyQuiet2, EasilySteady
<1>2. /\ UNCHANGED <<cli, backlog, outbox, lined, handed>>
      /\ inbox' = inbox \/ inbox' = Append(inbox, [kind |-> "interrupt"])
  BY DEF external, history, Quiet2, Note, WriteInterrupt, emit_turn, discard_pending_approvals, Adopt, Kill, Reap, Clear, Judge
<1>3. PipesSteady
  <2>1. [kind |-> "interrupt"] \in Input \ Message
    BY DEF Input, Message
  <2> QED
    BY <1>2, <2>1, PipesAppended
<1>4. (s'.phase = "ready" => s.phase = "ready") /\ s'.queue \in {s.queue, << >>}
  <2>1. s \in RuntimeState
    BY DEF TypeOK, StateOK
  <2>2. CASE Note(th) \/ discard_pending_approvals(th) \/ Clear(th) \/ Judge(th)
    BY <2>1, <2>2 DEF RuntimeState, Note, discard_pending_approvals, Clear, Judge
  <2>3. CASE Adopt(th)
    BY <2>1, <2>3 DEF RuntimeState, Adopt, claim_turn
  <2> QED
    BY <2>2, <2>3 DEF Quiet2, WriteInterrupt, emit_turn, Kill, Reap
<1> QED
  BY <1>1, <1>2, <1>3, <1>4 DEF Steady, StateSteady

LEMMA SteadyAsking ==
  ASSUME TypeOK, NEW th \in Thread, Asking(th)
  PROVE  Steady
<1> USE DEF EasyOp
<1>1. Easily(th)
  <2>1. CASE \E a \in Ask, d \in Decision : Approve(th, a, d)
    BY <2>1, EasySteps, EasyBegin DEF Approve
  <2>2. CASE WriteAnswer(th) \/ Reinsert(th) \/ cancel_pending_approvals(th) \/ Respond(th)
    <3>1. todo[th] # << >>
      BY <2>2 DEF WriteAnswer, Reinsert, cancel_pending_approvals, Respond, Writing, At
    <3>2. Now(th) \in Step
      BY <3>1, HeadStep
    <3>3. CASE WriteAnswer(th)
      <4>1. Now(th).ask \in Ask /\ Now(th).decision \in Decision
        BY <3>2, <3>3, StepFields DEF WriteAnswer, Writing, At, Now
      <4> QED
        BY <3>1, <3>3, <4>1, EasySteps, EasyHead DEF WriteAnswer
    <3>4. CASE Reinsert(th)
      BY <3>1, <3>4, EasyNone, EasyHead DEF Reinsert
    <3>5. CASE cancel_pending_approvals(th)
      <4>1. s.approvals \in SUBSET Ask
        BY DEF TypeOK, StateOK, RuntimeState
      <4> QED
        BY <3>1, <3>5, <4>1, EasySteps, EasyHead DEF cancel_pending_approvals
    <3>6. CASE Respond(th)
      <4>1. Now(th).asks \in SUBSET Ask
        BY <3>2, <3>6, StepFields DEF Respond, Writing, At, Now
      <4>2. \A a : Easy(Do("progress") \o Responses(Now(th).asks \ {a}))
        BY <4>1, EasySteps, EasyBoth
      <4> QED
        BY <3>1, <3>6, <4>2, EasyHead DEF Respond
    <3> QED
      BY <2>2, <3>3, <3>4, <3>5, <3>6
  <2> QED
    BY <2>1, <2>2 DEF Asking
<1>2. UNCHANGED <<cli, backlog, outbox, lined, handed>> /\ (UNCHANGED inbox \/ WriteAnswer(th) \/ Respond(th))
  BY DEF external, history, Asking, WriteAnswer, Reinsert, cancel_pending_approvals, Respond, Approve
<1>3. inbox' = inbox \/ \E f \in Input \ Message : inbox' = Append(inbox, f)
  <2>1. ASSUME WriteAnswer(th) \/ Respond(th)
        PROVE  inbox' = inbox \/ \E a \in Ask, d \in Decision : inbox' = Append(inbox, [kind |-> "answer", ask |-> a, decision |-> d])
    <3>1. todo[th] # << >> /\ Now(th).op \in {"answer", "respond"}
      BY <2>1 DEF WriteAnswer, Respond, Writing, At, Now
    <3>2. Now(th) \in Step
      BY <3>1, HeadStep
    <3>3. CASE WriteAnswer(th)
      <4>1. Now(th).ask \in Ask /\ Now(th).decision \in Decision
        BY <3>2, <3>3, StepFields DEF WriteAnswer, Writing, At, Now
      <4> QED
        BY <3>3, <4>1 DEF WriteAnswer
    <3>4. CASE Respond(th)
      <4>1. Now(th).asks \in SUBSET Ask
        BY <3>2, <3>4, StepFields DEF Respond, Writing, At, Now
      <4> QED
        BY <3>4, <4>1 DEF Respond, Decision
    <3> QED
      BY <2>1, <3>3, <3>4
  <2>2. \A a \in Ask, d \in Decision : [kind |-> "answer", ask |-> a, decision |-> d] \in Input \ Message
    BY DEF Input, Message
  <2> QED
    BY <1>2, <2>1, <2>2
<1>4. (s'.phase = "ready" => s.phase = "ready") /\ s'.queue \in {s.queue, << >>}
  <2>1. s \in RuntimeState
    BY DEF TypeOK, StateOK
  <2> QED
    BY <2>1 DEF RuntimeState, Asking, WriteAnswer, Reinsert, cancel_pending_approvals, Respond, Approve
<1>5. TodoSteady
  BY <1>1, EasilySteady
<1>6. PipesSteady
  BY <1>2, <1>3, PipesAppended
<1> QED
  BY <1>2, <1>4, <1>5, <1>6 DEF Steady, StateSteady

LEMMA SteadyCalls ==
  ASSUME TypeOK, NEW th \in Thread, Interrupt(th) \/ Stop(th) \/ \E m \in Msg : SendRefused(th, m)
  PROVE  Steady
<1> USE DEF EasyOp
<1>1. UNCHANGED todo \/ Easily(th)
  BY EasySteps, StopStepsEasy, EasyBegin DEF Interrupt, Stop, SendRefused
<1>2. UNCHANGED <<cli, backlog, inbox, outbox, lined, handed>>
  BY DEF external, history, Interrupt, Stop, SendRefused
<1>3. (s'.phase = "ready" => s.phase = "ready") /\ s'.queue \in {s.queue, << >>}
  BY DEF TypeOK, StateOK, RuntimeState, Interrupt, Stop, SendRefused
<1>4. TodoSteady
  BY <1>1, EasilySteady
<1>5. PipesSteady
  BY <1>2, PipesAppended
<1> QED
  BY <1>2, <1>3, <1>4, <1>5 DEF Steady, StateSteady

LEMMA SteadyWatch ==
  ASSUME TypeOK, Poll \/ TurnWatchdog \/ InterruptWatchdog \/ InterruptSeen
  PROVE  Steady
<1> USE Threads DEF EasyOp
<1>0. /\ Easy(<<[op |-> "error", limit |-> FALSE]>>)
      /\ Easy(EmitTurn("failed")) /\ Easy(EmitTurn("interrupted")) /\ Easy(StopSteps)
  BY EasySteps, StopStepsEasy DEF Status
<1>1. UNCHANGED todo \/ \E th \in Thread : Easily(th)
  <2>1. CASE Poll
    <3>1. Easy(Do("release_child") \o Do("release_stdin") \o Do("release") \o Do("discard") \o Do("judge"))
      BY EasySteps, EasyBoth
    <3> QED
      BY <2>1, <3>1, EasyBegin DEF Poll
  <2>2. CASE TurnWatchdog
    <3>1. Easy(<<[op |-> "error", limit |-> FALSE]>> \o EmitTurn("failed") \o StopSteps)
      BY <1>0, EasyBoth
    <3> QED
      BY <2>2, <3>1, EasyBegin DEF TurnWatchdog
  <2>3. CASE InterruptWatchdog
    <3>1. Easy(<<[op |-> "error", limit |-> FALSE]>> \o EmitTurn("interrupted") \o StopSteps)
      BY <1>0, EasyBoth
    <3> QED
      BY <2>3, <3>1, EasyBegin DEF InterruptWatchdog
  <2> QED
    BY <2>1, <2>2, <2>3 DEF InterruptSeen
<1>2. UNCHANGED <<s, cli, backlog, inbox, outbox, lined, handed>>
  BY DEF external, history, Poll, TurnWatchdog, InterruptWatchdog, InterruptSeen
<1> QED
  BY <1>1, <1>2, EasilySteady, PipesAppended DEF Steady, StateSteady

LEMMA SteadyReads ==
  ASSUME TypeOK, Read, ~ReadResult
  PROVE  Steady
<1> USE Threads DEF EasyOp
<1>1. UNCHANGED todo \/ Easily(Reader)
  <2>1. Easy(Do("progress")) /\ \A x \in BOOLEAN : Easy(<<[op |-> "error", limit |-> x]>>)
    BY EasySteps
  <2>2. Easy(<<[op |-> "error", limit |-> TRUE]>> \o Do("progress"))
    BY <2>1, EasyBoth
  <2>3. CASE ReadContent \/ ReadRefusal
    BY <2>1, <2>2, <2>3, EasyBegin DEF ReadContent, ReadRefusal
  <2>4. CASE ReadAsk \/ ReadCancel
    BY <2>1, <2>4, EasyBegin DEF ReadAsk, ReadCancel
  <2> QED
    BY <2>3, <2>4 DEF Read, ReadLifecycle
<1>2. UNCHANGED <<cli, backlog, inbox, lined, handed>> /\ outbox # << >> /\ outbox' = Tail(outbox)
  BY DEF history, Read, ReadContent, ReadRefusal, ReadAsk, ReadCancel, ReadLifecycle, Frame
<1>3. (s'.phase = "ready" => s.phase = "ready") /\ s'.queue \in {s.queue, << >>}
  <2>1. s \in RuntimeState
    BY DEF TypeOK, StateOK
  <2>2. CASE ReadContent
    BY <2>1, <2>2 DEF RuntimeState, ReadContent, claim_turn
  <2>3. CASE ReadAsk \/ ReadRefusal
    BY <2>1, <2>3 DEF RuntimeState, ReadAsk, ReadRefusal
  <2>4. CASE ReadCancel
    BY <2>1, <2>4 DEF RuntimeState, ReadCancel, approval_phase
  <2>5. CASE ReadLifecycle
    BY <2>1, <2>5 DEF RuntimeState, ReadLifecycle
  <2> QED
    BY <2>2, <2>3, <2>4, <2>5 DEF Read
<1>4. TodoSteady
  BY <1>1, EasilySteady
<1>5. PipesSteady
  BY <1>2, PipesAppended
<1> QED
  BY <1>2, <1>3, <1>4, <1>5 DEF Steady, StateSteady

\* The frames the CLI adds to what it said.
LEMMA SaidMore ==
  ASSUME TypeOK, NEW frames \in Seq(Output), Say(frames)
  PROVE  /\ FreeOf(frames, Results) /\ FreeOf(outbox, Results) => FreeOf(outbox', Results)
         /\ FreeOf(frames, Results) /\ AtMostOneOf(outbox, Results) => AtMostOneOf(outbox', Results)
         /\ AtMostOneOf(frames, Results) /\ FreeOf(outbox, Results) => AtMostOneOf(outbox', Results)
BY FreeTogether DEF TypeOK, CliOK, Say

LEMMA NoResult ==
  ASSUME NEW f \in Output, f.kind # "result"
  PROVE  <<f>> \in Seq(Output) /\ FreeOf(<<f>>, Results)
BY FreeOne DEF Results

\* What the CLI says in the course of its turn.
LEMMA SteadyCli ==
  ASSUME TypeOK, CliSpeaks \/ (\E a \in Ask : CliAsks(a)) \/ CliWithdraws \/ CliFreezes \/ CliExits
  PROVE  Steady
<1>1. /\ UNCHANGED <<s, todo, inbox, backlog, lined, handed>>
      /\ cli = "idle" => cli' = "idle"
  BY RuntimeAssumption DEF history, CliSpeaks, CliAsks, CliWithdraws, CliFreezes, CliExits
<1>2. UNCHANGED outbox \/ \E f \in Output : f.kind # "result" /\ Say(<<f>>)
  <2>1. CASE CliSpeaks
    <3>1. [kind |-> "content", limit |-> FALSE] \in Output
      BY DEF Output
    <3> QED
      BY <2>1, <3>1 DEF CliSpeaks, Content
  <2>2. ASSUME NEW a \in Ask, CliAsks(a) PROVE \E f \in Output : f.kind # "result" /\ Say(<<f>>)
    <3>1. [kind |-> "ask", ask |-> a] \in Output
      BY DEF Output
    <3> QED
      BY <2>2, <3>1 DEF CliAsks
  <2>3. CASE CliWithdraws
    <3>1. cli \in Ask /\ [kind |-> "cancel", ask |-> cli] \in Output
      BY <2>3 DEF CliWithdraws, Output
    <3> QED
      BY <2>3, <3>1 DEF CliWithdraws
  <2> QED
    BY <2>1, <2>2, <2>3 DEF CliFreezes, CliExits
<1>3. /\ FreeOf(outbox, Results) => FreeOf(outbox', Results)
      /\ AtMostOneOf(outbox, Results) => AtMostOneOf(outbox', Results)
  BY <1>2, NoResult, SaidMore
<1>4. PipesSteady
  BY <1>1, <1>3 DEF PipesSteady
<1> QED
  BY <1>1, <1>4, EasilySteady DEF Steady, StateSteady

-----------------------------------------------------------------------------
(* Steps that move a turn: from a thread to the CLI and back.              *)

\* The thread that has the turn in hand is the only one, and there is no other turn.
LEMMA TurnInHand ==
  ASSUME OneTurn, NEW th \in Thread, ~ FreeOf(todo[th], TurnSteps)
  PROVE  /\ \A o \in Thread \ {th} : FreeOf(todo[o], TurnSteps)
         /\ FreeOf(inbox, Message) /\ FreeOf(outbox, Results) /\ cli = "idle" /\ s.phase # "ready"
BY DEF OneTurn, NoTurn, NoneInHand

LEMMA HeadInHand ==
  ASSUME TypeOK, NEW th \in Thread, todo[th] # << >>, NEW S, Now(th) \in S
  PROVE  ~ FreeOf(todo[th], S)
<1>1. 1 \in DOMAIN todo[th] /\ todo[th][1] = Now(th)
  BY HeadAndTail DEF TypeOK, Now
<1> QED
  BY <1>1 DEF FreeOf

\* A thread that finds no turn under way claims one.
LEMMA ClaimMoves ==
  ASSUME TypeOK, Smooth, OneTurn, s.phase = "ready", s'.phase = "running",
         NEW th \in Thread, NEW m \in Msg, NEW t \in Nat, NEW back \in BOOLEAN, Takes(th, OpenTurn(m, t, back)),
         UNCHANGED <<inbox, outbox, cli, backlog>>
  PROVE  /\ Smooth' /\ OneTurn'
         /\ \A o \in Thread : MsgsIn(todo[o]) = {} /\ MsgsIn(todo'[o]) \subseteq {m}
<1> DEFINE step == [op |-> "open_turn", msg |-> m, turn |-> t, back |-> back]
<1>1. step \in Step /\ OpenTurn(m, t, back) = <<step>> /\ step \notin RoughSteps
  BY DEF OpenTurn, Step, RoughSteps
<1>2. <<step>> \in Seq(Step) /\ AtMostOneOf(<<step>>, TurnSteps) /\ FreeOf(<<step>>, RoughSteps)
  BY <1>1, FreeOne
<1>3. MsgsIn(<<step>>) = {m}
  BY DEF MsgsIn, MsgsOf
<1> HIDE DEF step
<1>4. NoTurn
  BY DEF OneTurn
<1>5. \A o \in Thread : /\ todo[o] \in Seq(Step) /\ FreeOf(todo[o], TurnSteps) /\ FreeOf(todo[o], RoughSteps)
                        /\ MsgsIn(todo[o]) = {}
  BY <1>4, EmptyHanded DEF NoTurn, NoneInHand, Smooth, TypeOK
<1>6. /\ \A o \in Thread \ {th} : todo'[o] = todo[o]
      /\ AtMostOneOf(todo'[th], TurnSteps) /\ FreeOf(todo'[th], RoughSteps)
  BY <1>1, <1>2, <1>5, Onward
<1>7. MsgsIn(todo'[th]) \subseteq {m}
  <2>1. /\ Rest(th) \in Seq(Step) /\ todo'[th] = <<step>> \o Rest(th) /\ MsgsIn(Rest(th)) = {}
    BY <1>1, <1>2, <1>5, StepTaken, RestOf DEF TypeOK
  <2>2. MsgsIn(<<step>> \o Rest(th)) = MsgsIn(<<step>>) \cup MsgsIn(Rest(th))
    BY <1>2, <2>1, CarriedTogether
  <2> QED
    BY <1>3, <2>1, <2>2
<1>8. Smooth'
  BY <1>5, <1>6 DEF Smooth
<1>9. OneTurn'
  <2>1. \A o, p \in Thread : o = p \/ FreeOf(todo'[o], TurnSteps) \/ FreeOf(todo'[p], TurnSteps)
    BY <1>5, <1>6
  <2>2. \A o \in Thread : AtMostOneOf(todo'[o], TurnSteps)
    BY <1>5, <1>6 DEF OneTurn
  <2> QED
    BY <1>4, <2>1, <2>2 DEF OneTurn, NoTurn
<1> QED
  BY <1>5, <1>6, <1>7, <1>8, <1>9

\* The turn leaves the hands of a thread.
LEMMA TurnLetGo ==
  ASSUME TypeOK, Smooth, OneTurn, NEW th \in Thread, todo[th] # << >>, Now(th) \in TurnSteps, Then(th, << >>)
  PROVE  /\ NoneInHand' /\ Smooth' /\ \A o \in Thread : MsgsIn(todo'[o]) = {}
         /\ FreeOf(inbox, Message) /\ FreeOf(outbox, Results) /\ cli = "idle" /\ backlog = << >> /\ s.phase # "ready"
<1>1. ~ FreeOf(todo[th], TurnSteps)
  BY HeadInHand
<1>2. /\ \A o \in Thread \ {th} : FreeOf(todo[o], TurnSteps)
      /\ FreeOf(inbox, Message) /\ FreeOf(outbox, Results) /\ cli = "idle" /\ s.phase # "ready"
  BY <1>1, TurnInHand
<1>3. << >> \in Seq(Step) /\ Takes(th, << >>)
  BY DEF Takes
<1>4. /\ \A o \in Thread \ {th} : todo'[o] = todo[o]
      /\ FreeOf(todo'[th], TurnSteps) /\ FreeOf(todo'[th], RoughSteps)
  BY <1>3, FreeNone, Onward DEF OneTurn, Smooth
<1>5. \A o \in Thread : FreeOf(todo'[o], TurnSteps) /\ FreeOf(todo'[o], RoughSteps)
  BY <1>2, <1>4 DEF Smooth
<1>6. \A o \in Thread : todo'[o] \in Seq(Step)
  BY <1>3, StepTaken DEF TypeOK
<1> QED
  BY <1>2, <1>5, <1>6, EmptyHanded DEF NoneInHand, Smooth, OneTurn

\* The result has been taken note of: the conversation is ready.
LEMMA ReadyKeeps ==
  ASSUME TypeOK, Flow, NEW th \in Thread, set_phase(th), s'.phase = "ready"
  PROVE  Flow'
<1>1. /\ todo[th] # << >> /\ Now(th).op = "set_phase" /\ Then(th, << >>)
      /\ UNCHANGED <<inbox, outbox, cli, backlog, lined, handed>> /\ s'.queue = s.queue
  BY DEF set_phase, At, Now, external, history, TypeOK, StateOK, RuntimeState
<1>2. Now(th) \in Step /\ Now(th).phase = "ready"
  BY <1>1, HeadStep DEF set_phase, TypeOK, StateOK, RuntimeState
<1>3. /\ NoneInHand' /\ Smooth' /\ \A o \in Thread : MsgsIn(todo'[o]) = {}
      /\ FreeOf(inbox, Message) /\ FreeOf(outbox, Results) /\ cli = "idle" /\ backlog = << >>
  BY <1>1, <1>2, TurnLetGo DEF TurnSteps, Flow
<1>4. OneTurn'
  <2>1. \A o \in Thread : FreeOf(todo'[o], TurnSteps) /\ AtMostOneOf(todo'[o], TurnSteps)
    BY <1>3 DEF NoneInHand, FreeOf, AtMostOneOf
  <2> QED
    BY <1>1, <1>3, <2>1 DEF OneTurn, NoTurn, FreeOf, AtMostOneOf
<1>5. InLine'
  BY <1>1, <1>3, LineKeeps DEF Flow
<1> QED
  BY <1>3, <1>4, <1>5 DEF Flow

\* A message is written to the CLI.
LEMMA WriteMoves ==
  ASSUME TypeOK, Flow, NEW th \in Thread, WriteTurn(th), CanWrite
  PROVE  Flow' /\ (HandedInLine => HandedInLine')
<1> PICK m : m = Now(th).msg
  OBVIOUS
<1>1. /\ todo[th] # << >> /\ Now(th).op = "write_turn" /\ Then(th, << >>)
      /\ inbox' = Append(inbox, [kind |-> "message", msg |-> m, tracked |-> FALSE])
      /\ handed' = Append(handed, m) /\ UNCHANGED <<s, outbox, cli, backlog, lined>>
  BY DEF WriteTurn, Writing, At, Now
<1>2. Now(th) \in Step /\ m \in Msg /\ Now(th) \in TurnSteps
  BY <1>1, HeadStep, StepFields DEF TurnSteps
<1>3. /\ NoneInHand' /\ Smooth' /\ \A o \in Thread : MsgsIn(todo'[o]) = {}
      /\ FreeOf(inbox, Message) /\ FreeOf(outbox, Results) /\ cli = "idle" /\ backlog = << >> /\ s.phase # "ready"
  BY <1>1, <1>2, TurnLetGo DEF Flow
<1>4. OneTurn'
  <2>1. \A o \in Thread : FreeOf(todo'[o], TurnSteps) /\ AtMostOneOf(todo'[o], TurnSteps)
    BY <1>3 DEF NoneInHand, FreeOf, AtMostOneOf
  <2>2. AtMostOneOf(inbox', Message)
    <3>1. inbox \in Seq(Input) /\ [kind |-> "message", msg |-> m, tracked |-> FALSE] \in Input
      BY <1>2 DEF TypeOK, CliOK, Input, Message
    <3> QED
      BY <1>1, <1>3, <3>1, FreeAppended
  <2> QED
    BY <1>1, <1>3, <2>1, <2>2 DEF OneTurn, NoTurn, FreeOf, AtMostOneOf
<1>5. m \in MsgsIn(todo[th])
  <2>1. 1 \in DOMAIN todo[th] /\ todo[th][1] = Now(th)
    BY <1>1, HeadAndTail DEF TypeOK, Now
  <2> QED
    BY <1>1, <2>1 DEF MsgsIn, MsgsOf
<1>6. handed \in Seq(Msg) /\ ToSet(handed') = ToSet(handed) \cup {m}
  BY <1>1, <1>2, AppendedRange DEF TypeOK, HistoryOK
<1>7. InLine'
  <2>1. ToSet(lined') = ToSet(lined) /\ s'.queue = s.queue
    BY <1>1
  <2>2. m \in ToSet(lined) /\ \A n \in ToSet(s.queue) : Before(m, n)
    BY <1>5 DEF Flow, InLine
  <2>3. \A x, n : Before(x, n)' <=> Before(x, n)
    BY <1>1, BeforeKept
  <2>4. /\ \A x \in ToSet(s'.queue) \cup ToSet(handed') : x \in ToSet(lined')
        /\ \A o \in Thread : MsgsIn(todo'[o]) \subseteq ToSet(lined')
    BY <1>3, <1>6, <2>1, <2>2 DEF Flow, InLine
  <2>5. \A i, j \in DOMAIN s'.queue : i < j => Before(s'.queue[i], s'.queue[j])
    BY <2>1 DEF Flow, InLine
  <2>6. \A x \in ToSet(handed'), n \in ToSet(s'.queue) : Before(x, n)
    BY <1>6, <2>1, <2>2 DEF Flow, InLine
  <2>7. \A o \in Thread : \A x \in MsgsIn(todo'[o]) : FALSE
    BY <1>3
  <2> QED
    BY <2>3, <2>4, <2>5, <2>6, <2>7 DEF InLine
<1>8. ASSUME HandedInLine PROVE HandedInLine'
  <2>1. /\ DOMAIN handed' = 1 .. Len(handed) + 1 /\ DOMAIN handed = 1 .. Len(handed) /\ Len(handed) \in Nat
        /\ handed'[Len(handed) + 1] = m /\ \A i \in DOMAIN handed : handed'[i] = handed[i]
    BY <1>1, <1>6
  <2>2. \A n \in ToSet(handed) : Before(n, m)
    BY <1>5 DEF Flow, InLine
  <2>3. \A i \in DOMAIN handed : Before(handed[i], m)
    BY <2>2 DEF ToSet
  <2>4. ASSUME NEW i \in DOMAIN handed', NEW j \in DOMAIN handed', i < j PROVE Before(handed'[i], handed'[j])
    <3>1. i \in DOMAIN handed
      BY <2>1, <2>4
    <3>2. CASE j \in DOMAIN handed
      BY <1>8, <2>1, <2>4, <3>1, <3>2 DEF HandedInLine
    <3>3. CASE j = Len(handed) + 1
      BY <2>1, <2>3, <3>1, <3>3
    <3> QED
      BY <2>1, <3>2, <3>3
  <2> QED
    BY <1>1, <2>4 DEF HandedInLine, Before
<1> QED
  BY <1>3, <1>4, <1>7, <1>8 DEF Flow

\* What has been spent has happened.
LEMMA SpentHappens ==
  ASSUME TypeOK, NEW kind \in Kind, Spend(kind)
  PROVE  Happened(kind)'
<1>1. events.count \in [Kind \cup {AnyKind} -> Nat] /\ events'.count = Counted(events.count, kind)
  BY DEF TypeOK, HistoryOK, Spend
<1>2. events.count[kind] \in Nat
  BY <1>1
<1>3. Counted(events.count, kind)[kind] > 0
  <2>1. kind \in Kind \cup {AnyKind}
    OBVIOUS
  <2>2. CASE kind = AnyKind
    BY <1>1, <1>2, <2>1, <2>2 DEF Counted
  <2>3. CASE kind # AnyKind
    BY <1>1, <1>2, <2>1, <2>3 DEF Counted
  <2> QED
    BY <2>2, <2>3
<1> QED
  BY <1>1, <1>3 DEF Happened

LEMMA SpentDisturbs ==
  ASSUME TypeOK, Undisturbed'
  PROVE  ~Spend("steer") /\ ~Spend("gone") /\ ~Spend("wake")
BY SpentHappens DEF Undisturbed, Kind

\* The order of what has been let in does not change when another message comes.
LEMMA BeforeAppended ==
  ASSUME lined \in Seq(Msg), NEW m \in Msg, lined' = Append(lined, m)
  PROVE  /\ \A x, n : Before(x, n) => Before(x, n)'
         /\ \A x \in ToSet(lined) : Before(x, m)'
         /\ ToSet(lined') = ToSet(lined) \cup {m}
<1>1. /\ DOMAIN lined' = 1 .. Len(lined) + 1 /\ DOMAIN lined = 1 .. Len(lined) /\ Len(lined) \in Nat
      /\ lined'[Len(lined) + 1] = m /\ \A i \in DOMAIN lined : lined'[i] = lined[i]
  OBVIOUS
<1>2. ToSet(lined') = ToSet(lined) \cup {m}
  BY AppendedRange
<1>3. \A i \in DOMAIN lined : i \in DOMAIN lined' /\ i < Len(lined) + 1
  BY <1>1
<1>4. Len(lined) + 1 \in DOMAIN lined'
  BY <1>1
<1>5. ASSUME NEW x, NEW n, Before(x, n) PROVE Before(x, n)'
  BY <1>1, <1>3, <1>5 DEF Before
<1>6. ASSUME NEW x \in ToSet(lined) PROVE Before(x, m)'
  BY <1>1, <1>3, <1>4, <1>6 DEF Before, ToSet
<1> QED
  BY <1>2, <1>5, <1>6

\* The message is read from its file: the turn stays in the hands of the thread.
LEMMA OpenMoves ==
  ASSUME TypeOK, Flow, NEW th \in Thread, OpenedTurn(th), Undisturbed'
  PROVE  Flow'
<1> PICK step : step = [Now(th) EXCEPT !.op = "write_turn"]
  OBVIOUS
<1>1. /\ todo[th] # << >> /\ Now(th).op = "open_turn" /\ Then(th, <<step>>)
      /\ UNCHANGED <<s, cli, backlog, inbox, outbox, lined, handed>>
  BY SpentDisturbs DEF OpenedTurn, At, Now, external, history
<1>2. Now(th) \in Step /\ todo \in [Thread -> Seq(Step)]
  BY <1>1, HeadStep DEF TypeOK
<1>3. step \in Step /\ step.op = "write_turn" /\ MsgsOf(step) = MsgsOf(Now(th))
  <2>1. Now(th) \in [op : {"open_turn", "write_turn"}, msg : Msg, turn : Nat, back : BOOLEAN]
    BY <1>1, <1>2 DEF Step
  <2>2. step \in [op : {"open_turn", "write_turn"}, msg : Msg, turn : Nat, back : BOOLEAN]
        /\ step.op = "write_turn" /\ step.msg = Now(th).msg
    BY <2>1
  <2> QED
    BY <1>1, <2>2 DEF Step, MsgsOf
<1>4. /\ <<step>> \in Seq(Step) /\ Takes(th, <<step>>)
      /\ AtMostOneOf(<<step>>, TurnSteps) /\ FreeOf(<<step>>, RoughSteps)
  <2>1. step \notin RoughSteps
    BY <1>3 DEF RoughSteps
  <2>2. AtMostOneOf(<<step>>, TurnSteps) /\ FreeOf(<<step>>, RoughSteps)
    BY <2>1, FreeOne
  <2>3. <<step>> \in Seq(Step)
    BY <1>3
  <2> QED
    BY <1>1, <2>2, <2>3 DEF Takes
<1>5. Now(th) \in TurnSteps /\ ~FreeOf(todo[th], TurnSteps)
  BY <1>1, <1>2, HeadInHand DEF TurnSteps
<1>6. /\ \A o \in Thread \ {th} : todo'[o] = todo[o]
      /\ AtMostOneOf(todo[th], TurnSteps) => AtMostOneOf(todo'[th], TurnSteps)
      /\ FreeOf(todo[th], RoughSteps) => FreeOf(todo'[th], RoughSteps)
  BY <1>1, <1>4, <1>5, Onward
<1>7. MsgsIn(todo'[th]) \subseteq MsgsIn(todo[th])
  <2>1. /\ Rest(th) \in Seq(Step) /\ todo'[th] = <<step>> \o Rest(th)
        /\ MsgsIn(todo[th]) = MsgsOf(Now(th)) \cup MsgsIn(Rest(th))
    BY <1>1, <1>2, <1>4, StepTaken, RestOf
  <2>2. MsgsIn(<<step>>) = MsgsOf(step)
    BY DEF MsgsIn
  <2>3. MsgsIn(<<step>> \o Rest(th)) = MsgsIn(<<step>>) \cup MsgsIn(Rest(th))
    BY <1>4, <2>1, CarriedTogether
  <2> QED
    BY <1>3, <2>1, <2>2, <2>3
<1>8. TodoSteady
  BY <1>5, <1>6, <1>7 DEF TodoSteady
<1>9. PipesSteady /\ StateSteady
  BY <1>1 DEF PipesSteady, StateSteady
<1> QED
  BY <1>8, <1>9, SteadyKeeps DEF Flow

\* A message is let in and starts a turn.
LEMMA StartMoves ==
  ASSUME TypeOK, Flow, NEW th \in Thread, NEW m \in Msg, SendStart(th, m)
  PROVE  Flow'
<1>1. /\ s.phase = "ready" /\ s.queue = << >> /\ s' = claim_turn(s, {m})
      /\ Begin(th, OpenTurn(m, s.claims + 1, FALSE)) /\ lined' = Append(lined, m)
      /\ UNCHANGED <<inbox, outbox, cli, backlog, handed>>
  BY DEF SendStart, CanStart, external
<1>2. s \in RuntimeState /\ s.claims + 1 \in Nat /\ lined \in Seq(Msg)
  BY DEF TypeOK, StateOK, HistoryOK, RuntimeState
<1>3. s'.phase = "running" /\ s'.queue = << >>
  BY <1>1, <1>2 DEF claim_turn, RuntimeState
<1>4. Takes(th, OpenTurn(m, s.claims + 1, FALSE))
  BY <1>1 DEF Takes
<1>5. Smooth' /\ OneTurn' /\ \A o \in Thread : MsgsIn(todo'[o]) \subseteq {m}
  BY <1>1, <1>2, <1>3, <1>4, ClaimMoves DEF Flow
<1>6. ToSet(s'.queue) = {} /\ DOMAIN s'.queue = {}
  BY <1>3, EmptyRange
<1>7. (\A x \in ToSet(lined) : Before(x, m)') /\ ToSet(lined') = ToSet(lined) \cup {m}
  BY <1>1, <1>2, BeforeAppended
<1>8. \A x \in ToSet(handed) : x \in ToSet(lined)
  BY DEF Flow, InLine
<1>9. InLine'
  <2>1. /\ \A x \in ToSet(s'.queue) \cup ToSet(handed') : x \in ToSet(lined')
        /\ \A o \in Thread : MsgsIn(todo'[o]) \subseteq ToSet(lined')
    BY <1>1, <1>5, <1>6, <1>7, <1>8
  <2>2. \A o \in Thread : \A x \in MsgsIn(todo'[o]) : \A n \in ToSet(handed') : Before(n, x)'
    BY <1>1, <1>5, <1>7, <1>8
  <2> QED
    BY <1>6, <2>1, <2>2 DEF InLine
<1> QED
  BY <1>5, <1>9 DEF Flow

\* A message is let in and waits.
LEMMA QueueMoves ==
  ASSUME TypeOK, Flow, NEW th \in Thread, NEW m \in Msg, SendQueue(th, m)
  PROVE  Flow'
<1>1. /\ s' = [s EXCEPT !.queue = Append(@, m)] /\ Begin(th, Do("drain")) /\ lined' = Append(lined, m)
      /\ UNCHANGED <<inbox, outbox, cli, backlog, handed>>
  BY DEF SendQueue, external
<1>2. s \in RuntimeState /\ s.queue \in Seq(Msg) /\ lined \in Seq(Msg)
  BY DEF TypeOK, StateOK, HistoryOK, RuntimeState
<1>3. s'.phase = s.phase /\ s'.queue = Append(s.queue, m)
  BY <1>1, <1>2 DEF RuntimeState
<1>4. TodoSteady
  <2>1. Easy(Do("drain"))
    BY EasySteps DEF EasyOp
  <2> QED
    BY <1>1, <2>1, EasyBegin, EasilySteady
<1>5. PipesSteady
  BY <1>1 DEF PipesSteady
<1>6. Smooth' /\ OneTurn'
  BY <1>3, <1>4, <1>5, TurnKeeps DEF Flow
<1>7. ToSet(s'.queue) = ToSet(s.queue) \cup {m}
  BY <1>2, <1>3, AppendedRange
<1>8. /\ \A x, n : Before(x, n) => Before(x, n)'
      /\ \A x \in ToSet(lined) : Before(x, m)'
      /\ ToSet(lined') = ToSet(lined) \cup {m}
  BY <1>1, <1>2, BeforeAppended
<1>9. InLine'
  <2>1. /\ \A x \in ToSet(s'.queue) \cup ToSet(handed') : x \in ToSet(lined')
        /\ \A o \in Thread : MsgsIn(todo'[o]) \subseteq ToSet(lined')
    BY <1>1, <1>4, <1>7, <1>8 DEF Flow, InLine, TodoSteady
  <2>2. ASSUME NEW i \in DOMAIN s'.queue, NEW j \in DOMAIN s'.queue, i < j,
               NEW x, NEW n, x = s'.queue[i], n = s'.queue[j]
        PROVE  Before(x, n)'
    <3>1. /\ DOMAIN s'.queue = 1 .. Len(s.queue) + 1 /\ DOMAIN s.queue = 1 .. Len(s.queue) /\ Len(s.queue) \in Nat
          /\ s'.queue[Len(s.queue) + 1] = m /\ \A k \in DOMAIN s.queue : s'.queue[k] = s.queue[k]
      BY <1>2, <1>3
    <3>2. i \in DOMAIN s.queue /\ s.queue[i] \in ToSet(lined)
      <4>1. i \in DOMAIN s.queue
        BY <2>2, <3>1
      <4> QED
        BY <4>1 DEF Flow, InLine, ToSet
    <3>3. CASE j \in DOMAIN s.queue
      BY <1>8, <2>2, <3>1, <3>2, <3>3 DEF Flow, InLine
    <3>4. CASE j = Len(s.queue) + 1
      BY <1>8, <2>2, <3>1, <3>2, <3>4
    <3> QED
      BY <3>1, <3>3, <3>4
  <2>3. \A x \in ToSet(handed'), n \in ToSet(s'.queue) : Before(x, n)'
    BY <1>1, <1>7, <1>8 DEF Flow, InLine
  <2>4. ASSUME NEW o \in Thread, NEW x \in MsgsIn(todo'[o])
        PROVE  /\ \A n \in ToSet(s'.queue) : Before(x, n)'
               /\ \A n \in ToSet(handed') : Before(n, x)'
    <3>1. x \in MsgsIn(todo[o]) /\ x \in ToSet(lined)
      BY <1>4 DEF TodoSteady, Flow, InLine
    <3> QED
      BY <1>1, <1>7, <1>8, <3>1 DEF Flow, InLine
  <2> QED
    BY <2>1, <2>2, <2>3, <2>4 DEF InLine
<1> QED
  BY <1>6, <1>9 DEF Flow

\* A message that waits is taken back.
LEMMA RemoveMoves ==
  ASSUME TypeOK, Flow, NEW th \in Thread, NEW k \in DOMAIN s.queue, remove_queued(th, k)
  PROVE  Flow'
<1>1. /\ s' = [s EXCEPT !.queue = RemoveAt(@, k)]
      /\ UNCHANGED <<todo, inbox, outbox, cli, backlog, lined, handed>>
  BY DEF remove_queued, external
<1>2. s \in RuntimeState /\ s.queue \in Seq(Msg)
  BY DEF TypeOK, StateOK, RuntimeState
<1>3. s'.phase = s.phase /\ s'.queue = RemoveAt(s.queue, k)
  BY <1>1, <1>2 DEF RuntimeState
<1>4. Smooth' /\ OneTurn'
  BY <1>1, <1>3, TurnKeeps DEF Flow, TodoSteady, PipesSteady
<1>5. ToSet(s'.queue) \subseteq ToSet(s.queue)
  BY <1>2, <1>3, RemovedRange
<1>6. \A m, n : Before(m, n)' <=> Before(m, n)
  BY <1>1, BeforeKept
<1>7. ASSUME NEW i \in DOMAIN s'.queue, NEW j \in DOMAIN s'.queue, i < j PROVE Before(s'.queue[i], s'.queue[j])
  <2> DEFINE old(x) == IF x < k THEN x ELSE x + 1
  <2>1. /\ DOMAIN s'.queue = 1 .. Len(s.queue) - 1 /\ DOMAIN s.queue = 1 .. Len(s.queue) /\ Len(s.queue) \in Nat
        /\ \A x \in DOMAIN s'.queue : s'.queue[x] = IF x < k THEN s.queue[x] ELSE s.queue[x + 1]
    <3>1. DOMAIN s.queue = 1 .. Len(s.queue) /\ Len(s.queue) \in Nat
      BY <1>2
    <3>2. /\ DOMAIN RemoveAt(s.queue, k) = 1 .. Len(s.queue) - 1
          /\ \A x \in 1 .. Len(s.queue) - 1 : RemoveAt(s.queue, k)[x] = IF x < k THEN s.queue[x] ELSE s.queue[x + 1]
      BY <1>2, Removed
    <3> QED
      BY <1>3, <3>1, <3>2
  <2>2. old(i) \in DOMAIN s.queue /\ old(j) \in DOMAIN s.queue /\ old(i) < old(j)
    BY <1>7, <2>1
  <2>3. s'.queue[i] = s.queue[old(i)] /\ s'.queue[j] = s.queue[old(j)]
    BY <2>1
  <2> QED
    BY <2>2, <2>3 DEF Flow, InLine
<1>8. InLine'
  <2>1. /\ \A x \in ToSet(s'.queue) \cup ToSet(handed') : x \in ToSet(lined')
        /\ \A o \in Thread : MsgsIn(todo'[o]) \subseteq ToSet(lined')
    BY <1>1, <1>5 DEF Flow, InLine
  <2>2. \A x \in ToSet(handed'), n \in ToSet(s'.queue) : Before(x, n)
    BY <1>1, <1>5 DEF Flow, InLine
  <2>3. \A o \in Thread : \A x \in MsgsIn(todo'[o]) :
          (\A n \in ToSet(s'.queue) : Before(x, n)) /\ (\A n \in ToSet(handed') : Before(n, x))
    BY <1>1, <1>5 DEF Flow, InLine
  <2> QED
    BY <1>6, <1>7, <2>1, <2>2, <2>3 DEF InLine
<1> QED
  BY <1>4, <1>8 DEF Flow

\* A thread looks whether a message waits whose turn it is.
LEMMA DrainMoves ==
  ASSUME TypeOK, Flow, NEW th \in Thread, Drain(th)
  PROVE  Flow'
<1>1. todo[th] # << >> /\ UNCHANGED <<inbox, outbox, cli, backlog, lined, handed>>
  BY DEF Drain, At, external, history
<1>2. s \in RuntimeState /\ s.queue \in Seq(Msg) /\ s.claims + 1 \in Nat
  BY DEF TypeOK, StateOK, RuntimeState
<1>3. CASE ~(s.phase = "ready" /\ s.queue # << >>)
  <2>1. Then(th, << >>) /\ UNCHANGED s
    BY <1>3 DEF Drain
  <2>2. TodoSteady
    BY <1>1, <2>1, EasyNone, EasyHead, EasilySteady
  <2> QED
    BY <1>1, <2>1, <2>2, SteadyKeeps DEF Flow, PipesSteady, StateSteady
<1>4. CASE s.phase = "ready" /\ s.queue # << >>
  <2> DEFINE m == Head(s.queue)
  <2>1. /\ m \in Msg /\ 1 \in DOMAIN s.queue /\ s.queue[1] = m
        /\ \A i \in DOMAIN Tail(s.queue) : i \in Nat \ {0} /\ i + 1 \in DOMAIN s.queue /\ Tail(s.queue)[i] = s.queue[i + 1]
    <3>1. \A i \in DOMAIN Tail(s.queue) : i \in Nat \ {0}
      BY <1>2, <1>4
    <3> QED
      BY <1>2, <1>4, <3>1, HeadAndTail
  <2>2. /\ s' = claim_turn([s EXCEPT !.queue = Tail(@)], {m})
        /\ Then(th, OpenTurn(m, s.claims + 1, TRUE))
    BY <1>4 DEF Drain
  <2> HIDE DEF m
  <2>3. s'.phase = "running" /\ s'.queue = Tail(s.queue)
    BY <1>2, <2>2 DEF claim_turn, RuntimeState
  <2>4. Takes(th, OpenTurn(m, s.claims + 1, TRUE))
    BY <1>1, <2>2 DEF Takes
  <2>5. Smooth' /\ OneTurn' /\ \A o \in Thread : MsgsIn(todo'[o]) \subseteq {m}
    <3>1. m \in Msg /\ TRUE \in BOOLEAN /\ s.claims + 1 \in Nat
      BY <1>2, <2>1
    <3>2. Smooth /\ OneTurn /\ s.phase = "ready" /\ UNCHANGED <<inbox, outbox, cli, backlog>>
      BY <1>1, <1>4 DEF Flow
    <3> QED
      BY <2>3, <2>4, <3>1, <3>2, ClaimMoves
  <2>6. ToSet(s.queue) = {m} \cup ToSet(s'.queue)
    BY <1>2, <1>4, <2>3, TailRange DEF m
  <2>7. \A x, n : Before(x, n)' <=> Before(x, n)
    BY <1>1, BeforeKept
  <2>8. /\ \A x \in ToSet(s'.queue) \cup ToSet(handed') : x \in ToSet(lined')
        /\ \A o \in Thread : MsgsIn(todo'[o]) \subseteq ToSet(lined')
    BY <1>1, <2>5, <2>6 DEF Flow, InLine
  <2>9. \A i, j \in DOMAIN s'.queue : i < j => Before(s'.queue[i], s'.queue[j])
    BY <2>1, <2>3 DEF Flow, InLine
  <2>10. \A x \in ToSet(handed') : Before(x, m) /\ \A n \in ToSet(s'.queue) : Before(x, n)
    BY <1>1, <2>6 DEF Flow, InLine
  <2>11. \A n \in ToSet(s'.queue) : Before(m, n)
    <3> SUFFICES ASSUME NEW n \in ToSet(s'.queue) PROVE Before(m, n)
      OBVIOUS
    <3>1. PICK i \in DOMAIN Tail(s.queue) : n = Tail(s.queue)[i]
      BY <2>3 DEF ToSet
    <3>2. i + 1 \in DOMAIN s.queue /\ n = s.queue[i + 1] /\ 1 < i + 1
      BY <2>1, <3>1
    <3> QED
      BY <2>1, <3>2 DEF Flow, InLine
  <2>12. InLine'
    BY <2>5, <2>7, <2>8, <2>9, <2>10, <2>11 DEF InLine
  <2> QED
    BY <2>5, <2>12 DEF Flow
<1> QED
  BY <1>3, <1>4

-----------------------------------------------------------------------------
(* The CLI takes what it is written and ends its turns; the reader reads.  *)

\* The CLI takes a frame from its stdin.
LEMMA InboxTaken ==
  ASSUME TypeOK, inbox # << >>
  PROVE  /\ FreeOf(inbox, Message) => FreeOf(Tail(inbox), Message)
         /\ AtMostOneOf(inbox, Message) => AtMostOneOf(Tail(inbox), Message)
         /\ AtMostOneOf(inbox, Message) /\ Head(inbox).kind = "message" => FreeOf(Tail(inbox), Message)
         /\ Head(inbox).kind = "message" => ~ FreeOf(inbox, Message)
<1>1. inbox \in Seq(Input)
  BY DEF TypeOK, CliOK
<1> QED
  BY <1>1, InputFields, FreeAhead

\* Frames that are not results, and those that are.
LEMMA FramesFree ==
  /\ \A x \in BOOLEAN : Content(x) \in Seq(Output) /\ FreeOf(Content(x), Results)
  /\ \A f \in Message, x \in {"queued", "started", "cancelled"} :
       Lifecycle(f, x) \in Seq(Output) /\ FreeOf(Lifecycle(f, x), Results)
  /\ <<[kind |-> "refusal"]>> \in Seq(Output) /\ FreeOf(<<[kind |-> "refusal"]>>, Results)
  /\ \A r \in {"ok", "error", "limit", "aborted"} : Result(r) \in Seq(Output) /\ AtMostOneOf(Result(r), Results)
  /\ Cancelled(<< >>) = << >>
<1>1. ASSUME NEW x \in BOOLEAN PROVE FreeOf(Content(x), Results)
  BY FreeOne DEF Content, Results
<1>2. ASSUME NEW f \in Message, NEW x \in {"queued", "started", "cancelled"} PROVE FreeOf(Lifecycle(f, x), Results)
  <2>1. FreeOf(<<[kind |-> "lifecycle", msg |-> f.msg, state |-> x]>>, Results)
    BY FreeOne DEF Results
  <2> QED
    BY <2>1, FreeNone DEF Lifecycle
<1>3. FreeOf(<<[kind |-> "refusal"]>>, Results)
  BY FreeOne DEF Results
<1>4. \A r : AtMostOneOf(Result(r), Results)
  BY FreeOne DEF Result
<1>5. Cancelled(<< >>) = << >>
  BY DEF Cancelled
<1> QED
  BY <1>1, <1>2, <1>3, <1>4, <1>5, FramesTyped

\* A turn of the CLI ends: its place is taken by the result.
LEMMA TurnEnds ==
  ASSUME TypeOK, Flow, cli # "idle", cli' = "idle",
         UNCHANGED <<s, todo, backlog, lined, handed>>,
         inbox' = inbox \/ (inbox # << >> /\ inbox' = Tail(inbox)),
         NEW frames \in Seq(Output), AtMostOneOf(frames, Results), Say(frames)
  PROVE  Flow'
<1>1. NoneInHand /\ FreeOf(inbox, Message) /\ FreeOf(outbox, Results) /\ s.phase # "ready" /\ backlog = << >>
  BY DEF Flow, OneTurn, NoTurn
<1>2. FreeOf(inbox', Message)
  BY <1>1, InboxTaken
<1>3. AtMostOneOf(outbox', Results)
  BY <1>1, SaidMore
<1>4. NoneInHand' /\ Smooth'
  BY <1>1 DEF NoneInHand, Flow, Smooth
<1>5. OneTurn'
  BY <1>1, <1>2, <1>3, <1>4 DEF Flow, OneTurn, NoneInHand, FreeOf, AtMostOneOf
<1>6. InLine'
  BY LineKeeps DEF Flow
<1> QED
  BY <1>4, <1>5, <1>6 DEF Flow

LEMMA MessageTaken ==
  ASSUME TypeOK, Flow, CliTakesMessage
  PROVE  Flow'
<1>1. /\ inbox # << >> /\ Head(inbox).kind = "message" /\ inbox' = Tail(inbox)
      /\ UNCHANGED <<s, todo, lined, handed>>
  BY DEF CliTakesMessage, history
<1>2. /\ NoneInHand /\ FreeOf(outbox, Results) /\ cli = "idle" /\ s.phase # "ready" /\ backlog = << >>
      /\ FreeOf(inbox', Message)
  BY <1>1, InboxTaken DEF Flow, OneTurn, NoTurn
<1>3. Head(inbox) \in Message /\ UNCHANGED backlog /\ Say(Lifecycle(Head(inbox), "started"))
  BY <1>1, <1>2, InputFields DEF CliTakesMessage
<1>4. FreeOf(outbox', Results)
  BY <1>2, <1>3, FramesFree, SaidMore
<1>5. NoneInHand' /\ Smooth'
  BY <1>1, <1>2 DEF NoneInHand, Flow, Smooth
<1>6. OneTurn'
  BY <1>1, <1>2, <1>3, <1>4, <1>5 DEF Flow, OneTurn, NoneInHand, FreeOf, AtMostOneOf
<1>7. InLine'
  BY <1>1, LineKeeps DEF Flow
<1> QED
  BY <1>5, <1>6, <1>7 DEF Flow

\* A frame is taken that starts and ends nothing.
LEMMA TakenSteady ==
  ASSUME TypeOK, Flow, inbox # << >>, inbox' = Tail(inbox),
         UNCHANGED <<s, todo, backlog, lined, handed>>, cli = "idle" => cli' = "idle",
         NEW frames \in Seq(Output), FreeOf(frames, Results), outbox' = outbox \o frames
  PROVE  Flow'
<1>1. PipesSteady
  BY InboxTaken, SaidMore DEF PipesSteady, Say
<1> QED
  BY <1>1, EasilySteady, SteadyKeeps DEF Flow, StateSteady

LEMMA InterruptTaken ==
  ASSUME TypeOK, Flow, CliTakesInterrupt
  PROVE  Flow'
<1>1. inbox # << >> /\ inbox' = Tail(inbox) /\ UNCHANGED <<s, todo, lined, handed>> /\ backlog = << >>
  BY DEF CliTakesInterrupt, history, Flow, OneTurn
<1>2. CASE /\ cli' = "idle" /\ backlog' = << >>
           /\ Say(Cancelled(backlog) \o (IF cli = "idle" THEN << >> ELSE Result("aborted")))
  <2>1. CASE cli = "idle"
    <3>1. Say(<< >> \o << >>) /\ << >> \o << >> = << >> /\ << >> \in Seq(Output) /\ FreeOf(<< >>, Results)
      BY <1>1, <1>2, <2>1, FramesFree, FreeNone
    <3> QED
      BY <1>1, <1>2, <2>1, <3>1, TakenSteady DEF Say
  <2>2. CASE cli # "idle"
    <3>1. Say(<< >> \o Result("aborted")) /\ Result("aborted") \in Seq(Output) /\ AtMostOneOf(Result("aborted"), Results)
      BY <1>1, <1>2, <2>2, FramesFree
    <3>2. << >> \o Result("aborted") = Result("aborted")
      BY <3>1
    <3> QED
      BY <1>1, <1>2, <2>2, <3>1, <3>2, TurnEnds
  <2> QED
    BY <2>1, <2>2
<1>3. CASE Say(<<[kind |-> "refusal"]>>) /\ UNCHANGED <<cli, backlog>>
  BY <1>1, <1>3, FramesFree, TakenSteady DEF Say
<1> QED
  BY <1>2, <1>3 DEF CliTakesInterrupt

LEMMA AnswerTaken ==
  ASSUME TypeOK, Flow, CliTakesAnswer
  PROVE  Flow'
<1>1. /\ inbox # << >> /\ Head(inbox).kind = "answer" /\ inbox' = Tail(inbox)
      /\ UNCHANGED <<s, todo, backlog, lined, handed>>
  BY DEF CliTakesAnswer, history
<1>2. Head(inbox).ask \in Ask
  BY <1>1, InputFields
<1>3. << >> \in Seq(Output) /\ FreeOf(<< >>, Results) /\ outbox \o << >> = outbox
  BY FreeNone DEF TypeOK, CliOK
<1>4. CASE cli # Head(inbox).ask
  BY <1>1, <1>3, <1>4, TakenSteady DEF CliTakesAnswer
<1>5. CASE cli = Head(inbox).ask /\ Head(inbox).decision = "cancel"
  <2>1. cli # "idle" /\ cli' = "idle" /\ Say(Result("aborted"))
    BY <1>2, <1>5, RuntimeAssumption DEF CliTakesAnswer
  <2> QED
    BY <1>1, <2>1, FramesFree, TurnEnds
<1>6. CASE cli = Head(inbox).ask /\ Head(inbox).decision # "cancel"
  <2>1. cli # "idle" /\ UNCHANGED outbox
    BY <1>2, <1>6, RuntimeAssumption DEF CliTakesAnswer
  <2> QED
    BY <1>1, <1>3, <2>1, TakenSteady
<1> QED
  BY <1>4, <1>5, <1>6

LEMMA EndMoves ==
  ASSUME TypeOK, Flow, NEW r \in {"ok", "error", "limit"}, CliEnds(r)
  PROVE  Flow'
<1>1. cli # "idle" /\ cli' = "idle" /\ UNCHANGED <<s, todo, inbox, backlog, lined, handed>>
  BY DEF CliEnds, history
<1>2. PICK frames : frames = IF r = "limit" THEN Content(TRUE) \o Result(r) ELSE Result(r)
  OBVIOUS
<1>3. frames \in Seq(Output) /\ AtMostOneOf(frames, Results)
  <2>1. /\ Content(TRUE) \in Seq(Output) /\ FreeOf(Content(TRUE), Results)
        /\ Result(r) \in Seq(Output) /\ AtMostOneOf(Result(r), Results)
    BY FramesFree
  <2>2. Content(TRUE) \o Result(r) \in Seq(Output) /\ AtMostOneOf(Content(TRUE) \o Result(r), Results)
    BY <2>1, Concatenated, FreeTogether
  <2> QED
    BY <1>2, <2>1, <2>2
<1>4. Say(frames)
  BY <1>2 DEF CliEnds
<1> QED
  BY <1>1, <1>3, <1>4, TurnEnds

\* Steps of which one takes note of a turn.
Ending(steps) ==
  /\ steps \in Seq(Step) /\ AtMostOneOf(steps, TurnSteps) /\ FreeOf(steps, RoughSteps)
  /\ MsgsIn(steps) = {}

LEMMA EndingBoth ==
  ASSUME NEW a, NEW b, NEW c, Easy(a), Ending(b), Easy(c)
  PROVE  Ending(a \o b) /\ Ending(b \o c)
<1>1. MsgsIn(a) = {} /\ MsgsIn(c) = {}
  BY EmptyHanded DEF Easy
<1>2. Ending(a \o b)
  BY <1>1, FreeTogether, Concatenated, CarriedTogether DEF Easy, Ending
<1>3. Ending(b \o c)
  BY <1>1, FreeTogether, Concatenated, CarriedTogether DEF Easy, Ending
<1> QED
  BY <1>2, <1>3

\* What the reader does about a result.
LEMMA ResultSteps ==
  ASSUME TypeOK, ReadResult
  PROVE  \E steps : Ending(steps) /\ Begin(Reader, steps)
<1> USE DEF EasyOp
<1> DEFINE r == Head(outbox).result
           status == TurnStatus(r, s.interrupting)
           limited == status = "failed" /\ r = "limit"
           report == IF status = "failed" THEN <<[op |-> "error", limit |-> limited]>> ELSE << >>
           more == IF limited THEN Do("preserve") \o StopSteps ELSE Do("adopt")
<1>1. Begin(Reader, Do("discard") \o report \o SetPhase("ready") \o EmitTurn(status) \o more)
  BY DEF ReadResult
<1>2. /\ Easy(Do("discard")) /\ Easy(Do("preserve")) /\ Easy(Do("adopt"))
      /\ \A x \in BOOLEAN : Easy(<<[op |-> "error", limit |-> x]>>)
  BY EasySteps
<1>3. status \in Status /\ limited \in BOOLEAN
  BY TurnStatusTyped
<1>4. Easy(EmitTurn(status))
  BY <1>3, EasySteps
<1> HIDE DEF limited, status
<1>5. Easy(report) /\ Easy(more)
  BY <1>2, <1>3, EasyNone, EasyBoth, StopStepsEasy
<1>6. Ending(SetPhase("ready"))
  <2>1. SetPhase("ready") \in Seq(Step)
    BY DEF SetPhase, Step, Phase
  <2>2. AtMostOneOf(SetPhase("ready"), TurnSteps) /\ FreeOf(SetPhase("ready"), RoughSteps)
    BY FreeOne DEF SetPhase, RoughSteps
  <2>3. MsgsIn(SetPhase("ready")) = {}
    BY DEF MsgsIn, MsgsOf, SetPhase
  <2> QED
    BY <2>1, <2>2, <2>3 DEF Ending
<1> HIDE DEF report, more
<1>7. Easy(Do("discard") \o report)
  BY <1>2, <1>5, EasyBoth
<1>8. Ending(Do("discard") \o report \o SetPhase("ready"))
  BY <1>6, <1>7, EasyNone, EndingBoth
<1>9. Ending(Do("discard") \o report \o SetPhase("ready") \o EmitTurn(status))
  BY <1>4, <1>8, EasyNone, EndingBoth
<1>10. Ending(Do("discard") \o report \o SetPhase("ready") \o EmitTurn(status) \o more)
  BY <1>5, <1>9, EasyNone, EndingBoth
<1> QED
  BY <1>1, <1>10

\* The result is read: the turn is in the hands of the reader.
LEMMA ResultMoves ==
  ASSUME TypeOK, Flow, ReadResult
  PROVE  Flow'
<1>1. /\ outbox # << >> /\ Head(outbox).kind = "result" /\ outbox' = Tail(outbox)
      /\ UNCHANGED <<inbox, cli, backlog, lined, handed>>
      /\ s'.phase = s.phase /\ s'.queue = s.queue
  BY DEF ReadResult, Frame, TypeOK, StateOK, RuntimeState
<1>2. PICK steps : Ending(steps) /\ Begin(Reader, steps)
  BY ResultSteps
<1>3. outbox \in Seq(Output) /\ Head(outbox) \in Results
  BY <1>1, OutputFields DEF TypeOK, CliOK, Results
<1>4. ~FreeOf(outbox, Results) /\ AtMostOneOf(outbox, Results)
  BY <1>1, <1>3, FreeAhead DEF Flow, OneTurn
<1>5. FreeOf(outbox', Results)
  BY <1>1, <1>3, <1>4, FreeAhead
<1>6. NoneInHand /\ FreeOf(inbox, Message) /\ cli = "idle" /\ s.phase # "ready" /\ backlog = << >>
  BY <1>4 DEF Flow, OneTurn, NoTurn
<1>7. /\ \A o \in Thread \ {Reader} : todo'[o] = todo[o]
      /\ AtMostOneOf(todo'[Reader], TurnSteps) /\ FreeOf(todo'[Reader], RoughSteps)
      /\ MsgsIn(todo'[Reader]) = {}
  <2>1. todo' = [todo EXCEPT ![Reader] = steps] /\ todo \in [Thread -> Seq(Step)] /\ Reader \in Thread
    BY <1>2, Threads DEF Begin, TypeOK
  <2> QED
    BY <1>2, <2>1 DEF Ending
<1>8. Smooth'
  BY <1>7 DEF Flow, Smooth
<1>9. OneTurn'
  <2>1. \A o, p \in Thread : o = p \/ FreeOf(todo'[o], TurnSteps) \/ FreeOf(todo'[p], TurnSteps)
    BY <1>6, <1>7 DEF NoneInHand
  <2>2. \A o \in Thread : AtMostOneOf(todo'[o], TurnSteps)
    BY <1>7 DEF Flow, OneTurn
  <2> QED
    BY <1>1, <1>5, <1>6, <2>1, <2>2 DEF OneTurn, FreeOf, AtMostOneOf
<1>10. InLine'
  <2>1. \A o \in Thread : MsgsIn(todo'[o]) \subseteq MsgsIn(todo[o])
    BY <1>7
  <2> QED
    BY <1>1, <2>1, LineKeeps DEF Flow
<1> QED
  BY <1>8, <1>9, <1>10 DEF Flow

-----------------------------------------------------------------------------
(* Every step.                                                             *)

LEMMA SteadyFlows == ASSUME Flow, Steady PROVE Flow'
BY SteadyKeeps DEF Flow, Steady

\* Nobody has a step to take that only an exception leaves.
LEMMA NothingRough ==
  ASSUME TypeOK, Flow, NEW th \in Thread
  PROVE  ~requeue_front(th) /\ ~Deliver(th) /\ ~WriteDelivery(th)
<1> SUFFICES ASSUME requeue_front(th) \/ Deliver(th) \/ WriteDelivery(th) PROVE FALSE
  OBVIOUS
<1>1. todo[th] # << >> /\ Now(th).op \in {"deliver", "write_delivery", "requeue"}
  BY DEF requeue_front, Deliver, WriteDelivery, Writing, At, Now
<1>2. Now(th) \in RoughSteps
  BY <1>1, HeadStep DEF RoughSteps
<1> QED
  BY <1>1, <1>2, HeadInHand DEF Flow, Smooth

LEMMA FlowAdvance ==
  ASSUME TypeOK, Flow, CanWrite, Undisturbed', NEW th \in Thread, Advance(th)
  PROVE  Flow'
<1>1. CASE Quiet1(th)
  BY <1>1, ReadyKeeps, SteadyQuiet1, SteadyFlows DEF Flow
<1>2. CASE Quiet2(th)
  BY <1>2, SteadyQuiet2, SteadyFlows
<1>3. CASE Asking(th)
  BY <1>3, SteadyAsking, SteadyFlows
<1>4. CASE Drain(th) \/ OpenedTurn(th) \/ WriteTurn(th)
  BY <1>4, DrainMoves, OpenMoves, WriteMoves
<1>5. CASE Wait(th)
  <2>1. UNCHANGED <<s, todo, inbox, outbox, cli, backlog, lined, handed>>
    BY <1>5 DEF Wait, external, history
  <2> QED
    BY <2>1, EasilySteady, SteadyFlows DEF Steady, PipesSteady, StateSteady
<1> QED
  BY <1>1, <1>2, <1>3, <1>4, <1>5, AdvanceSplit, NothingRough DEF Laden, Asking

LEMMA FlowCall ==
  ASSUME TypeOK, Flow, Undisturbed', NEW th \in Client, Call(th)
  PROVE  Flow'
<1>0. th \in Thread
  BY Threads
<1>1. ASSUME NEW m \in Msg, SendStart(th, m) \/ SendQueue(th, m) PROVE Flow'
  BY <1>0, <1>1, StartMoves, QueueMoves
<1>2. ASSUME NEW m \in Msg PROVE ~SendDeliver(th, m)
  BY SpentDisturbs DEF SendDeliver
<1>3. CASE Interrupt(th) \/ Stop(th) \/ \E m \in Msg : SendRefused(th, m)
  BY <1>0, <1>3, SteadyCalls, SteadyFlows
<1>4. CASE \E a \in Ask, d \in Decision : Approve(th, a, d)
  BY <1>0, <1>4, SteadyAsking, SteadyFlows DEF Asking
<1>5. ASSUME NEW i \in DOMAIN s.queue, remove_queued(th, i) PROVE Flow'
  BY <1>0, <1>5, RemoveMoves
<1> QED
  BY <1>1, <1>2, <1>3, <1>4, <1>5 DEF Call, Send

LEMMA FlowKept ==
  ASSUME TypeOK, Flow, CanWrite, Undisturbed', Next
  PROVE  Flow'
<1>1. CASE Read
  BY <1>1, ResultMoves, SteadyReads, SteadyFlows
<1>2. CASE Poll \/ TurnWatchdog \/ InterruptWatchdog \/ InterruptSeen
  BY <1>2, SteadyWatch, SteadyFlows
<1>3. CASE Cli
  <2>1. CASE CliTakesMessage \/ CliTakesInterrupt \/ CliTakesAnswer
    BY <2>1, MessageTaken, InterruptTaken, AnswerTaken
  <2>2. CASE CliSpeaks
    BY <2>2, SteadyCli, SteadyFlows
  <2>3. CASE CliEnds("ok")
    BY <2>3, EndMoves
  <2>4. ~CliNext
    BY DEF CliNext, Flow, OneTurn
  <2> QED
    BY <1>3, <2>1, <2>2, <2>3, <2>4 DEF Cli
<1>4. CASE CliMay
  <2>1. CASE (\E a \in Ask : CliAsks(a)) \/ CliWithdraws \/ CliFreezes \/ CliExits
    BY <2>1, SteadyCli, SteadyFlows
  <2>2. ASSUME NEW r \in {"error", "limit"}, CliEnds(r) PROVE Flow'
    BY <2>2, EndMoves
  <2>3. ~CliWakes
    BY SpentDisturbs DEF CliWakes
  <2> QED
    BY <1>4, <2>1, <2>2, <2>3 DEF CliMay
<1> QED
  BY <1>1, <1>2, <1>3, <1>4, FlowAdvance, FlowCall DEF Next

\* What a step does to what is remembered of the messages.
LetIn ==
  \/ lined' = lined /\ \A m \in Msg : told[m] # "unsent" => told'[m] # "unsent"
  \/ \E m \in Msg, x \in Told \ {"unsent"} :
       told[m] = "unsent" /\ told' = [told EXCEPT ![m] = x] /\ lined' = Append(lined, m)
Hands ==
  handed' = handed \/ \E th \in Thread : CanWrite /\ (WriteTurn(th) \/ WriteDelivery(th))

LEMMA HistoryMoves ==
  ASSUME TypeOK, Next
  PROVE  LetIn /\ Hands
<1> USE DEF history, Told
<1>0. told \in [Msg -> Told]
  BY DEF TypeOK, HistoryOK
<1>1. CASE UNCHANGED <<told, lined, handed>>
  BY <1>1 DEF LetIn, Hands
<1>2. ASSUME NEW th \in Thread, Advance(th) PROVE LetIn /\ Hands
  <2>1. CASE Quiet1(th)
    BY <1>0, <2>1 DEF LetIn, Hands, Quiet1, Unclaim, Refuse, forget_delivery, Unflag, set_phase, apply_turn_event,
         ClearTurn, apply_error_event, Progress, Preserve, CloseStdin, release_account_runtime, ReleaseChild
  <2>2. CASE Quiet2(th)
    BY <1>1, <2>2 DEF Quiet2, Note, WriteInterrupt, emit_turn, discard_pending_approvals, Adopt, Kill, Reap, Clear, Judge
  <2>3. CASE WriteTurn(th) \/ WriteDelivery(th)
    <3>1. LetIn
      BY <1>0, <2>3 DEF LetIn, WriteTurn, WriteDelivery
    <3>2. Hands
      BY <2>3 DEF Hands, WriteTurn, WriteDelivery
    <3> QED
      BY <3>1, <3>2
  <2>4. CASE Drain(th) \/ OpenedTurn(th) \/ requeue_front(th) \/ Deliver(th) \/ Wait(th)
    BY <1>1, <2>4 DEF Drain, OpenedTurn, requeue_front, Deliver, Wait
  <2>5. CASE Asking(th)
    BY <1>1, <2>5 DEF Asking, WriteAnswer, Reinsert, cancel_pending_approvals, Respond, Approve
  <2> QED
    BY <1>2, <2>1, <2>2, <2>3, <2>4, <2>5, AdvanceSplit DEF Laden, Asking
<1>3. ASSUME NEW th \in Client, Call(th) PROVE LetIn /\ Hands
  <2>1. ASSUME NEW m \in Msg, SendStart(th, m) \/ SendDeliver(th, m) \/ SendQueue(th, m) PROVE LetIn /\ Hands
    BY <1>0, <2>1 DEF LetIn, Hands, SendStart, SendDeliver, SendQueue, Unsent
  <2>2. ASSUME NEW m \in Msg, SendRefused(th, m) PROVE LetIn /\ Hands
    BY <1>0, <2>2 DEF LetIn, Hands, SendRefused
  <2>3. ASSUME NEW i \in DOMAIN s.queue, remove_queued(th, i) PROVE LetIn /\ Hands
    BY <1>0, <2>3 DEF LetIn, Hands, remove_queued
  <2>4. CASE Interrupt(th) \/ Stop(th) \/ \E a \in Ask, d \in Decision : Approve(th, a, d)
    BY <1>1, <2>4 DEF Interrupt, Stop, Approve
  <2> QED
    BY <1>3, <2>1, <2>2, <2>3, <2>4 DEF Call, Send
<1>4. CASE Read \/ Poll \/ TurnWatchdog \/ InterruptWatchdog \/ InterruptSeen
  BY <1>1, <1>4 DEF Read, ReadContent, ReadAsk, ReadCancel, ReadLifecycle, ReadRefusal, ReadResult,
       Poll, TurnWatchdog, InterruptWatchdog, InterruptSeen
<1>5. CASE Cli \/ CliMay
  BY <1>1, <1>5 DEF Cli, CliMay, CliTakesMessage, CliTakesInterrupt, CliTakesAnswer, CliSpeaks, CliNext,
       CliEnds, CliAsks, CliWithdraws, CliWakes, CliExits, CliFreezes
<1> QED
  BY <1>2, <1>3, <1>4, <1>5 DEF Next

LEMMA LinedKept ==
  ASSUME TypeOK, LinedOnce, LetIn
  PROVE  LinedOnce' /\ \A x, n : Before(x, n) => Before(x, n)'
<1>0. lined \in Seq(Msg) /\ told \in [Msg -> Told]
  BY DEF TypeOK, HistoryOK, Told
<1>1. CASE lined' = lined /\ \A m \in Msg : told[m] # "unsent" => told'[m] # "unsent"
  <2>1. Sent \subseteq Sent'
    BY <1>1 DEF Sent
  <2> QED
    BY <1>1, <2>1, BeforeKept DEF LinedOnce
<1>2. ASSUME NEW m \in Msg, NEW x \in Told \ {"unsent"},
             told[m] = "unsent", told' = [told EXCEPT ![m] = x], lined' = Append(lined, m)
      PROVE  LinedOnce' /\ \A y, n : Before(y, n) => Before(y, n)'
  <2>1. Sent' = Sent \cup {m} /\ m \notin Sent
    BY <1>0, <1>2 DEF Sent
  <2>2. ToSet(lined') = ToSet(lined) \cup {m} /\ (IsInjective(lined) /\ m \notin ToSet(lined) => IsInjective(lined'))
    BY <1>0, <1>2, AppendedRange
  <2>3. \A y, n : Before(y, n) => Before(y, n)'
    BY <1>0, <1>2, BeforeAppended
  <2> QED
    BY <2>1, <2>2, <2>3 DEF LinedOnce
<1> QED
  BY <1>1, <1>2 DEF LetIn

LEMMA OrderStarts == Init => OrderInv
<1> SUFFICES ASSUME Init PROVE OrderInv
  OBVIOUS
<1>1. lined = << >> /\ handed = << >> /\ s.queue = << >> /\ todo = [th \in Thread |-> << >>]
  BY DEF Init
<1>2. LinedOnce /\ HandedInLine
  BY <1>1, EmptyRange DEF LinedOnce, HandedInLine
<1>3. \A th \in Thread : todo[th] = << >> /\ MsgsIn(todo[th]) = {}
  BY <1>1 DEF MsgsIn
<1>4. Smooth
  BY <1>3, FreeNone DEF Smooth
<1>5. NoneInHand
  BY <1>3, FreeNone DEF NoneInHand
<1>6. inbox = << >> /\ outbox = << >> /\ cli = "idle" /\ backlog = << >>
  BY DEF Init
<1>7. OneTurn
  BY <1>3, <1>5, <1>6, FreeNone DEF OneTurn, NoTurn, NoneInHand
<1>8. InLine
  <2>1. ToSet(s.queue) = {} /\ ToSet(handed) = {} /\ DOMAIN s.queue = {}
    BY <1>1, EmptyRange
  <2> QED
    BY <1>3, <2>1 DEF InLine
<1> QED
  BY <1>2, <1>4, <1>7, <1>8 DEF OrderInv, Flow

LEMMA OrderKept == IInv /\ OrderInv /\ [Next]_vars => OrderInv'
<1> SUFFICES ASSUME TypeOK, OrderInv, [Next]_vars PROVE OrderInv'
  BY DEF IInv
<1>1. CASE Next
  <2>1. (Undisturbed' => Undisturbed) /\ (CanWrite' => CanWrite)
    BY <1>1, StaysUndisturbed
  <2>2. LetIn /\ Hands
    BY <1>1, HistoryMoves
  <2>3. LinedOnce' /\ \A x, n : Before(x, n) => Before(x, n)'
    BY <2>2, LinedKept DEF OrderInv
  <2>4. ASSUME Undisturbed' PROVE HandedInLine'
    <3>1. HandedInLine
      BY <2>1, <2>4 DEF OrderInv
    <3>2. CASE handed' = handed
      <4> SUFFICES ASSUME NEW i \in DOMAIN handed, NEW j \in DOMAIN handed, i < j, NEW x, NEW n, x = handed[i], n = handed[j]
                   PROVE  Before(x, n)'
        BY <3>2 DEF HandedInLine, Before
      <4> QED
        BY <2>3, <3>1 DEF HandedInLine
    <3>3. ASSUME NEW th \in Thread, CanWrite, WriteTurn(th) \/ WriteDelivery(th) PROVE HandedInLine'
      <4>1. Flow
        BY <2>1, <2>4, <3>3 DEF OrderInv, Flow
      <4> QED
        BY <3>1, <3>3, <4>1, NothingRough, WriteMoves
    <3> QED
      BY <2>2, <3>2, <3>3 DEF Hands
  <2>5. ASSUME Undisturbed', CanWrite' PROVE Flow'
    <3>1. Flow /\ CanWrite
      BY <2>1, <2>5 DEF OrderInv, Flow
    <3> QED
      BY <1>1, <2>5, <3>1, FlowKept
  <2> QED
    BY <2>3, <2>4, <2>5 DEF OrderInv, Flow
<1>2. CASE UNCHANGED vars
  <2>1. /\ UNCHANGED <<s, stdin, todo, events, exit, cli, backlog, inbox, outbox, told, lined, handed>>
    BY <1>2 DEF vars, process, external, history
  <2>2. LinedOnce' /\ (Undisturbed' <=> Undisturbed) /\ (CanWrite' <=> CanWrite) /\ (HandedInLine' <=> HandedInLine)
    BY <2>1 DEF OrderInv, LinedOnce, Sent, Undisturbed, Happened, CanWrite, Alive, HandedInLine, Before
  <2>3. Flow => Flow'
    BY <2>1, EasilySteady, SteadyFlows DEF Steady, PipesSteady, StateSteady
  <2> QED
    BY <2>2, <2>3 DEF OrderInv, Flow
<1> QED
  BY <1>1, <1>2

\* A message of a list that names none twice has one place in it.
LEMMA OnePlace ==
  ASSUME NEW q, IsInjective(q), NEW i \in DOMAIN q
  PROVE  Position(q[i], q) = i
BY DEF Position, IsInjective

\* Messages reach the CLI in the order they were let in, unless one was steered, put back or overtaken.
THEOREM MessagesGoInOrder == Spec => []QueueOrder
<1>1. IInv /\ OrderInv => QueueOrder
  <2> SUFFICES ASSUME IInv, OrderInv, NEW i \in DOMAIN lined, NEW j \in DOMAIN lined, i < j,
                      {lined[i], lined[j]} \subseteq ToSet(handed), Undisturbed
               PROVE  Position(lined[i], handed) < Position(lined[j], handed)
    BY DEF QueueOrder, Undisturbed
  <2>1. IsInjective(handed) /\ IsInjective(lined) /\ HandedInLine /\ handed \in Seq(Msg) /\ lined \in Seq(Msg)
    BY DEF IInv, MessageInv, MessagesApart, OrderInv, LinedOnce, TypeOK, HistoryOK
  <2>2. PICK a \in DOMAIN handed, b \in DOMAIN handed : lined[i] = handed[a] /\ lined[j] = handed[b]
    BY DEF ToSet
  <2>3. Position(lined[i], handed) = a /\ Position(lined[j], handed) = b
    BY <2>1, <2>2, OnePlace
  <2>4. a \in Nat /\ b \in Nat /\ i \in Nat /\ j \in Nat
    BY <2>1
  <2>5. a # b
    BY <2>1, <2>2, <2>4 DEF IsInjective
  <2>6. ~(b < a)
    <3> SUFFICES ASSUME b < a PROVE FALSE
      OBVIOUS
    <3>1. Before(lined[j], lined[i])
      BY <2>1, <2>2 DEF HandedInLine
    <3>2. PICK x \in DOMAIN lined, y \in DOMAIN lined : x < y /\ lined[x] = lined[j] /\ lined[y] = lined[i]
      BY <3>1 DEF Before
    <3>3. x = j /\ y = i
      BY <2>1, <3>2 DEF IsInjective
    <3> QED
      BY <2>4, <3>2, <3>3
  <2> QED
    BY <2>3, <2>4, <2>5, <2>6
<1>2. Spec => []OrderInv
  BY RuntimeInvariance, OrderStarts, OrderKept, PTL DEF Spec
<1> QED
  BY <1>1, <1>2, RuntimeInvariance, PTL
=============================================================================
