------------------------ MODULE OneShotApprovalProofs ------------------------
(***************************************************************************)
(* Theorems about the approval cards, for any conversations, requests, ids,*)
(* threads, limits, TTL and clocks.                                        *)
(*                                                                         *)
(* Each operation is two steps or more, and the ledger moves in between.   *)
(* So the invariant says of what a thread is about to do, and of a timer   *)
(* that is armed, only what no step of the ledger can take back: an id     *)
(* keeps what it was opened for and when it dies, an answer that was taken *)
(* stays, and a token that is past answering is past it for good.          *)
(***************************************************************************)
EXTENDS OneShotApproval, ApprovalLedgerProofs

\* An id that was issued, and that dies at this time if its entry is still there.
Dies(i, at) == i \in DOMAIN asked /\ (i \in DOMAIN entries => entries[i].expires_at = at)

\* A token that nobody can answer any more.
Lapsed(i) ==
  /\ i \in DOMAIN asked
  /\ i \in DOMAIN entries => ~ is_awaiting(entries[i]) \/ expired(entries[i], clock)

\* What a thread is about to do is still right when it does it.
Sound(t) ==
  /\ t \in Task
  /\ t.op = "show" => Dies(t.id, t.expires_at)
  /\ t.op = "resolve" => t.id \in DOMAIN asked /\ asked[t.id].chat = t.chat
  /\ t.op = "announce" => told[t.id] = {t.granted}
  /\ t.op = "close" => Lapsed(t.id)

TasksSound == task \in [Caller -> Task] /\ \A th \in Caller : Sound(task[th])
\* No thread has a reading of the future.
ReadingsPast == \A th \in Caller : reading[th] <= clock
CardsOK == card \in [Id -> {"none", "asking", "accepted", "declined", "cancelled"}] /\ ended \subseteq Chat
TimersSound ==
  /\ due \in [DOMAIN due -> Nat] /\ DOMAIN due \subseteq Id
  /\ \A i \in DOMAIN due : Dies(i, due[i])

CardInv ==
  /\ IInv /\ TasksSound /\ ReadingsPast /\ CardsOK /\ TimersSound
  /\ CardTellsTheDecision /\ WaitingIsAnswerable

-----------------------------------------------------------------------------
\* What the records of the threads hold.
LEMMA Tasks ==
  ASSUME NEW t \in Task
  PROVE  /\ t.op = "open" => t.chat \in Chat /\ t.request \in Request
         /\ t.op = "show" => t.id \in Id /\ t.expires_at \in Nat
         /\ t.op = "resolve" => t.chat \in Chat /\ t.id \in Id /\ t.granted \in BOOLEAN
         /\ t.op = "announce" => t.id \in Id /\ t.granted \in BOOLEAN
         /\ t.op = "close" => t.id \in Id
         /\ t.op = "consume" => t.chat \in Chat /\ t.id \in Id /\ t.request \in Request
         /\ t.op = "end" => t.chat \in Chat
BY DEF Task, Idle

-----------------------------------------------------------------------------
(* What a step of the ledger cannot take back.                             *)
Lasting ==
  /\ clock' >= clock
  /\ DOMAIN asked \subseteq DOMAIN asked'
  /\ \A i \in DOMAIN asked :
       /\ asked'[i] = asked[i]
       /\ i \in DOMAIN entries' => /\ i \in DOMAIN entries
                                   /\ entries'[i].expires_at = entries[i].expires_at
                                   /\ is_awaiting(entries'[i]) => is_awaiting(entries[i])
  /\ \A i \in Id : told[i] # {} => told'[i] = told[i]

\* A step that only takes entries away, or nothing.
LEMMA SweepLasts ==
  ASSUME IInv, NEW S \in SUBSET DOMAIN entries, entries' = Restrict(entries, S),
         UNCHANGED <<asked, told>>, clock' >= clock
  PROVE  Lasting
BY DEF Lasting, Restrict

\* Every step of the ledger.
LEMMA LedgerLasts == IInv /\ [Next]_vars => Lasting
<1> SUFFICES ASSUME IInv, [Next]_vars PROVE Lasting
  OBVIOUS
<1>0. entries = Restrict(entries, DOMAIN entries) /\ clock \in Nat /\ clock >= clock
  BY DEF IInv, TypeOK, Restrict
<1>1. CASE Tick \/ UNCHANGED vars
  <2>1. clock' >= clock
    BY <1>0, <1>1 DEF Tick, vars
  <2> QED
    BY <1>0, <1>1, <2>1, SweepLasts DEF Tick, vars
<1>2. ASSUME NEW th \in Caller,
             \/ ReadClock(th)
             \/ \E c \in Chat, i \in Id : \/ ResolveRefused(th, c, i)
                                         \/ \E r \in Request : ConsumeRefused(th, c, i, r)
      PROVE  Lasting
  BY <1>0, <1>2, SweepLasts DEF ReadClock, ResolveRefused, ConsumeRefused, UnderLock
<1>3. ASSUME NEW th \in Caller,
             \/ Pending(th)
             \/ \E c \in Chat, r \in Request :
                  OpenRefused(th, c, r) \/ \E i \in Id : OpenExisting(th, c, r, i)
      PROVE  Lasting
  BY <1>0, <1>3, LiveIsPart, SweepLasts DEF Pending, OpenRefused, OpenExisting, UnderLock
<1>4. ASSUME NEW c \in Chat, discard_chat(c) PROVE Lasting
  BY <1>0, <1>4, SweepLasts DEF discard_chat
<1>5. ASSUME NEW th \in Caller, NEW c \in Chat, NEW r \in Request, NEW i \in Id, OpenNew(th, c, r, i)
      PROVE  Lasting
  <2> DEFINE live == lock_live(reading[th])
  <2>1. DOMAIN live \subseteq DOMAIN entries /\ \A j \in DOMAIN live : live[j] = entries[j]
    BY LiveIsPart
  <2>2. i \notin DOMAIN asked /\ UNCHANGED <<told, clock>>
    BY <1>5 DEF OpenNew, UnderLock
  <2>3. /\ DOMAIN entries' = DOMAIN live \cup {i}
        /\ \A j \in DOMAIN live : j # i => entries'[j] = live[j]
        /\ DOMAIN asked' = DOMAIN asked \cup {i}
        /\ \A j \in DOMAIN asked : j # i => asked'[j] = asked[j]
    BY <1>5 DEF OpenNew
  <2> QED
    BY <1>0, <2>1, <2>2, <2>3 DEF Lasting
<1>6. ASSUME NEW th \in Caller, NEW c \in Chat, NEW i \in Id, NEW granted \in BOOLEAN, Resolve(th, c, i, granted)
      PROVE  Lasting
  <2>1. i \in DOMAIN entries /\ entries[i].granted = "unanswered" /\ entries[i] \in Entry /\ told[i] = {}
    BY <1>6 DEF Resolve, CanResolve, with_usable, IInv, TypeOK, History, EntryAsTold, ToldBy
  <2>2. /\ DOMAIN entries' = DOMAIN entries
        /\ \A j \in DOMAIN entries : /\ entries'[j].expires_at = entries[j].expires_at
                                     /\ is_awaiting(entries'[j]) => is_awaiting(entries[j])
    BY <1>6, <2>1 DEF Resolve, Entry, is_awaiting
  <2>3. \A j \in Id : told[j] # {} => told'[j] = told[j]
    BY <1>6, <2>1 DEF Resolve, IInv, TypeOK
  <2> QED
    BY <1>0, <1>6, <2>2, <2>3 DEF Lasting, Resolve, UnderLock
<1>7. ASSUME NEW th \in Caller, NEW c \in Chat, NEW i \in Id, NEW r \in Request, Consume(th, c, i, r)
      PROVE  Lasting
  <2>1. i \in DOMAIN entries /\ entries[i] \in Entry
    BY <1>7 DEF Consume, CanConsume, with_usable, IInv, TypeOK
  <2>2. /\ DOMAIN entries' = DOMAIN entries
        /\ \A j \in DOMAIN entries : /\ entries'[j].expires_at = entries[j].expires_at
                                     /\ is_awaiting(entries'[j]) => is_awaiting(entries[j])
    BY <1>7, <2>1 DEF Consume, Entry, is_awaiting
  <2> QED
    BY <1>0, <1>7, <2>2 DEF Lasting, Consume, UnderLock
<1> QED
  BY <1>1, <1>2, <1>3, <1>4, <1>5, <1>6, <1>7 DEF Next

\* What was sound stays so.
LEMMA DiesLasts ==
  ASSUME Lasting, NEW i, NEW at, Dies(i, at)
  PROVE  Dies(i, at)'
BY DEF Lasting, Dies

LEMMA LapsedLasts ==
  ASSUME IInv, IInv', Lasting, NEW i, Lapsed(i)
  PROVE  Lapsed(i)'
<1>1. clock \in Nat /\ clock' \in Nat /\ clock' >= clock
  BY DEF IInv, TypeOK, Lasting
<1>2. \A j \in DOMAIN entries : entries[j].expires_at \in Nat
  BY DEF IInv, TypeOK, Entry
<1> QED
  BY <1>1, <1>2 DEF Lasting, Lapsed, expired

LEMMA SoundLasts ==
  ASSUME IInv, IInv', Lasting, NEW t, Sound(t)
  PROVE  Sound(t)'
<1>1. t \in Task
  BY DEF Sound
<1>2. t.op = "show" => Dies(t.id, t.expires_at)'
  BY DiesLasts DEF Sound
<1>3. t.op = "resolve" => t.id \in DOMAIN asked' /\ asked'[t.id].chat = t.chat
  BY DEF Sound, Lasting
<1>4. t.op = "announce" => told'[t.id] = {t.granted}
  BY <1>1, Tasks DEF Sound, Lasting
<1>5. t.op = "close" => Lapsed(t.id)'
  BY LapsedLasts DEF Sound
<1> QED
  BY <1>1, <1>2, <1>3, <1>4, <1>5 DEF Sound

-----------------------------------------------------------------------------
(* What most steps keep.                                                   *)

\* A reading is the clock, or is forgotten.
LEMMA ReadingsLast == IInv /\ ReadingsPast /\ [Next]_vars => ReadingsPast'
<1> SUFFICES ASSUME IInv, ReadingsPast, [Next]_vars PROVE ReadingsPast'
  OBVIOUS
<1>0. clock \in Nat /\ reading \in [Caller -> Nat \cup {NoCall}] /\ NoCall <= clock
  BY DEF IInv, TypeOK, NoCall
<1>1. CASE UNCHANGED <<reading, clock>>
  BY <1>1 DEF ReadingsPast
<1>2. CASE Tick
  BY <1>0, <1>2 DEF Tick, ReadingsPast, NoCall
<1>3. ASSUME NEW th \in Caller, ReadClock(th) PROVE ReadingsPast'
  BY <1>0, <1>3 DEF ReadClock, ReadingsPast
<1>4. ASSUME NEW th \in Caller, UnderLock(th) PROVE ReadingsPast'
  BY <1>0, <1>4 DEF UnderLock, ReadingsPast
<1>5. ASSUME NEW th \in Caller, NEW c \in Chat, NEW r \in Request, NEW i \in Id
      PROVE  /\ OpenRefused(th, c, r) \/ OpenExisting(th, c, r, i) \/ OpenNew(th, c, r, i) => UnderLock(th)
             /\ Consume(th, c, i, r) \/ ConsumeRefused(th, c, i, r) => UnderLock(th)
  BY DEF OpenRefused, OpenExisting, OpenNew, Consume, ConsumeRefused
<1>6. ASSUME NEW th \in Caller, NEW c \in Chat, NEW i \in Id, NEW granted \in BOOLEAN
      PROVE  ResolveRefused(th, c, i) \/ Resolve(th, c, i, granted) => UnderLock(th)
  BY DEF ResolveRefused, Resolve
<1>7. \A th : Pending(th) => UnderLock(th)
  BY DEF Pending
<1>8. \A c : discard_chat(c) => UNCHANGED <<reading, clock>>
  BY DEF discard_chat
<1>9. CASE Next
  <2>1. ASSUME NEW th \in Caller, NEW c \in Chat, NEW r \in Request, OpenRefused(th, c, r) PROVE UnderLock(th)
    BY <2>1 DEF OpenRefused
  <2> QED
    BY <1>1, <1>2, <1>3, <1>4, <1>5, <1>6, <1>7, <1>8, <1>9, <2>1 DEF Next
<1> QED
  BY <1>1, <1>9 DEF vars

\* One thread goes on to what is sound.
LEMMA TasksLast ==
  ASSUME IInv, IInv', Lasting, TasksSound, NEW th \in Caller, NEW t, Sound(t)',
         task' = [task EXCEPT ![th] = t]
  PROVE  TasksSound'
<1>1. t \in Task /\ task' \in [Caller -> Task]
  BY DEF Sound, TasksSound
<1>2. ASSUME NEW u \in Caller PROVE Sound(task[u])'
  <2>1. CASE u = th
    <3>1. task'[u] = t
      BY <2>1 DEF TasksSound
    <3> QED
      BY <3>1 DEF Sound, Dies, Lapsed
  <2>2. CASE u # th
    <3>1. task'[u] = task[u]
      BY <2>2 DEF TasksSound
    <3> DEFINE before == task[u]
    <3>2. Sound(before)
      BY DEF TasksSound
    <3> HIDE DEF before
    <3> QED
      BY <3>1, <3>2, SoundLasts DEF before
  <2> QED
    BY <2>1, <2>2
<1> QED
  BY <1>1, <1>2 DEF TasksSound

\* Timers, cards and decisions that a step leaves alone.
LEMMA TimersLast == Lasting /\ TimersSound /\ UNCHANGED due => TimersSound'
<1> SUFFICES ASSUME Lasting, TimersSound, UNCHANGED due PROVE TimersSound'
  OBVIOUS
<1>1. ASSUME NEW i \in DOMAIN due' PROVE Dies(i, due[i])'
  <2> DEFINE at == due[i]
  <2>1. Dies(i, at)
    BY <1>1 DEF TimersSound
  <2>2. due'[i] = at
    OBVIOUS
  <2> HIDE DEF at
  <2> QED
    BY <2>1, <2>2, DiesLasts
<1> QED
  BY <1>1 DEF TimersSound

LEMMA DecisionsLast ==
  ASSUME Lasting, CardTellsTheDecision,
         \A i \in Id : \/ card'[i] \notin {"accepted", "declined"}
                       \/ card'[i] = card[i]
                       \/ told'[i] = {card'[i] = "accepted"}
  PROVE  CardTellsTheDecision'
BY DEF Lasting, CardTellsTheDecision

\* A token that waited and whose card had its buttons, or was about to, has them, or is about to.
LEMMA AnswerableLasts ==
  ASSUME IInv, IInv', Lasting, WaitingIsAnswerable,
         \A i \in DOMAIN entries' : is_awaiting(entries'[i]) /\ ~ expired(entries'[i], clock') =>
           \/ \E th \in Caller : task'[th].op = "show" /\ task'[th].id = i
           \/ card'[i] = "asking"
           \/ /\ i \in DOMAIN asked /\ card'[i] = card[i]
              /\ \A th \in Caller : task[th].op = "show" /\ task[th].id = i => task'[th] = task[th]
  PROVE  WaitingIsAnswerable'
<1> SUFFICES ASSUME NEW i \in DOMAIN entries', is_awaiting(entries'[i]), ~ expired(entries'[i], clock'),
                    i \in DOMAIN asked, card'[i] = card[i],
                    \A th \in Caller : task[th].op = "show" /\ task[th].id = i => task'[th] = task[th]
             PROVE  \/ card'[i] = "asking"
                    \/ \E th \in Caller : task'[th].op = "show" /\ task'[th].id = i
  BY DEF WaitingIsAnswerable
<1>1. /\ i \in DOMAIN entries /\ is_awaiting(entries[i])
      /\ entries'[i].expires_at = entries[i].expires_at /\ clock' >= clock
  BY DEF Lasting
<1>2. clock \in Nat /\ clock' \in Nat /\ entries[i].expires_at \in Nat
  BY <1>1 DEF IInv, TypeOK, Entry
<1>3. ~ expired(entries[i], clock)
  BY <1>1, <1>2 DEF expired
<1> QED
  BY <1>1, <1>3 DEF WaitingIsAnswerable

-----------------------------------------------------------------------------
(* The steps.                                                              *)

\* The ledger moves, or the clock, or a conversation ends: threads and screens stay as they are.
LEMMA StillStep ==
  ASSUME CardInv, [Next]_vars, DOMAIN entries' \subseteq DOMAIN entries,
         UNCHANGED <<task, card, due>>, ended' \subseteq Chat
  PROVE  CardInv'
<1>0. IInv /\ TasksSound /\ TimersSound /\ CardTellsTheDecision /\ WaitingIsAnswerable /\ ReadingsPast /\ CardsOK
  BY DEF CardInv
<1>1. IInv' /\ Lasting
  BY <1>0, NextIInv, LedgerLasts
<1>2. ReadingsPast'
  BY <1>0, ReadingsLast
<1>3. TimersSound'
  BY <1>0, <1>1, TimersLast
<1>4. TasksSound'
  <2>1. ASSUME NEW u \in Caller PROVE Sound(task[u])'
    <3> DEFINE before == task[u]
    <3>1. Sound(before) /\ task'[u] = before
      BY <1>0 DEF TasksSound
    <3> HIDE DEF before
    <3> QED
      BY <1>0, <1>1, <3>1, SoundLasts
  <2> QED
    BY <1>0, <2>1 DEF TasksSound
<1>5. CardsOK' /\ CardTellsTheDecision'
  BY <1>0, <1>1, DecisionsLast DEF CardsOK
<1>6. WaitingIsAnswerable'
  <2>1. \A i \in DOMAIN entries' : i \in DOMAIN asked
    BY <1>0 DEF IInv, History, EntryAsAsked
  <2> QED
    BY <1>0, <1>1, <2>1, AnswerableLasts
<1> QED
  BY <1>1, <1>2, <1>3, <1>4, <1>5, <1>6 DEF CardInv

\* A thread that had no card to put up goes on; what is new in the ledger it will show.
LEMMA ThreadGoesOn ==
  ASSUME CardInv, [Next]_vars, NEW th \in Caller, task[th].op # "show",
         NEW t, Sound(t)', Goto(th, t), UNCHANGED <<card, due>>, ended' \subseteq Chat,
         \A i \in DOMAIN entries' : i \in DOMAIN entries \/ (t.op = "show" /\ t.id = i)
  PROVE  CardInv'
<1>0. IInv /\ TasksSound /\ TimersSound /\ CardTellsTheDecision /\ WaitingIsAnswerable /\ ReadingsPast /\ CardsOK
  BY DEF CardInv
<1>1. IInv' /\ Lasting
  BY <1>0, NextIInv, LedgerLasts
<1>2. ReadingsPast'
  BY <1>0, ReadingsLast
<1>3. TimersSound'
  BY <1>0, <1>1, TimersLast
<1>4. TasksSound'
  BY <1>0, <1>1, TasksLast DEF Goto
<1>5. CardsOK' /\ CardTellsTheDecision'
  BY <1>0, <1>1, DecisionsLast DEF CardsOK
<1>6. WaitingIsAnswerable'
  <2>1. task'[th] = t /\ \A u \in Caller : task[u].op = "show" => task'[u] = task[u]
    BY <1>0 DEF TasksSound, Goto
  <2>2. \A i \in DOMAIN entries : i \in DOMAIN asked
    BY <1>0 DEF IInv, History, EntryAsAsked
  <2> QED
    BY <1>0, <1>1, <2>1, <2>2, AnswerableLasts
<1> QED
  BY <1>1, <1>2, <1>3, <1>4, <1>5, <1>6 DEF CardInv

\* A card that nobody can answer any more, or whose answer is in, is closed.
LEMMA CardCloses ==
  ASSUME CardInv, UNCHANGED <<vars, ended>>, TasksSound', TimersSound', NEW i \in Id,
         NEW how \in {"accepted", "declined", "cancelled"}, Resolved(i, how), Lapsed(i),
         how # "cancelled" => told[i] = {how = "accepted"},
         \A th \in Caller : task[th].op = "show" => task'[th] = task[th]
  PROVE  CardInv'
<1>0. IInv /\ TasksSound /\ CardTellsTheDecision /\ WaitingIsAnswerable /\ ReadingsPast /\ CardsOK
  BY DEF CardInv
<1>1. IInv' /\ Lasting /\ UNCHANGED <<entries, clock, reading, asked, told, spent, ran>>
  BY <1>0, NextIInv, LedgerLasts DEF vars
<1>2. /\ card'[i] = IF card[i] = "asking" THEN how ELSE card[i]
      /\ \A j \in Id : j # i => card'[j] = card[j]
      /\ card' \in [Id -> {"none", "asking", "accepted", "declined", "cancelled"}]
  BY <1>0 DEF Resolved, CardsOK
<1>3. CardsOK' /\ ReadingsPast'
  BY <1>0, <1>1, <1>2 DEF CardsOK, ReadingsPast
<1>4. CardTellsTheDecision'
  BY <1>0, <1>1, <1>2, DecisionsLast
<1>5. WaitingIsAnswerable'
  <2>1. ASSUME NEW j \in DOMAIN entries', is_awaiting(entries'[j]), ~ expired(entries'[j], clock')
        PROVE  j \in DOMAIN asked /\ card'[j] = card[j]
    <3>1. j \in DOMAIN asked /\ j \in Id
      BY <1>0, <1>1 DEF IInv, History, EntryAsAsked, TypeOK
    <3>2. j # i
      BY <1>1, <2>1 DEF Lapsed
    <3> QED
      BY <1>2, <3>1, <3>2
  <2> QED
    BY <1>0, <1>1, <2>1, AnswerableLasts
<1> QED
  BY <1>1, <1>3, <1>4, <1>5 DEF CardInv

\* The agent asks, and the ledger opens a token, finds one, or refuses.
LEMMA OpenKeeps ==
  ASSUME CardInv, NEW th \in Caller, Opened(th)
  PROVE  CardInv' /\ Next
<1> DEFINE c == task[th].chat
           r == task[th].request
<1>0. /\ IInv /\ task[th] \in Task /\ task[th].op = "open" /\ c \in Chat /\ r \in Request
      /\ UNCHANGED <<card, due>> /\ ended' \subseteq Chat
  BY Tasks DEF CardInv, CardsOK, TasksSound, Sound, Opened
<1>1. CASE OpenRefused(th, c, r) /\ Goto(th, Idle)
  <2>1. Next
    BY <1>0, <1>1 DEF Next
  <2>2. DOMAIN entries' \subseteq DOMAIN entries
    BY <1>1, LiveIsPart DEF OpenRefused
  <2>3. Sound(Idle)'
    BY DEF Sound, Idle, Task
  <2> QED
    BY <1>0, <1>1, <2>1, <2>2, <2>3, ThreadGoesOn
<1>2. ASSUME NEW i \in Id, OpenExisting(th, c, r, i) \/ OpenNew(th, c, r, i),
             Goto(th, [op |-> "show", id |-> i, expires_at |-> entries'[i].expires_at])
      PROVE  CardInv' /\ Next
  <2> PICK t : t = [op |-> "show", id |-> i, expires_at |-> entries'[i].expires_at]
    OBVIOUS
  <2>1. Next
    BY <1>0, <1>2 DEF Next
  <2>2. IInv'
    BY <1>0, <2>1, NextIInv
  <2>3. i \in DOMAIN entries' /\ \A j \in DOMAIN entries' : j \in DOMAIN entries \/ j = i
    BY <1>2, LiveIsPart DEF OpenExisting, OpenNew, Duplicates, AwaitingOf
  <2>4. entries'[i].expires_at \in Nat /\ i \in DOMAIN asked'
    BY <2>2, <2>3 DEF IInv, TypeOK, Entry, History, EntryAsAsked
  <2>5. t \in Task /\ t.op = "show" /\ t.id = i /\ t.expires_at = entries'[i].expires_at
    BY <2>4 DEF Task
  <2>6. Sound(t)'
    BY <2>4, <2>5 DEF Sound, Dies
  <2>7. Goto(th, t)
    BY <1>2
  <2> QED
    BY <1>0, <2>1, <2>3, <2>5, <2>6, <2>7, ThreadGoesOn
<1> QED
  BY <1>1, <1>2 DEF Opened

\* The card goes up.
LEMMA ShowKeeps ==
  ASSUME CardInv, NEW th \in Caller, ShowCard(th)
  PROVE  CardInv'
<1> DEFINE i == task[th].id
           at == task[th].expires_at
<1>0. /\ IInv /\ TasksSound /\ TimersSound /\ CardTellsTheDecision /\ WaitingIsAnswerable /\ ReadingsPast /\ CardsOK
      /\ i \in Id /\ at \in Nat /\ Dies(i, at)
  BY Tasks DEF CardInv, TasksSound, Sound, ShowCard
<1>1. /\ IInv' /\ Lasting /\ UNCHANGED <<entries, clock, reading, asked, told, spent, ran, ended>>
      /\ task' = [task EXCEPT ![th] = Idle]
  BY <1>0, NextIInv, LedgerLasts DEF vars, ShowCard, Goto
<1>2. TasksSound'
  <2>1. Sound(Idle)'
    BY DEF Sound, Idle, Task
  <2> QED
    BY <1>0, <1>1, <2>1, TasksLast
<1>3. /\ card'[i] = "asking" /\ \A j \in Id : j # i => card'[j] = card[j]
      /\ card' \in [Id -> {"none", "asking", "accepted", "declined", "cancelled"}]
  BY <1>0 DEF ShowCard, CardsOK
<1>4. TimersSound'
  <2>1. /\ DOMAIN due' = DOMAIN due \cup {i}
        /\ \A j \in DOMAIN due' : due'[j] = IF j = i THEN at ELSE due[j]
        /\ due' = [j \in DOMAIN due' |-> due'[j]]
    BY DEF ShowCard
  <2>2. \A j \in DOMAIN due' : due'[j] \in Nat /\ j \in Id /\ Dies(j, due'[j])
    BY <1>0, <2>1 DEF TimersSound
  <2>3. \A j \in DOMAIN due' : Dies(j, due[j])'
    BY <1>1, <2>2 DEF Dies
  <2>4. due' \in [DOMAIN due' -> Nat] /\ DOMAIN due' \subseteq Id
    BY <2>1, <2>2
  <2> QED
    BY <2>3, <2>4 DEF TimersSound
<1>5. CardsOK' /\ CardTellsTheDecision'
  BY <1>0, <1>1, <1>3, DecisionsLast DEF CardsOK
<1>6. WaitingIsAnswerable'
  <2>1. \A u \in Caller : u # th => task'[u] = task[u]
    BY <1>0, <1>1 DEF TasksSound
  <2>2. \A j \in DOMAIN entries' : j \in DOMAIN asked /\ j \in Id
    BY <1>0, <1>1 DEF IInv, History, EntryAsAsked, TypeOK
  <2> QED
    BY <1>0, <1>1, <1>3, <2>1, <2>2, AnswerableLasts
<1> QED
  BY <1>0, <1>1, <1>2, <1>4, <1>5, <1>6 DEF CardInv, ReadingsPast

\* An answer is settled: it was taken, or came when nobody could answer any more.
LEMMA SettleKeeps ==
  ASSUME CardInv, NEW th \in Caller, Settle(th)
  PROVE  CardInv' /\ Next
<1> PICK c, i, granted : c = task[th].chat /\ i = task[th].id /\ granted = task[th].granted
  OBVIOUS
<1>0. /\ IInv /\ task[th].op = "resolve" /\ c \in Chat /\ i \in Id /\ granted \in BOOLEAN
      /\ i \in DOMAIN asked /\ asked[i].chat = c
      /\ UNCHANGED <<card, due>> /\ ended' \subseteq Chat
  BY Tasks DEF CardInv, CardsOK, TasksSound, Sound, Settle
<1>1. CASE Resolve(th, c, i, granted) /\ Goto(th, [op |-> "announce", id |-> i, granted |-> granted])
  <2> PICK t : t = [op |-> "announce", id |-> i, granted |-> granted]
    OBVIOUS
  <2>1. Next
    BY <1>0, <1>1 DEF Next
  <2>2. told[i] = {} /\ DOMAIN entries' \subseteq DOMAIN entries
    BY <1>0, <1>1 DEF IInv, History, EntryAsTold, ToldBy, Resolve, CanResolve, with_usable
  <2>3. told'[i] = {granted}
    BY <1>0, <1>1, <2>2 DEF Resolve, IInv, TypeOK
  <2>4. t \in Task /\ t.op = "announce" /\ t.id = i /\ t.granted = granted
    BY <1>0 DEF Task
  <2>5. Sound(t)'
    BY <2>3, <2>4 DEF Sound
  <2> QED
    BY <1>0, <1>1, <2>1, <2>2, <2>4, <2>5, ThreadGoesOn
<1>2. CASE ResolveRefused(th, c, i) /\ Goto(th, [op |-> "close", id |-> i])
  <2> PICK t : t = [op |-> "close", id |-> i]
    OBVIOUS
  <2>1. Next
    BY <1>0, <1>2 DEF Next
  <2>2. UNCHANGED <<entries, asked, clock>>
    BY <1>2 DEF ResolveRefused, UnderLock
  <2>3. Lapsed(i)
    <3>1. ASSUME i \in DOMAIN entries
          PROVE  entries[i].chat = c /\ entries[i].expires_at \in Nat /\ entries[i].granted \in {"unanswered", "allowed", "refused"}
      <4>1. asked[i] = [chat |-> entries[i].chat, request |-> entries[i].request] /\ entries[i] \in Entry
        BY <1>0, <3>1 DEF IInv, History, EntryAsAsked, TypeOK
      <4> QED
        BY <1>0, <4>1 DEF Entry
    <3>2. clock \in Nat /\ reading[th] \in Nat /\ reading[th] <= clock
      BY <1>2 DEF CardInv, IInv, TypeOK, ReadingsPast, ResolveRefused, UnderLock, NoCall
    <3>3. ~ CanResolve(c, i, reading[th])
      BY <1>2 DEF ResolveRefused
    <3> QED
      BY <1>0, <3>1, <3>2, <3>3 DEF Lapsed, CanResolve, with_usable, expired, is_awaiting
  <2>4. t \in Task /\ t.op = "close" /\ t.id = i
    BY <1>0 DEF Task
  <2>5. Lapsed(i)'
    BY <2>2, <2>3 DEF Lapsed
  <2>6. Sound(t)'
    BY <2>4, <2>5 DEF Sound
  <2> QED
    BY <1>0, <1>2, <2>1, <2>2, <2>4, <2>6, ThreadGoesOn
<1> QED
  BY <1>1, <1>2 DEF Settle

\* What a thread has decided, or found too late, reaches the screens.
LEMMA TellKeeps ==
  ASSUME CardInv, NEW th \in Caller, Announce(th) \/ CloseUnanswerable(th)
  PROVE  CardInv'
<1> DEFINE t == task[th]
           i == t.id
<1>0. IInv /\ TasksSound /\ TimersSound /\ Sound(t) /\ t \in Task /\ i \in Id
  BY Tasks DEF CardInv, TasksSound, Sound, Announce, CloseUnanswerable
<1>1. IInv' /\ Lasting /\ UNCHANGED <<vars, due, ended>> /\ task' = [task EXCEPT ![th] = Idle]
  BY <1>0, NextIInv, LedgerLasts DEF Announce, CloseUnanswerable, Goto
<1>2. TasksSound'
  <2>1. Sound(Idle)'
    BY DEF Sound, Idle, Task
  <2> QED
    BY <1>0, <1>1, <2>1, TasksLast
<1>3. TimersSound'
  BY <1>0, <1>1, TimersLast
<1>4. \A u \in Caller : task[u].op = "show" => task'[u] = task[u]
  BY <1>0, <1>1 DEF TasksSound, Announce, CloseUnanswerable
<1>5. CASE Announce(th)
  <2> DEFINE how == IF t.granted THEN "accepted" ELSE "declined"
  <2>1. t.granted \in BOOLEAN /\ told[i] = {t.granted} /\ Resolved(i, how)
    BY <1>0, <1>5, Tasks DEF Announce, Sound
  <2>2. Lapsed(i)
    BY <1>0, <2>1 DEF IInv, History, EntryAsTold, UnissuedUnused, ToldBy, Lapsed, is_awaiting
  <2>3. how \in {"accepted", "declined"} /\ told[i] = {how = "accepted"}
    BY <2>1
  <2> HIDE DEF how
  <2> QED
    BY <1>0, <1>1, <1>2, <1>3, <1>4, <2>1, <2>2, <2>3, CardCloses
<1>6. CASE CloseUnanswerable(th)
  <2>1. Lapsed(i) /\ Resolved(i, "cancelled")
    BY <1>0, <1>6 DEF CloseUnanswerable, Sound
  <2> QED
    BY <1>0, <1>1, <1>2, <1>3, <1>4, <2>1, CardCloses
<1> QED
  BY <1>5, <1>6

\* A timer runs down when the token has died.
LEMMA TimerKeeps ==
  ASSUME CardInv, NEW i \in Id, TimerFires(i)
  PROVE  CardInv'
<1>0. IInv /\ TasksSound /\ TimersSound /\ i \in DOMAIN due /\ clock > due[i]
  BY DEF CardInv, TimerFires
<1>1. IInv' /\ Lasting /\ UNCHANGED <<vars, task, ended>> /\ Resolved(i, "cancelled")
  BY <1>0, NextIInv, LedgerLasts DEF TimerFires
<1>2. TasksSound'
  <2>1. \A u \in Caller : Sound(task[u])'
    BY <1>0, <1>1 DEF TasksSound, Sound, Dies, Lapsed, vars
  <2> QED
    BY <1>0, <1>1, <2>1 DEF TasksSound
<1>3. TimersSound'
  <2>1. /\ DOMAIN due' = DOMAIN due \ {i} /\ \A j \in DOMAIN due' : due'[j] = due[j]
        /\ due' = [j \in DOMAIN due' |-> due'[j]]
    BY DEF TimerFires, Restrict
  <2> QED
    BY <1>0, <1>1, <2>1 DEF TimersSound, Dies, vars
<1>4. Lapsed(i)
  <2>1. Dies(i, due[i]) /\ due[i] \in Nat /\ clock \in Nat
    BY <1>0 DEF TimersSound, IInv, TypeOK
  <2> QED
    BY <1>0, <2>1 DEF Dies, Lapsed, expired
<1> QED
  BY <1>1, <1>2, <1>3, <1>4, CardCloses

\* A thread takes up an operation, and reads the clock for it.
LEMMA AskKeeps ==
  ASSUME CardInv, NEW th \in Caller,
         \/ \E c \in Chat, r \in Request : Ask(th, c, r)
         \/ \E i \in Id, granted \in BOOLEAN : Press(th, i, granted)
         \/ \E c \in Chat, i \in Id, r \in Request : Present(th, c, i, r)
  PROVE  CardInv' /\ Next
<1> DEFINE Goes(t) ==
      /\ Goto(th, t) /\ t.op \in {"open", "resolve", "consume"}
      /\ t.op = "resolve" => t.id \in DOMAIN asked /\ asked[t.id].chat = t.chat
<1>0. IInv /\ task[th].op = "idle" /\ ended \subseteq Chat
  <2>1. task[th] = Idle
    BY DEF Ask, Press, Present
  <2> QED
    BY <2>1 DEF CardInv, CardsOK, Idle
<1>1. ReadClock(th) /\ UNCHANGED <<entries, asked, card, due, ended>>
  BY DEF Ask, Press, Present, ReadClock
<1>2. Next
  BY <1>1 DEF Next
<1>3. \E t \in Task : Goes(t)
  <2>1. ASSUME NEW c \in Chat, NEW r \in Request, Ask(th, c, r)
        PROVE  \E t \in Task : Goes(t)
    <3> PICK t : t = [op |-> "open", chat |-> c, request |-> r]
      OBVIOUS
    <3>1. t \in Task /\ t.op = "open" /\ Goto(th, t)
      BY <2>1 DEF Task, Ask
    <3> QED
      BY <3>1
  <2>2. ASSUME NEW i \in Id, NEW granted \in BOOLEAN, Press(th, i, granted)
        PROVE  \E t \in Task : Goes(t)
    <3> PICK t : t = [op |-> "resolve", chat |-> asked[i].chat, id |-> i, granted |-> granted]
      OBVIOUS
    <3>1. i \in DOMAIN asked /\ asked[i].chat \in Chat
      BY <1>0, <2>2 DEF Press, IInv, TypeOK, History, EntryAsAsked
    <3>2. t \in Task /\ t.op = "resolve" /\ t.id = i /\ t.chat = asked[i].chat /\ Goto(th, t)
      BY <2>2, <3>1 DEF Task, Press
    <3> QED
      BY <3>1, <3>2
  <2>3. ASSUME NEW c \in Chat, NEW i \in Id, NEW r \in Request, Present(th, c, i, r)
        PROVE  \E t \in Task : Goes(t)
    <3> PICK t : t = [op |-> "consume", chat |-> c, id |-> i, request |-> r]
      OBVIOUS
    <3>1. t \in Task /\ t.op = "consume" /\ Goto(th, t)
      BY <2>3 DEF Task, Present
    <3> QED
      BY <3>1
  <2> QED
    BY <2>1, <2>2, <2>3
<1>4. PICK t \in Task : Goes(t)
  BY <1>3
<1>5. Sound(t)'
  BY <1>1, <1>4 DEF Sound
<1> QED
  BY <1>0, <1>1, <1>2, <1>4, <1>5, ThreadGoesOn

\* A thread ends what it was doing, with no card to show.
LEMMA EndKeeps ==
  ASSUME CardInv, NEW th \in Caller,
         SecretNotKept(th) \/ Presented(th) \/ Stopped(th) \/ \E c \in Chat : Stop(th, c)
  PROVE  CardInv' /\ [Next]_vars
<1>0. /\ IInv /\ task[th] \in Task /\ task[th].op # "show" /\ ended' \subseteq Chat
      /\ UNCHANGED <<card, due>>
  <2>1. task[th] \in Task /\ IInv /\ ended \subseteq Chat
    BY DEF CardInv, CardsOK, TasksSound
  <2>2. CASE SecretNotKept(th) \/ Presented(th)
    BY <2>1, <2>2 DEF SecretNotKept, Presented
  <2>3. CASE Stopped(th)
    BY <2>1, <2>3, Tasks DEF Stopped
  <2>4. ASSUME NEW c \in Chat, Stop(th, c)
        PROVE  task[th].op # "show" /\ ended' \subseteq Chat /\ UNCHANGED <<card, due>>
    BY <2>1, <2>4 DEF Stop, Idle
  <2> QED
    BY <2>1, <2>2, <2>3, <2>4
<1>1. CASE SecretNotKept(th) \/ Presented(th) \/ Stopped(th)
  <2>1. [Next]_vars /\ DOMAIN entries' = DOMAIN entries /\ Goto(th, Idle)
    <3>1. CASE SecretNotKept(th) \/ Stopped(th)
      BY <3>1 DEF SecretNotKept, Stopped, vars
    <3>2. CASE Presented(th)
      <4> PICK c, i, r : c = task[th].chat /\ i = task[th].id /\ r = task[th].request
        OBVIOUS
      <4>1. /\ Consume(th, c, i, r) \/ ConsumeRefused(th, c, i, r)
            /\ Goto(th, Idle) /\ c \in Chat /\ i \in Id /\ r \in Request
        BY <1>0, <3>2, Tasks DEF Presented
      <4>2. Next
        BY <4>1 DEF Next
      <4>3. DOMAIN entries' = DOMAIN entries
        BY <4>1 DEF Consume, ConsumeRefused
      <4> QED
        BY <4>1, <4>2, <4>3
    <3> QED
      BY <1>1, <3>1, <3>2
  <2>2. Sound(Idle)'
    BY DEF Sound, Idle, Task
  <2> QED
    BY <1>0, <2>1, <2>2, ThreadGoesOn
<1>2. ASSUME NEW c \in Chat, Stop(th, c)
      PROVE  CardInv' /\ [Next]_vars
  <2> PICK t : t = [op |-> "end", chat |-> c]
    OBVIOUS
  <2>1. Next /\ Goto(th, t)
    BY <1>2 DEF Next, Stop
  <2>2. DOMAIN entries' \subseteq DOMAIN entries
    BY <1>2 DEF Stop, discard_chat, Restrict
  <2>3. t \in Task /\ t.op = "end"
    BY DEF Task
  <2>4. Sound(t)'
    BY <2>3 DEF Sound
  <2> QED
    BY <1>0, <2>1, <2>2, <2>4, ThreadGoesOn
<1> QED
  BY <1>1, <1>2

\* The clock, or a conversation that ends by itself.
LEMMA RestKeeps ==
  ASSUME CardInv, CardTick \/ (\E c \in Chat : EndsOtherwise(c)) \/ UNCHANGED allVars
  PROVE  CardInv' /\ [Next]_vars
<1>1. /\ [Next]_vars /\ DOMAIN entries' \subseteq DOMAIN entries
      /\ UNCHANGED <<task, card, due>> /\ ended' \subseteq Chat
  BY DEF CardInv, CardsOK, CardTick, Tick, EndsOtherwise, Next, vars, cardVars, allVars
<1> QED
  BY <1>1, StillStep

-----------------------------------------------------------------------------
LEMMA InitCards == CardInit => CardInv
<1> SUFFICES ASSUME CardInit PROVE CardInv
  OBVIOUS
<1>1. Init /\ DOMAIN entries = {}
  BY DEF CardInit, Init
<1>2. IInv
  BY <1>1, InitIInv
<1>3. TasksSound
  BY DEF CardInit, TasksSound, Sound, Idle, Task
<1>4. ReadingsPast
  BY <1>1 DEF Init, ReadingsPast, NoCall
<1>5. CardsOK /\ CardTellsTheDecision
  BY DEF CardInit, CardsOK, CardTellsTheDecision
<1>6. DOMAIN due = {} /\ due = [i \in {} |-> due[i]]
  BY DEF CardInit
<1>7. TimersSound
  BY <1>6 DEF TimersSound
<1>8. WaitingIsAnswerable
  BY <1>1 DEF WaitingIsAnswerable
<1> QED
  BY <1>2, <1>3, <1>4, <1>5, <1>7, <1>8 DEF CardInv

\* Every step of the cards keeps the invariant, and is a step of the ledger or none of it.
LEMMA NextCards == CardInv /\ [CardNext]_allVars => CardInv' /\ [Next]_vars
<1> SUFFICES ASSUME CardInv, [CardNext]_allVars PROVE CardInv' /\ [Next]_vars
  OBVIOUS
<1>1. ASSUME NEW th \in Caller, ThreadStep(th) PROVE CardInv' /\ [Next]_vars
  <2>1. CASE Opened(th)
    BY <2>1, OpenKeeps
  <2>2. CASE ShowCard(th)
    BY <2>2, ShowKeeps DEF ShowCard
  <2>3. CASE Settle(th)
    BY <2>3, SettleKeeps
  <2>4. CASE Announce(th) \/ CloseUnanswerable(th)
    BY <2>4, TellKeeps DEF Announce, CloseUnanswerable
  <2>5. CASE SecretNotKept(th) \/ Presented(th) \/ Stopped(th)
    BY <2>5, EndKeeps
  <2> QED
    BY <1>1, <2>1, <2>2, <2>3, <2>4, <2>5 DEF ThreadStep
<1>2. ASSUME NEW i \in Id, TimerFires(i) PROVE CardInv' /\ [Next]_vars
  BY <1>2, TimerKeeps DEF TimerFires
<1>3. ASSUME NEW th \in Caller, NEW c \in Chat, Stop(th, c) PROVE CardInv' /\ [Next]_vars
  BY <1>3, EndKeeps
<1> QED
  BY <1>1, <1>2, <1>3, AskKeeps, RestKeeps DEF CardNext

-----------------------------------------------------------------------------
(* What a thread is about to do, and what a timer is armed for, is still   *)
(* right when it happens, whatever the ledger did in between (chat.rs).    *)
THEOREM CardInvariant == CardSpec => []CardInv
BY InitCards, NextCards, PTL DEF CardSpec

(* The cards use the ledger by its operations only: so every theorem about *)
(* Spec holds of the conversation too, with the clock read in one step and *)
(* the lock taken in a later one (approval_ledger.rs).                     *)
THEOREM CardsUseTheLedger == CardSpec => Spec
<1>1. CardInit => Init
  BY DEF CardInit
<1> QED
  BY <1>1, CardInvariant, NextCards, PTL DEF CardSpec, Spec

(* Type correctness of the cards, the timers and the threads (chat.rs).    *)
THEOREM CardsTypeOK == CardSpec => []CardTypeOK
<1>1. CardInv => CardTypeOK
  BY DEF CardInv, CardTypeOK, IInv, TasksSound, CardsOK, TimersSound
<1> QED
  BY <1>1, CardInvariant, PTL

(* No screen shows a permission that was not given, or a refusal that was  *)
(* not, however many screens answer, and however late they are             *)
(* (settle_one_shot_approval).                                             *)
THEOREM CardsTellTheDecision == CardSpec => []CardTellsTheDecision
<1>1. CardInv => CardTellsTheDecision
  BY DEF CardInv
<1> QED
  BY <1>1, CardInvariant, PTL

(* A token that waits for an answer can be answered: no timer of an older  *)
(* card, no late answer and no sweep takes its buttons away                *)
(* (emit_one_shot_approval_card, spawn_one_shot_approval_expiry).          *)
THEOREM WaitingStaysAnswerable == CardSpec => []WaitingIsAnswerable
<1>1. CardInv => WaitingIsAnswerable
  BY DEF CardInv
<1> QED
  BY <1>1, CardInvariant, PTL
=============================================================================
