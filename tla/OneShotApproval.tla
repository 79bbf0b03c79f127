--------------------------- MODULE OneShotApproval ---------------------------
(***************************************************************************)
(* The approval card of a conversation around the ledger: chat.rs opens a  *)
(* token, shows a card, arms a timer that closes it, records the answer,   *)
(* and tells the screen.  Each of these is a step of its own, so the       *)
(* tool-call threads of the agent, the threads that bring an answer, the   *)
(* timers and the thread that stops a conversation interleave between them.*)
(*                                                                         *)
(* `card` is what every screen shows: the fold of the event stream, as     *)
(* ChatEventStream.tsx folds it.                                           *)
(***************************************************************************)
EXTENDS ApprovalLedger

CONSTANT LastOpen  \* bound of the model: no request is opened after it

ASSUME CardAssumption == LastOpen \in Nat /\ LastOpen + TTL < MaxClock

VARIABLES
  task,   \* what each thread is doing
  card,   \* the card of each id on the screen
  due,    \* armed expiry timers: the expiry of the ids that have one
  ended   \* the conversations whose runtime is Stopped or Failed

cardVars == <<task, card, due, ended>>
allVars == <<vars, cardVars>>

Idle == [op |-> "idle"]

Task ==
  {Idle}
    \cup [op : {"open"}, chat : Chat, request : Request]
    \cup [op : {"show"}, id : Id, expires_at : Nat]
    \cup [op : {"resolve"}, chat : Chat, id : Id, granted : BOOLEAN]
    \cup [op : {"announce"}, id : Id, granted : BOOLEAN]
    \cup [op : {"close"}, id : Id]
    \cup [op : {"consume"}, chat : Chat, id : Id, request : Request]
    \cup [op : {"end"}, chat : Chat]

CardTypeOK ==
  /\ TypeOK
  /\ task \in [Caller -> Task]
  /\ card \in [Id -> {"none", "asking", "accepted", "declined", "cancelled"}]
  /\ due \in [DOMAIN due -> Nat] /\ DOMAIN due \subseteq Id
  /\ ended \subseteq Chat

CardInit ==
  /\ Init
  /\ task = [th \in Caller |-> Idle]
  /\ card = [i \in Id |-> "none"]
  /\ due = << >>
  /\ ended = {}

Goto(th, t) == task' = [task EXCEPT ![th] = t]

-----------------------------------------------------------------------------
(* The agent asks: open_db_approval, open_ssh_approval.  The runtime is    *)
(* looked up in the registry, which stopped conversations never leave.     *)
Ask(th, c, r) ==
  /\ task[th] = Idle
  /\ clock <= LastOpen
  /\ ReadClock(th)
  /\ Goto(th, [op |-> "open", chat |-> c, request |-> r])
  /\ UNCHANGED <<card, due, ended>>

Opened(th) ==
  /\ task[th].op = "open"
  /\ LET c == task[th].chat
         r == task[th].request
     IN \/ OpenRefused(th, c, r) /\ Goto(th, Idle)
        \/ \E i \in Id : /\ OpenExisting(th, c, r, i) \/ OpenNew(th, c, r, i)
                         /\ Goto(th, [op |-> "show", id |-> i, expires_at |-> entries'[i].expires_at])
  /\ UNCHANGED <<card, due, ended>>

\* Mutant: no timer is armed.
ShowCardNoTimer(th) ==
  /\ task[th].op = "show"
  /\ card' = [card EXCEPT ![task[th].id] = "asking"]
  /\ Goto(th, Idle)
  /\ UNCHANGED <<vars, due, ended>>

\* Mutant: the timer is given the time that is left, not cut off at zero.
ShowCardTimeLeft(th) ==
  /\ task[th].op = "show"
  /\ LET i == task[th].id IN
     /\ card' = [card EXCEPT ![i] = "asking"]
     /\ due' = [j \in DOMAIN due \cup {i} |-> IF j = i THEN task[th].expires_at - clock ELSE due[j]]
  /\ Goto(th, Idle)
  /\ UNCHANGED <<vars, ended>>

\* emit_one_shot_approval_card: the screen puts up the card, in place of
\* any card of the same id, and a timer is armed for the moment it expires.
ShowCard(th) ==
  /\ task[th].op = "show"
  /\ LET i == task[th].id IN
     /\ card' = [card EXCEPT ![i] = "asking"]
     /\ due' = [j \in DOMAIN due \cup {i} |-> IF j = i THEN task[th].expires_at ELSE due[j]]
  /\ Goto(th, Idle)
  /\ UNCHANGED <<vars, ended>>

-----------------------------------------------------------------------------
(* A screen answers: approve, resolve_db_approval, resolve_ssh_approval.   *)
(* Only a card that shows its buttons is pressed; an id the ledger does    *)
(* not own goes to the provider's approvals, where it is unknown.          *)
Press(th, i, granted) ==
  /\ task[th] = Idle
  /\ card[i] = "asking"
  /\ i \in DOMAIN entries
  /\ ReadClock(th)
  /\ Goto(th, [op |-> "resolve", chat |-> asked[i].chat, id |-> i, granted |-> granted])
  /\ UNCHANGED <<card, due, ended>>

\* Mutant: an answer that came too late is announced all the same.
SettleAnyway(th) ==
  /\ task[th].op = "resolve"
  /\ LET t == task[th] IN
     /\ Resolve(th, t.chat, t.id, t.granted) \/ ResolveRefused(th, t.chat, t.id)
     /\ Goto(th, [op |-> "announce", id |-> t.id, granted |-> t.granted])
  /\ UNCHANGED <<card, due, ended>>

\* settle_one_shot_approval: a decision is announced; one that came too
\* late closes the card.
Settle(th) ==
  /\ task[th].op = "resolve"
  /\ LET t == task[th]
     IN \/ Resolve(th, t.chat, t.id, t.granted)
           /\ Goto(th, [op |-> "announce", id |-> t.id, granted |-> t.granted])
        \/ ResolveRefused(th, t.chat, t.id)
           /\ Goto(th, [op |-> "close", id |-> t.id])
  /\ UNCHANGED <<card, due, ended>>

\* resolveChatApprovalInTurn: the first resolution a card gets stays.
Resolved(i, how) == card' = [card EXCEPT ![i] = IF @ = "asking" THEN how ELSE @]

Announce(th) ==
  /\ task[th].op = "announce"
  /\ Resolved(task[th].id, IF task[th].granted THEN "accepted" ELSE "declined")
  /\ Goto(th, Idle)
  /\ UNCHANGED <<vars, due, ended>>

\* resolve_ssh_approval: the password that came with a permission cannot
\* be kept (ssh_secrets.store); the call fails and nothing is announced.
SecretNotKept(th) ==
  /\ task[th].op = "announce"
  /\ task[th].granted
  /\ Goto(th, Idle)
  /\ UNCHANGED <<vars, card, due, ended>>

CloseUnanswerable(th) ==
  /\ task[th].op = "close"
  /\ Resolved(task[th].id, "cancelled")
  /\ Goto(th, Idle)
  /\ UNCHANGED <<vars, due, ended>>

\* Mutant: the timer runs down one tick early.
TimerFiresEarly(i) ==
  /\ i \in DOMAIN due
  /\ clock + 1 >= due[i]
  /\ Resolved(i, "cancelled")
  /\ due' = Restrict(due, DOMAIN due \ {i})
  /\ UNCHANGED <<vars, task, ended>>

\* spawn_one_shot_approval_expiry: strictly after the token has died.
TimerFires(i) ==
  /\ i \in DOMAIN due
  /\ clock > due[i]
  /\ Resolved(i, "cancelled")
  /\ due' = Restrict(due, DOMAIN due \ {i})
  /\ UNCHANGED <<vars, task, ended>>

-----------------------------------------------------------------------------
(* The agent presents the token again: consume_db_approval,                *)
(* consume_ssh_approval.  Any conversation may present any id it has seen. *)
Present(th, c, i, r) ==
  /\ task[th] = Idle
  /\ i \in DOMAIN asked
  /\ ReadClock(th)
  /\ Goto(th, [op |-> "consume", chat |-> c, id |-> i, request |-> r])
  /\ UNCHANGED <<card, due, ended>>

Presented(th) ==
  /\ task[th].op = "consume"
  /\ LET t == task[th]
     IN \/ Consume(th, t.chat, t.id, t.request)
        \/ ConsumeRefused(th, t.chat, t.id, t.request)
  /\ Goto(th, Idle)
  /\ UNCHANGED <<card, due, ended>>

-----------------------------------------------------------------------------
\* stop, stop_managed: the tokens go first, the runtime after.
Stop(th, c) ==
  /\ task[th] = Idle
  /\ c \notin ended
  /\ discard_chat(c)
  /\ Goto(th, [op |-> "end", chat |-> c])
  /\ UNCHANGED <<card, due, ended>>

Stopped(th) ==
  /\ task[th].op = "end"
  /\ ended' = ended \cup {task[th].chat}
  /\ Goto(th, Idle)
  /\ UNCHANGED <<vars, card, due>>

\* The other ways a conversation ends: stop_aia_chats_other_than,
\* stop_provider_chats, a watchdog, the provider's exit.
EndsOtherwise(c) ==
  /\ c \notin ended
  /\ ended' = ended \cup {c}
  /\ UNCHANGED <<vars, task, card, due>>

CardTick == Tick /\ UNCHANGED cardVars

ThreadStep(th) ==
  \/ Opened(th) \/ ShowCard(th) \/ Settle(th) \/ Announce(th)
  \/ SecretNotKept(th) \/ CloseUnanswerable(th) \/ Presented(th) \/ Stopped(th)

CardNext ==
  \/ CardTick
  \/ \E th \in Caller :
       \/ ThreadStep(th)
       \/ \E c \in Chat, r \in Request : Ask(th, c, r)
       \/ \E i \in Id, granted \in BOOLEAN : Press(th, i, granted)
       \/ \E c \in Chat, i \in Id, r \in Request : Present(th, c, i, r)
       \/ \E c \in Chat : Stop(th, c)
  \/ \E i \in Id : TimerFires(i)
  \/ \E c \in Chat : EndsOtherwise(c)

CardSpec == CardInit /\ [][CardNext]_allVars

\* The clock runs, and no thread is left unscheduled for ever.
Fairness ==
  /\ WF_allVars(CardTick)
  /\ \A th \in Caller : WF_allVars(ThreadStep(th))
  /\ \A i \in Id : WF_allVars(TimerFires(i))

FairSpec == CardSpec /\ Fairness

-----------------------------------------------------------------------------
(* A card never stays on the screen for good: whatever became of its token *)
(* (answered elsewhere, expired, swept, discarded with its conversation),  *)
(* a timer or an answer closes it (spawn_one_shot_approval_expiry).        *)
EveryCardCloses == \A i \in Id : card[i] = "asking" ~> card[i] # "asking"

(* What the card says was decided is what the ledger recorded: no screen   *)
(* ever shows a permission that was not given, or a refusal that was not.  *)
CardTellsTheDecision ==
  \A i \in Id : /\ card[i] = "accepted" => told[i] = {TRUE}
                /\ card[i] = "declined" => told[i] = {FALSE}

(* While a token waits for an answer the user can give it: its card shows  *)
(* its buttons, or the thread that opened it is about to put it up.  No    *)
(* timer, late answer or sweep takes the card away from a live token.      *)
WaitingIsAnswerable ==
  \A i \in DOMAIN entries :
    is_awaiting(entries[i]) /\ ~ expired(entries[i], clock) =>
      \/ card[i] = "asking"
      \/ \E th \in Caller : task[th].op = "show" /\ task[th].id = i
=============================================================================
