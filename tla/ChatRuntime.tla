---------------------------- MODULE ChatRuntime ----------------------------
(***************************************************************************)
(* One Claude conversation: ChatRuntime of chat.rs with the threads that   *)
(* work on it, the CLI process it supervises and the two pipes between.    *)
(*                                                                         *)
(* A call of the code is a list of lock sections, pipe writes and events,  *)
(* and the state lock is free between them.  A thread is therefore the     *)
(* list of the steps it has still to take (`todo`); a step takes its head  *)
(* and may put further steps in its place.  What a step carries was read   *)
(* earlier and may be stale by the time it is used, as in the code.        *)
(*                                                                         *)
(* Texts are the messages themselves, a turn is its number.  Left out:     *)
(* what is drawn, tool cards, session metadata, permission modes.          *)
(***************************************************************************)
EXTENDS Integers, FiniteSets, Functions, SequencesExt

CONSTANTS
  Msg,                  \* messages; every one is sent by a user once
  Ask,                  \* permission requests of the CLI
  Client,               \* threads that bring the users' calls
  MAX_QUEUED_MESSAGES,  \* limit of the queue, and of the inputs kept for a resume
  PIPE,                 \* frames the CLI's stdin takes unread; the next write waits
  Budgets               \* bounds of the model: how often each kind of event may happen

Reader == "reader"      \* reads the CLI's stdout, one frame after the other
Monitor == "monitor"    \* polls the child process
Dog == "dog"            \* a watchdog that has lost patience
Thread == Client \cup {Reader, Monitor, Dog}
NoOne == "none"

Kind == {"steer", "stop", "interrupt", "remove",             \* users
         "gone", "hang", "stubborn",                         \* files, clocks, processes
         "ask", "limit", "error", "exit", "wake", "refuse", "freeze"}         \* the CLI
AnyKind == "any"        \* events of all these kinds together
Sending == "send"       \* messages sent at all

ASSUME RuntimeAssumption ==
  /\ MAX_QUEUED_MESSAGES \in Nat /\ PIPE \in Nat \ {0}
  /\ Ask \cap {"idle", "thinking", "speaking"} = {}  \* what the CLI does, or a request, never both
  /\ \A budget \in Budgets : budget \in [Kind \cup {AnyKind, Sending} -> Nat]

VARIABLES
  s,          \* RuntimeState, behind its lock
  stdin,      \* the write end of the CLI's stdin is open
  pen,        \* the thread that waits inside a write, with the lock of stdin
  slot,       \* the child handle: "held", "locked" while a stop waits for it, "empty"
  lease,      \* the account's runtime lease is out
  armed,      \* turns whose first sign of life a watchdog still waits for
  impatient,  \* an interrupt watchdog runs
  todo,       \* what each thread has still to do
  events      \* the budget of this behaviour and what has happened

VARIABLES  \* the CLI and the pipes
  exit,       \* "no" or "hung" while the process runs, then its status
  cli,        \* what the CLI is doing; a request while it waits for the answer
  fresh,      \* requests the CLI has not made yet
  backlog,    \* messages the CLI keeps for a turn of its own
  inbox,      \* its stdin, unread
  outbox      \* its stdout, unread

VARIABLES  \* history
  told,       \* what the sender of each message knows of it
  lined,      \* messages in the order they were let in
  handed,     \* messages in the order they were written to the CLI
  answered,   \* permission requests in the order an answer was written
  stops       \* what has begun to stop the conversation

process == <<stdin, pen, slot, lease>>
dogs == <<armed, impatient>>
external == <<exit, cli, fresh, backlog, inbox, outbox>>
history == <<told, lined, handed, answered, stops>>
vars == <<s, process, dogs, todo, events, external, history>>

Active == {"running", "waitingApproval"}
Terminal == {"stopped", "failed"}
Phase == {"ready"} \cup Active \cup Terminal
Status == {"completed", "failed", "interrupted"}
Decision == {"accept", "cancel", "acceptAll"}
Held == [text : SUBSET Msg, started : BOOLEAN]

Step ==
  [op : {"drain", "unclaim", "clear_turn", "unflag", "progress", "discard", "preserve", "adopt",
         "cancel", "close_stdin", "kill", "reap", "release", "release_child", "release_stdin", "judge",
         "write_interrupt"}]
    \cup [op : {"open_turn", "write_turn"}, msg : Msg, turn : Nat, back : BOOLEAN]
    \cup [op : {"deliver", "write_delivery", "forget", "requeue", "refuse"}, msg : Msg]
    \cup [op : {"answer"}, ask : Ask, decision : Decision]
    \cup [op : {"note"}, decision : Decision]
    \cup [op : {"reinsert"}, ask : Ask]
    \cup [op : {"respond"}, asks : SUBSET Ask]
    \cup [op : {"set_phase"}, phase : Phase]
    \cup [op : {"emit_turn"}, status : Status]
    \cup [op : {"turn_event"}, turn : Nat, status : Status]
    \cup [op : {"error"}, limit : BOOLEAN]
    \cup [op : {"clear"}, terminated : BOOLEAN]

\* Frames of the two pipes.
Message == [kind : {"message"}, msg : Msg, tracked : BOOLEAN]
Input == Message \cup [kind : {"interrupt"}] \cup [kind : {"answer"}, ask : Ask, decision : Decision]
Output ==
  [kind : {"content"}, limit : BOOLEAN]
    \cup [kind : {"result"}, result : {"ok", "error", "limit", "aborted"}]
    \cup [kind : {"lifecycle"}, msg : Msg, state : {"queued", "started", "cancelled"}]
    \cup [kind : {"ask", "cancel"}, ask : Ask]
    \cup [kind : {"refusal"}]

\* How far the CLI is with each message steered into the running turn.
Deliveries == UNION {[M -> {"sent", "queued", "started"}] : M \in SUBSET Msg}

RuntimeState ==
  [phase : Phase, turn : Nat, claims : Nat, input : SUBSET Msg, queue : Seq(Msg),
   delivered : Deliveries, approvals : SUBSET Ask, interrupting : BOOLEAN, held : Seq(Held)]

StateOK ==
  /\ s \in RuntimeState /\ s.turn <= s.claims
  /\ armed \subseteq 1 .. s.claims /\ impatient \in BOOLEAN
ProcessOK ==
  /\ stdin \in BOOLEAN /\ pen \in Thread \cup {NoOne}
  /\ slot \in {"held", "locked", "empty"} /\ lease \in BOOLEAN
CliOK ==
  /\ exit \in {"no", "hung", "ok", "bad"} /\ cli \in {"idle", "thinking", "speaking"} \cup Ask
  /\ fresh \subseteq Ask /\ backlog \in Seq(Message) /\ inbox \in Seq(Input) /\ outbox \in Seq(Output)
HistoryOK ==
  /\ told \in [Msg -> {"unsent", "sending", "accepted", "refused", "removed"}]
  /\ lined \in Seq(Msg) /\ handed \in Seq(Msg) /\ answered \in Seq(Ask)
  /\ stops \subseteq {"user", "watchdog", "limit"}
  /\ events \in [budget : Budgets, count : [Kind \cup {AnyKind} -> Nat], resent : BOOLEAN]

TypeOK == StateOK /\ ProcessOK /\ CliOK /\ HistoryOK /\ todo \in [Thread -> Seq(Step)]

Init ==
  /\ s = [phase |-> "ready", turn |-> 0, claims |-> 0, input |-> {}, queue |-> << >>,
          delivered |-> << >>, approvals |-> {}, interrupting |-> FALSE, held |-> << >>]
  /\ stdin = TRUE /\ pen = NoOne /\ slot = "held" /\ lease = TRUE
  /\ armed = {} /\ impatient = FALSE
  /\ todo = [th \in Thread |-> << >>]
  /\ events \in [budget : Budgets, count : {[k \in Kind \cup {AnyKind} |-> 0]}, resent : {FALSE}]
  /\ exit = "no" /\ cli = "idle" /\ fresh = Ask /\ backlog = << >> /\ inbox = << >> /\ outbox = << >>
  /\ told = [m \in Msg |-> "unsent"]
  /\ lined = << >> /\ handed = << >> /\ answered = << >>
  /\ stops = {}

-----------------------------------------------------------------------------
(* Threads and their steps.                                                *)

At(th, op) == todo[th] # << >> /\ Head(todo[th]).op = op
Now(th) == Head(todo[th])
Then(th, steps) == todo' = [todo EXCEPT ![th] = steps \o Tail(@)]
Begin(th, steps) == todo[th] = << >> /\ todo' = [todo EXCEPT ![th] = steps]
Happened(kind) == events.count[kind] > 0
Counted(count, kind) == [count EXCEPT ![kind] = @ + 1, ![AnyKind] = @ + 1]
Spend(kind) ==
  /\ \A k \in {kind, AnyKind} : events.count[k] < events.budget[k]
  /\ events' = [events EXCEPT !.count = Counted(@, kind)]

Do(op) == <<[op |-> op]>>
EmitTurn(status) == <<[op |-> "emit_turn", status |-> status]>>
SetPhase(p) == <<[op |-> "set_phase", phase |-> p]>>
ForMsg(op, m) == <<[op |-> op, msg |-> m]>>
OpenTurn(m, t, back) == <<[op |-> "open_turn", msg |-> m, turn |-> t, back |-> back]>>

\* Mutant: the end of its input is thought to be enough for the CLI to go.
StopPolitely == Do("cancel") \o Do("close_stdin") \o <<[op |-> "clear", terminated |-> TRUE]>>

\* stop_with_escalation
StopSteps == Do("cancel") \o Do("close_stdin") \o Do("kill")

\* write_json holds the lock of stdin until the pipe has taken the frame or
\* turns out to have no reader.
Alive == exit \in {"no", "hung"}
CanWrite == stdin /\ Alive
Full == CanWrite /\ Len(inbox) >= PIPE
Writing(th, op) == At(th, op) /\ pen \in {NoOne, th} /\ ~Full /\ pen' = NoOne

Wait(th) ==
  /\ \E op \in {"write_turn", "write_delivery", "write_interrupt", "answer", "respond"} : At(th, op)
  /\ pen = NoOne /\ Full
  /\ pen' = th
  /\ UNCHANGED <<s, stdin, slot, lease, dogs, todo, events, external, history>>

Texts(held) == UNION {h.text : h \in ToSet(held)}

approval_phase(asks) == IF asks = {} THEN "running" ELSE "waitingApproval"

\* Mutant: the turn is numbered and not counted.
claim_turnAgain(st, texts) == [st EXCEPT !.phase = "running", !.turn = st.claims + 1, !.input = texts]

claim_turn(st, texts) ==
  [st EXCEPT !.phase = "running", !.claims = @ + 1, !.turn = st.claims + 1, !.input = texts]

-----------------------------------------------------------------------------
(* send: one lock section decides.                                         *)

Unsent(m) ==
  told[m] = "unsent" /\ Cardinality({x \in Msg : told[x] # "unsent"}) < events.budget[Sending]

\* Mutant: a message goes first though others wait.
CanStartAhead == s.phase = "ready"

CanStart == s.phase = "ready" /\ s.queue = << >>

SendRefused(th, m) ==
  /\ Unsent(m) /\ todo[th] = << >>
  /\ \/ s.phase \in Terminal
     \/ ~CanStart  \* full, or the caller does not wait
  /\ told' = [told EXCEPT ![m] = "refused"]
  /\ UNCHANGED <<s, process, dogs, todo, events, external, lined, handed, answered, stops>>

SendStart(th, m) ==
  /\ Unsent(m)
  /\ CanStart
  /\ s' = claim_turn(s, {m})
  /\ Begin(th, OpenTurn(m, s.claims + 1, FALSE))
  /\ told' = [told EXCEPT ![m] = "sending"]
  /\ lined' = Append(lined, m)
  /\ UNCHANGED <<process, dogs, events, external, handed, answered, stops>>

MayQueue == /\ s.phase \notin Terminal /\ ~CanStart
            /\ Len(s.queue) < MAX_QUEUED_MESSAGES

can_deliver_into_active_turn == s.phase \in Active /\ s.queue = << >>

SendDeliver(th, m) ==
  /\ Unsent(m)
  /\ MayQueue
  /\ can_deliver_into_active_turn
  /\ Spend("steer")
  /\ Begin(th, ForMsg("deliver", m))
  /\ told' = [told EXCEPT ![m] = "sending"]
  /\ lined' = Append(lined, m)
  /\ UNCHANGED <<s, process, dogs, external, handed, answered, stops>>

SendQueue(th, m) ==
  /\ Unsent(m)
  /\ MayQueue
  /\ s' = [s EXCEPT !.queue = Append(@, m)]
  /\ Begin(th, Do("drain"))
  /\ told' = [told EXCEPT ![m] = "accepted"]
  /\ lined' = Append(lined, m)
  /\ UNCHANGED <<process, dogs, events, external, handed, answered, stops>>

\* drain_queue: pop and claim in one lock section.
Drain(th) ==
  /\ At(th, "drain")
  /\ IF s.phase = "ready" /\ s.queue # << >>
     THEN /\ s' = claim_turn([s EXCEPT !.queue = Tail(@)], {Head(s.queue)})
          /\ Then(th, OpenTurn(Head(s.queue), s.claims + 1, TRUE))
     ELSE Then(th, << >>) /\ UNCHANGED s
  /\ UNCHANGED <<process, dogs, events, external, history>>

remove_queued(th, i) ==
  /\ todo[th] = << >>
  /\ i \in DOMAIN s.queue
  /\ Spend("remove")
  /\ s' = [s EXCEPT !.queue = RemoveAt(@, i)]
  /\ told' = [told EXCEPT ![s.queue[i]] = "removed"]
  /\ UNCHANGED <<process, dogs, todo, external, lined, handed, answered, stops>>

\* run_claimed_turn: a turn that cannot be written is undone and reported as failed.
FailTurn(step) ==
  Do("unclaim") \o <<[op |-> "error", limit |-> FALSE]>> \o EmitTurn("failed")
    \o ForMsg(IF step.back THEN "requeue" ELSE "refuse", step.msg)

\* The baseline of the watchdog is read before the message is made and written.
OpenedTurn(th) ==
  /\ At(th, "open_turn")
  /\ \/ /\ Then(th, <<[Now(th) EXCEPT !.op = "write_turn"]>>)
        /\ armed' = armed \cup {Now(th).turn}
        /\ UNCHANGED events
     \/ /\ Spend("gone")
        /\ Then(th, FailTurn(Now(th)))
        /\ UNCHANGED armed
  /\ UNCHANGED <<s, process, impatient, external, history>>

\* send_claude_turn
WriteTurn(th) ==
  /\ Writing(th, "write_turn")
  /\ LET m == Now(th).msg IN
     IF CanWrite
     THEN /\ inbox' = Append(inbox, [kind |-> "message", msg |-> m, tracked |-> FALSE])
          /\ handed' = Append(handed, m)
          /\ told' = [told EXCEPT ![m] = "accepted"]
          /\ Then(th, << >>)
          /\ UNCHANGED armed
     ELSE /\ armed' = armed \ {Now(th).turn}
          /\ Then(th, FailTurn(Now(th)))
          /\ UNCHANGED <<inbox, handed, told>>
  /\ UNCHANGED <<s, stdin, slot, lease, impatient, events, exit, cli, fresh, backlog, outbox, lined, answered, stops>>

Unclaim(th) ==
  /\ At(th, "unclaim")
  /\ s' = [s EXCEPT !.phase = "ready", !.input = {}]
  /\ Then(th, << >>)
  /\ UNCHANGED <<process, dogs, events, external, history>>

\* Mutant: a message that could not be sent is dropped.
requeue_nowhere(th) ==
  /\ At(th, "requeue")
  /\ Then(th, << >>)
  /\ UNCHANGED <<s, process, dogs, events, external, history>>

requeue_front(th) ==
  /\ At(th, "requeue")
  /\ s' = [s EXCEPT !.queue = <<Now(th).msg>> \o @]
  /\ Then(th, << >>)
  /\ events' = [events EXCEPT !.resent = @ \/ Now(th).msg \in Texts(s.held)]
  /\ UNCHANGED <<process, dogs, external, history>>

Refuse(th) ==
  /\ At(th, "refuse")
  /\ told' = [told EXCEPT ![Now(th).msg] = "refused"]
  /\ Then(th, << >>)
  /\ UNCHANGED <<s, process, dogs, events, external, lined, handed, answered, stops>>

-----------------------------------------------------------------------------
(* deliver_claude_into_active_turn: track, write, or undo the tracking.    *)
Deliver(th) ==
  /\ At(th, "deliver")
  /\ LET m == Now(th).msg IN
     \/ /\ s' = [s EXCEPT !.delivered = [x \in DOMAIN @ \cup {m} |-> IF x = m THEN "sent" ELSE @[x]]]
        /\ Then(th, ForMsg("write_delivery", m))
        /\ UNCHANGED events
     \/ /\ Spend("gone")
        /\ Then(th, ForMsg("refuse", m))
        /\ UNCHANGED s
  /\ UNCHANGED <<process, dogs, external, history>>

WriteDelivery(th) ==
  /\ Writing(th, "write_delivery")
  /\ LET m == Now(th).msg IN
     IF CanWrite
     THEN /\ inbox' = Append(inbox, [kind |-> "message", msg |-> m, tracked |-> TRUE])
          /\ handed' = Append(handed, m)
          /\ told' = [told EXCEPT ![m] = "accepted"]
          /\ Then(th, << >>)
     ELSE /\ Then(th, ForMsg("forget", m) \o ForMsg("refuse", m))
          /\ UNCHANGED <<inbox, handed, told>>
  /\ UNCHANGED <<s, stdin, slot, lease, dogs, events, exit, cli, fresh, backlog, outbox, lined, answered, stops>>

Without(f, S) == Restrict(f, DOMAIN f \ S)

forget_delivery(th) ==
  /\ At(th, "forget")
  /\ s' = [s EXCEPT !.delivered = Without(@, {Now(th).msg})]
  /\ Then(th, << >>)
  /\ UNCHANGED <<process, dogs, events, external, history>>

-----------------------------------------------------------------------------
(* approve.  A card somebody else answered is passed over in silence.      *)
\* Mutant: the card is looked up and left where it is.
ApproveLooks(th, a, d) ==
  /\ a \in s.approvals
  /\ Begin(th, IF d = "acceptAll" THEN <<[op |-> "reinsert", ask |-> a]>>
                                  ELSE <<[op |-> "answer", ask |-> a, decision |-> d]>>)
  /\ UNCHANGED <<s, process, dogs, events, external, history>>

Approve(th, a, d) ==
  /\ a \in s.approvals
  /\ s' = [s EXCEPT !.approvals = @ \ {a}]
  /\ Begin(th, IF d = "acceptAll" THEN <<[op |-> "reinsert", ask |-> a]>>
                                  ELSE <<[op |-> "answer", ask |-> a, decision |-> d]>>)
  /\ UNCHANGED <<process, dogs, events, external, history>>

WriteAnswer(th) ==
  /\ Writing(th, "answer")
  /\ LET a == Now(th).ask
         d == Now(th).decision
     IN IF CanWrite
        THEN /\ inbox' = Append(inbox, [kind |-> "answer", ask |-> a, decision |-> d])
             /\ answered' = Append(answered, a)
             /\ Then(th, <<[op |-> "note", decision |-> d]>>)
        ELSE /\ Then(th, <<[op |-> "reinsert", ask |-> a]>>)
             /\ UNCHANGED <<inbox, answered>>
  /\ UNCHANGED <<s, stdin, slot, lease, dogs, events, exit, cli, fresh, backlog, outbox, told, lined, handed, stops>>

Reinsert(th) ==
  /\ At(th, "reinsert")
  /\ s' = [s EXCEPT !.approvals = @ \cup {Now(th).ask}]
  /\ Then(th, << >>)
  /\ UNCHANGED <<process, dogs, events, external, history>>

\* The phase is worked out here and set by the next step.
Note(th) ==
  /\ At(th, "note")
  /\ s' = [s EXCEPT !.interrupting = @ \/ Now(th).decision = "cancel"]
  /\ Then(th, SetPhase(approval_phase(s.approvals)) \o Do("progress"))
  /\ UNCHANGED <<process, dogs, events, external, history>>

-----------------------------------------------------------------------------
(* interrupt: the mark first, the frame after, the mark back if it fails.  *)
Interrupt(th) ==
  /\ s.phase \in Active
  /\ Spend("interrupt")
  /\ s' = [s EXCEPT !.interrupting = TRUE, !.delivered = << >>]
  /\ Begin(th, Do("write_interrupt"))
  /\ UNCHANGED <<process, dogs, external, history>>

WriteInterrupt(th) ==
  /\ Writing(th, "write_interrupt")
  /\ IF CanWrite
     THEN /\ inbox' = Append(inbox, [kind |-> "interrupt"])
          /\ impatient' = TRUE
          /\ Then(th, << >>)
     ELSE Then(th, Do("unflag")) /\ UNCHANGED <<inbox, impatient>>
  /\ UNCHANGED <<s, stdin, slot, lease, armed, events, exit, cli, fresh, backlog, outbox, history>>

Unflag(th) ==
  /\ At(th, "unflag")
  /\ s' = [s EXCEPT !.interrupting = FALSE]
  /\ Then(th, << >>)
  /\ UNCHANGED <<process, dogs, events, external, history>>

-----------------------------------------------------------------------------
(* Phases, turns, errors: the steps that several operations share.         *)

set_phase(th) ==
  /\ At(th, "set_phase")
  /\ s' = [s EXCEPT !.phase = Now(th).phase,
                    !.input = IF Now(th).phase \in Active THEN @ ELSE {}]
  /\ Then(th, << >>)
  /\ UNCHANGED <<process, dogs, events, external, history>>

\* emit_turn: whichever turn is active now is the one reported.
emit_turn(th) ==
  /\ At(th, "emit_turn")
  /\ Then(th, <<[op |-> "turn_event", turn |-> s.turn, status |-> Now(th).status]>> \o Do("clear_turn"))
  /\ UNCHANGED <<s, process, dogs, events, external, history>>

\* apply_turn_event; the end of a turn counts as progress.
apply_turn_event(th) ==
  /\ At(th, "turn_event")
  /\ s' = [s EXCEPT !.held = IF Now(th).status = "completed" THEN << >> ELSE @]
  /\ armed' = {}
  /\ Then(th, << >>)
  /\ UNCHANGED <<process, impatient, events, external, history>>

ClearTurn(th) ==
  /\ At(th, "clear_turn")
  /\ s' = [s EXCEPT !.turn = 0]
  /\ Then(th, << >>)
  /\ UNCHANGED <<process, dogs, events, external, history>>

\* Mutant: a usage limit copies the running input.
apply_error_copying(th) ==
  /\ At(th, "error")
  /\ s' = IF Now(th).limit /\ s.input # {}
          THEN [s EXCEPT !.held = IF Len(@) < MAX_QUEUED_MESSAGES
                                  THEN Append(@, [text |-> s.input, started |-> TRUE]) ELSE @]
          ELSE s
  /\ armed' = {}
  /\ Then(th, << >>)
  /\ UNCHANGED <<process, impatient, events, external, history>>

\* emit_error: a usage limit moves the running input to the kept ones.
apply_error_event(th) ==
  /\ At(th, "error")
  /\ s' = IF Now(th).limit /\ s.input # {}
          THEN [s EXCEPT !.input = {},
                         !.held = IF Len(@) < MAX_QUEUED_MESSAGES
                                  THEN Append(@, [text |-> s.input, started |-> TRUE]) ELSE @]
          ELSE s
  /\ armed' = {}
  /\ Then(th, << >>)
  /\ UNCHANGED <<process, impatient, events, external, history>>

\* An event that counts as a sign of life.
Progress(th) ==
  /\ At(th, "progress")
  /\ armed' = {}
  /\ Then(th, << >>)
  /\ UNCHANGED <<s, process, impatient, events, external, history>>

discard_pending_approvals(th) ==
  /\ At(th, "discard")
  /\ s' = [s EXCEPT !.approvals = {}]
  /\ Then(th, IF s.approvals = {} THEN << >> ELSE Do("progress"))
  /\ UNCHANGED <<process, dogs, events, external, history>>

-----------------------------------------------------------------------------
(* The reader: one frame of the CLI's stdout.                              *)

Frame(kind) == outbox # << >> /\ Head(outbox).kind = kind /\ todo[Reader] = << >>

\* adopt_claude_continuation, then the events the frame carries.
ReadContent ==
  /\ Frame("content")
  /\ outbox' = Tail(outbox)
  /\ s' = IF s.phase = "ready" THEN claim_turn(s, {}) ELSE s
  /\ Begin(Reader, IF Head(outbox).limit THEN <<[op |-> "error", limit |-> TRUE]>> \o Do("progress")
                                         ELSE Do("progress"))
  /\ UNCHANGED <<process, dogs, events, exit, cli, fresh, backlog, inbox, history>>

\* handle_claude_control_request, queue_approval
ReadAsk ==
  /\ Frame("ask")
  /\ outbox' = Tail(outbox)
  /\ s' = [s EXCEPT !.approvals = @ \cup {Head(outbox).ask}, !.phase = "waitingApproval"]
  /\ Begin(Reader, Do("progress"))
  /\ UNCHANGED <<process, dogs, events, exit, cli, fresh, backlog, inbox, history>>

\* handle_claude_control_cancel
ReadCancel ==
  /\ Frame("cancel")
  /\ outbox' = Tail(outbox)
  /\ LET a == Head(outbox).ask IN
     IF a \in s.approvals
     THEN /\ s' = [s EXCEPT !.approvals = @ \ {a}, !.phase = approval_phase(s.approvals \ {a})]
          /\ Begin(Reader, Do("progress"))
     ELSE UNCHANGED <<s, todo>>
  /\ UNCHANGED <<process, dogs, events, exit, cli, fresh, backlog, inbox, history>>

\* handle_claude_command_lifecycle, mark_delivery
ReadLifecycle ==
  /\ Frame("lifecycle")
  /\ outbox' = Tail(outbox)
  /\ LET m == Head(outbox).msg IN
     s' = IF Head(outbox).state = "cancelled" THEN [s EXCEPT !.delivered = Without(@, {m})]
          ELSE IF m \in DOMAIN s.delivered /\ s.delivered[m] # "started"
          THEN [s EXCEPT !.delivered[m] = Head(outbox).state]
          ELSE s
  /\ UNCHANGED <<process, dogs, todo, events, exit, cli, fresh, backlog, inbox, history>>

\* handle_claude_control_response: the CLI refused to be interrupted.
ReadRefusal ==
  /\ Frame("refusal")
  /\ outbox' = Tail(outbox)
  /\ s' = [s EXCEPT !.interrupting = FALSE]
  /\ Begin(Reader, <<[op |-> "error", limit |-> FALSE]>>)
  /\ UNCHANGED <<process, dogs, events, exit, cli, fresh, backlog, inbox, history>>

TurnStatus(result, interrupted) ==
  IF interrupted THEN "interrupted" ELSE IF result = "ok" THEN "completed" ELSE "failed"

\* handle_claude_result
ReadResult ==
  /\ Frame("result")
  /\ outbox' = Tail(outbox)
  /\ s' = [s EXCEPT !.interrupting = FALSE]
  /\ LET r == Head(outbox).result
         status == TurnStatus(r, s.interrupting)
         limited == status = "failed" /\ r = "limit"
     IN /\ Begin(Reader,
             Do("discard")
               \o (IF status = "failed" THEN <<[op |-> "error", limit |-> limited]>> ELSE << >>)
               \o SetPhase("ready") \o EmitTurn(status)
               \o (IF limited THEN Do("preserve") \o StopSteps ELSE Do("adopt")))
        /\ stops' = IF limited THEN stops \cup {"limit"} ELSE stops
  /\ UNCHANGED <<process, dogs, events, exit, cli, fresh, backlog, inbox, told, lined, handed, answered>>

\* preserve_queue_for_usage_limit
Preserve(th) ==
  /\ At(th, "preserve")
  /\ s' = [s EXCEPT !.queue = << >>,
                    !.held = @ \o [i \in 1 .. Len(s.queue) |-> [text |-> {s.queue[i]}, started |-> FALSE]]]
  /\ Then(th, << >>)
  /\ UNCHANGED <<process, dogs, events, external, history>>

\* Mutant: messages the turn has taken in are waited for as well.
take_all_deliveries(delivered) == DOMAIN delivered

take_unstarted_deliveries(delivered) == {m \in DOMAIN delivered : delivered[m] = "queued"}

\* Mutant: the queue has to wait for somebody else.
AdoptOnly(th) ==
  /\ At(th, "adopt")
  /\ s' = [s EXCEPT !.delivered = << >>]
  /\ Then(th, << >>)
  /\ UNCHANGED <<process, dogs, events, external, history>>

\* adopt_unabsorbed_deliveries, and the drain if there are none.
Adopt(th) ==
  /\ At(th, "adopt")
  /\ LET unstarted == take_unstarted_deliveries(s.delivered)
         rest == [s EXCEPT !.delivered = << >>]
     IN IF unstarted = {} \/ s.phase # "ready"
        THEN s' = rest /\ Then(th, Do("drain")) /\ UNCHANGED armed
        ELSE s' = claim_turn(rest, unstarted) /\ Then(th, << >>) /\ armed' = armed \cup {s.claims + 1}
  /\ UNCHANGED <<process, impatient, events, external, history>>

-----------------------------------------------------------------------------
(* stop_with_escalation                                                    *)

Stop(th) ==
  /\ Spend("stop")
  /\ Begin(th, StopSteps)
  /\ stops' = stops \cup {"user"}
  /\ UNCHANGED <<s, process, dogs, external, told, lined, handed, answered>>

\* The requests are a map: they are answered one by one, in any order.
Responses(asks) == IF asks = {} THEN << >> ELSE <<[op |-> "respond", asks |-> asks]>>

cancel_pending_approvals(th) ==
  /\ At(th, "cancel")
  /\ s' = [s EXCEPT !.approvals = {}]
  /\ Then(th, Responses(s.approvals))
  /\ UNCHANGED <<process, dogs, events, external, history>>

Respond(th) ==
  /\ Writing(th, "respond")
  /\ \E a \in Now(th).asks :
       /\ IF CanWrite
          THEN /\ inbox' = Append(inbox, [kind |-> "answer", ask |-> a, decision |-> "cancel"])
               /\ answered' = Append(answered, a)
          ELSE UNCHANGED <<inbox, answered>>
       /\ Then(th, Do("progress") \o Responses(Now(th).asks \ {a}))
  /\ UNCHANGED <<s, stdin, slot, lease, dogs, events, exit, cli, fresh, backlog, outbox, told, lined, handed, stops>>

CloseStdin(th) ==
  /\ At(th, "close_stdin") \/ At(th, "release_stdin")
  /\ pen = NoOne
  /\ stdin' = FALSE
  /\ Then(th, << >>)
  /\ UNCHANGED <<s, pen, slot, lease, dogs, events, external, history>>

\* The lock of the child is kept until the process is known to be gone.
Kill(th) ==
  /\ At(th, "kill")
  /\ slot # "locked"
  /\ IF slot = "held" THEN slot' = "locked" /\ Then(th, Do("reap"))
                      ELSE Then(th, <<[op |-> "clear", terminated |-> TRUE]>>) /\ UNCHANGED slot
  /\ UNCHANGED <<s, stdin, pen, lease, dogs, events, external, history>>

\* Mutant: a process that did not go is taken for gone.
ReapBlindly(th) ==
  /\ At(th, "reap")
  /\ \/ /\ exit' = IF Alive THEN "bad" ELSE exit
        /\ slot' = "empty"
        /\ Then(th, <<[op |-> "clear", terminated |-> TRUE]>>)
        /\ UNCHANGED events
     \/ /\ Alive
        /\ Spend("stubborn")
        /\ slot' = "held"
        /\ Then(th, <<[op |-> "clear", terminated |-> TRUE]>>)
        /\ UNCHANGED exit
  /\ UNCHANGED <<s, stdin, pen, lease, dogs, cli, fresh, backlog, inbox, outbox, history>>

\* terminate_chat_child
Reap(th) ==
  /\ At(th, "reap")
  /\ \/ /\ exit' = IF Alive THEN "bad" ELSE exit
        /\ slot' = "empty"
        /\ Then(th, <<[op |-> "clear", terminated |-> TRUE]>>)
        /\ UNCHANGED events
     \/ /\ Alive
        /\ Spend("stubborn")
        /\ slot' = "held"
        /\ Then(th, <<[op |-> "clear", terminated |-> FALSE]>>)
        /\ UNCHANGED exit
  /\ UNCHANGED <<s, stdin, pen, lease, dogs, cli, fresh, backlog, inbox, outbox, history>>

Clear(th) ==
  /\ At(th, "clear")
  /\ s' = [s EXCEPT !.queue = << >>, !.delivered = << >>, !.interrupting = FALSE]
  /\ Then(th, IF Now(th).terminated THEN SetPhase("stopped") \o Do("release") ELSE SetPhase("failed"))
  /\ UNCHANGED <<process, dogs, events, external, history>>

release_account_runtime(th) ==
  /\ At(th, "release")
  /\ lease' = FALSE
  /\ Then(th, << >>)
  /\ UNCHANGED <<s, stdin, pen, slot, dogs, events, external, history>>

-----------------------------------------------------------------------------
(* The monitor: poll_child_exit, release_process_handles,                  *)
(* settle_persistent_exit.                                                 *)
\* Mutant: nobody watches a CLI that has nothing to do.
PollBusy ==
  /\ slot = "held" /\ s.phase \in Active
  /\ ~ Alive
  /\ Begin(Monitor, Do("release_child") \o Do("release_stdin") \o Do("release") \o Do("discard") \o Do("judge"))
  /\ UNCHANGED <<s, process, dogs, events, external, history>>

Poll ==
  /\ slot = "held"
  /\ ~ Alive
  /\ Begin(Monitor, Do("release_child") \o Do("release_stdin") \o Do("release") \o Do("discard") \o Do("judge"))
  /\ UNCHANGED <<s, process, dogs, events, external, history>>

ReleaseChild(th) ==
  /\ At(th, "release_child")
  /\ slot # "locked"
  /\ slot' = "empty"
  /\ Then(th, << >>)
  /\ UNCHANGED <<s, stdin, pen, lease, dogs, events, external, history>>

Judge(th) ==
  /\ At(th, "judge")
  /\ s' = [s EXCEPT !.interrupting = FALSE]
  /\ Then(th, IF s.phase = "stopped" THEN << >>
              ELSE (IF exit = "ok" THEN SetPhase("stopped")
                    ELSE SetPhase("failed") \o <<[op |-> "error", limit |-> FALSE]>>)
                     \o (IF s.turn # 0 THEN EmitTurn("failed") ELSE << >>))
  /\ UNCHANGED <<process, dogs, events, external, history>>

-----------------------------------------------------------------------------
(* The watchdogs: run_watchdog.                                            *)

BeingWritten(t) ==
  \E th \in Thread : At(th, "write_turn") /\ Now(th).turn = t

TurnWatchdog ==
  /\ s.phase \in Active
  /\ s.turn \in armed
  /\ ~ BeingWritten(s.turn)
  /\ Spend("hang")
  /\ Begin(Dog, <<[op |-> "error", limit |-> FALSE]>> \o EmitTurn("failed") \o StopSteps)
  /\ stops' = stops \cup {"watchdog"}
  /\ UNCHANGED <<s, process, dogs, external, told, lined, handed, answered>>

InterruptWatchdog ==
  /\ impatient
  /\ s.phase \in Active /\ s.interrupting
  /\ Spend("hang")
  /\ impatient' = FALSE
  /\ Begin(Dog, <<[op |-> "error", limit |-> FALSE]>> \o EmitTurn("interrupted") \o StopSteps)
  /\ stops' = stops \cup {"watchdog"}
  /\ UNCHANGED <<s, process, armed, external, told, lined, handed, answered>>

\* A poll that finds the interrupt taken, or the turn over.
InterruptSeen ==
  /\ impatient
  /\ ~ (s.phase \in Active /\ s.interrupting)
  /\ impatient' = FALSE
  /\ UNCHANGED <<s, process, armed, todo, events, external, history>>

-----------------------------------------------------------------------------
(* The CLI, as the code expects it to behave.                              *)

Say(frames) == outbox' = outbox \o frames
Content(limit) == <<[kind |-> "content", limit |-> limit]>>
Result(r) == <<[kind |-> "result", result |-> r]>>
Lifecycle(f, state) ==
  IF f.tracked THEN <<[kind |-> "lifecycle", msg |-> f.msg, state |-> state]>> ELSE << >>

\* The reader ignores the frame of a message it does not track.
Cancelled(messages) ==
  [i \in DOMAIN messages |-> [kind |-> "lifecycle", msg |-> messages[i].msg, state |-> "cancelled"]]

\* A message starts a turn, joins the one that runs, or is kept for later.
CliTakesMessage ==
  /\ exit = "no" /\ inbox # << >> /\ Head(inbox).kind = "message"
  /\ inbox' = Tail(inbox)
  /\ LET f == Head(inbox) IN
     \/ /\ cli = "idle" /\ backlog = << >>
        /\ cli' = "thinking"
        /\ Say(Lifecycle(f, "started"))
        /\ UNCHANGED backlog
     \/ /\ cli # "idle"
        /\ Say(Lifecycle(f, "started"))
        /\ UNCHANGED <<cli, backlog>>
     \/ /\ cli # "idle"
        /\ backlog' = Append(backlog, f)
        /\ Say(Lifecycle(f, "queued"))
        /\ UNCHANGED cli
  /\ UNCHANGED <<s, process, dogs, todo, events, exit, fresh, history>>

\* An interrupt ends the turn and drops what the CLI kept.
CliTakesInterrupt ==
  /\ exit = "no" /\ inbox # << >> /\ Head(inbox).kind = "interrupt"
  /\ inbox' = Tail(inbox)
  /\ \/ /\ cli' = "idle" /\ backlog' = << >>
        /\ Say(Cancelled(backlog) \o (IF cli = "idle" THEN << >> ELSE Result("aborted")))
        /\ UNCHANGED events
     \/ /\ Spend("refuse")
        /\ Say(<<[kind |-> "refusal"]>>)
        /\ UNCHANGED <<cli, backlog>>
  /\ UNCHANGED <<s, process, dogs, todo, exit, fresh, history>>

CliTakesAnswer ==
  /\ exit = "no" /\ inbox # << >> /\ Head(inbox).kind = "answer"
  /\ inbox' = Tail(inbox)
  /\ IF cli # Head(inbox).ask THEN UNCHANGED <<cli, outbox>>
     ELSE IF Head(inbox).decision = "cancel"
     THEN cli' = "idle" /\ Say(Result("aborted"))
     ELSE cli' = "speaking" /\ UNCHANGED outbox
  /\ UNCHANGED <<s, process, dogs, todo, events, exit, fresh, backlog, history>>

CliSpeaks ==
  /\ exit = "no" /\ cli = "thinking"
  /\ cli' = "speaking"
  /\ Say(Content(FALSE))
  /\ UNCHANGED <<s, process, dogs, todo, events, exit, fresh, backlog, inbox, history>>

CliAsks(a) ==
  /\ exit = "no" /\ cli = "speaking"
  /\ a \in fresh
  /\ Spend("ask")
  /\ fresh' = fresh \ {a}
  /\ cli' = a
  /\ Say(<<[kind |-> "ask", ask |-> a]>>)
  /\ UNCHANGED <<s, process, dogs, todo, exit, backlog, inbox, history>>

CliWithdraws ==
  /\ exit = "no" /\ cli \in Ask
  /\ cli' = "speaking"
  /\ Say(<<[kind |-> "cancel", ask |-> cli]>>)
  /\ UNCHANGED <<s, process, dogs, todo, events, exit, fresh, backlog, inbox, history>>

CliEnds(r) ==
  /\ exit = "no" /\ cli \in {"thinking", "speaking"}
  /\ IF r = "ok" THEN UNCHANGED events ELSE Spend(r)
  /\ cli' = "idle"
  /\ Say(IF r = "limit" THEN Content(TRUE) \o Result(r) ELSE Result(r))
  /\ UNCHANGED <<s, process, dogs, todo, exit, fresh, backlog, inbox, history>>

\* What the CLI kept becomes a turn of its own.
CliNext ==
  /\ exit = "no" /\ cli = "idle" /\ backlog # << >>
  /\ cli' = "thinking"
  /\ backlog' = Tail(backlog)
  /\ Say(Lifecycle(Head(backlog), "started"))
  /\ UNCHANGED <<s, process, dogs, todo, events, exit, fresh, inbox, history>>

\* A background task of the CLI is done and its result is worked on.
CliWakes ==
  /\ exit = "no" /\ cli = "idle"
  /\ Spend("wake")
  /\ cli' = "speaking"
  /\ Say(Content(FALSE))
  /\ UNCHANGED <<s, process, dogs, todo, exit, fresh, backlog, inbox, history>>

\* A crash, or the end of the input.
CliExits ==
  /\ \/ Alive /\ Spend("exit") /\ exit' \in {"ok", "bad"}
     \/ /\ exit = "no" /\ ~stdin /\ inbox = << >> /\ cli = "idle"
        /\ exit' = "ok" /\ UNCHANGED events
  /\ UNCHANGED <<s, process, dogs, todo, cli, fresh, backlog, inbox, outbox, history>>

\* It never does anything again, unless it is killed.
CliFreezes ==
  /\ exit = "no"
  /\ Spend("freeze")
  /\ exit' = "hung"
  /\ UNCHANGED <<s, process, dogs, todo, cli, fresh, backlog, inbox, outbox, history>>

-----------------------------------------------------------------------------
Send(th, m) == SendRefused(th, m) \/ SendStart(th, m) \/ SendDeliver(th, m) \/ SendQueue(th, m)

Call(th) ==
  \/ \E m \in Msg : Send(th, m)
  \/ \E i \in DOMAIN s.queue : remove_queued(th, i)
  \/ \E a \in Ask, d \in Decision : Approve(th, a, d)
  \/ Interrupt(th) \/ Stop(th)

\* A thread takes the next step of its call.
Advance(th) ==
  \/ Drain(th) \/ OpenedTurn(th) \/ WriteTurn(th) \/ Unclaim(th) \/ requeue_front(th) \/ Refuse(th)
  \/ Deliver(th) \/ WriteDelivery(th) \/ forget_delivery(th)
  \/ WriteAnswer(th) \/ Reinsert(th) \/ Note(th)
  \/ WriteInterrupt(th) \/ Unflag(th)
  \/ set_phase(th) \/ emit_turn(th) \/ apply_turn_event(th) \/ ClearTurn(th)
  \/ apply_error_event(th) \/ Progress(th) \/ discard_pending_approvals(th)
  \/ Preserve(th) \/ Adopt(th)
  \/ cancel_pending_approvals(th) \/ Respond(th) \/ CloseStdin(th) \/ Kill(th) \/ Reap(th) \/ Clear(th)
  \/ release_account_runtime(th) \/ ReleaseChild(th) \/ Judge(th) \/ Wait(th)

Read == ReadContent \/ ReadAsk \/ ReadCancel \/ ReadLifecycle \/ ReadRefusal \/ ReadResult

Cli ==
  \/ CliTakesMessage \/ CliTakesInterrupt \/ CliTakesAnswer
  \/ CliSpeaks \/ CliNext \/ CliEnds("ok")

CliMay ==
  \/ \E a \in Ask : CliAsks(a)
  \/ CliWithdraws \/ CliWakes \/ CliExits \/ CliFreezes
  \/ \E r \in {"error", "limit"} : CliEnds(r)

Next ==
  \/ \E th \in Client : Call(th)
  \/ \E th \in Thread : Advance(th)
  \/ Read \/ Poll
  \/ TurnWatchdog \/ InterruptWatchdog \/ InterruptSeen
  \/ Cli \/ CliMay

Spec == Init /\ [][Next]_vars

\* Threads are scheduled and get a lock that is free again and again.
ThreadFairness ==
  /\ \A th \in Thread : WF_vars(Advance(th)) /\ SF_vars(Kill(th))
  /\ WF_vars(Read) /\ WF_vars(Poll) /\ WF_vars(InterruptSeen)

\* A CLI that has not hung takes its input and ends its turns.  Users owe nothing.
FairSpec == Spec /\ ThreadFairness /\ WF_vars(Cli)

-----------------------------------------------------------------------------
(* What must hold.                                                         *)

Quiet == \A th \in Thread : todo[th] = << >>

\* Nothing is under way, in the manager or in a CLI that is alive.
AtRest == /\ Quiet /\ exit = "no" /\ cli = "idle"
          /\ backlog = << >> /\ inbox = << >> /\ outbox = << >>

\* A message is where the manager, or the CLI, can still find it.
Kept(m) == \/ m \in ToSet(s.queue) \cup Texts(s.held) \cup ToSet(handed)
           \/ \E th \in Thread : \E i \in DOMAIN todo[th] :
                 LET step == todo[th][i] IN "msg" \in DOMAIN step /\ step.msg = m

\* No message is written to the CLI twice, whatever fails and is put back, and
\* what a resume would send again (resume_inputs) names none twice.  Not so if a
\* limit took the input of a turn that was not yet written, and could not be.
AtMostOnce ==
  /\ IsInjective(handed)
  /\ IsInjective(s.queue) /\ ToSet(s.queue) \cap ToSet(handed) = {}
  /\ events.resent \/
       /\ \A i, j \in DOMAIN s.held : i # j => s.held[i].text \cap s.held[j].text = {}
       /\ s.input \cap Texts(s.held) = {}
       /\ ToSet(s.queue) \cap (s.input \cup Texts(s.held)) = {}

\* As long as nothing stops the conversation, a message its sender believes
\* accepted is not lost between the queue, a drain that fails and the CLI.
Accounted == \A m \in Msg : told[m] = "accepted" /\ stops = {} => Kept(m)

Position(m, seq) == CHOOSE i \in DOMAIN seq : seq[i] = m

\* Messages reach the CLI in the order they came, because the pop and the claim
\* of the turn are one lock section.  Not so when one is steered into a running
\* turn, is put back after its attachment could not be read, or is claimed while
\* the CLI works on something of its own, whose result makes way for the next.
QueueOrder ==
  \A i, j \in DOMAIN lined :
    /\ i < j /\ {lined[i], lined[j]} \subseteq ToSet(handed)
    /\ ~ Happened("steer") /\ ~ Happened("gone") /\ ~ Happened("wake")
    => Position(lined[i], handed) < Position(lined[j], handed)

\* When all is quiet the conversation is not busy: no steer, queue or result is
\* taken for a turn that will never come.  After an interrupt that crossed with a
\* steer it may be, and then a watchdog counts, unless the CLI has refused an
\* interrupt (the error it reports passes for a sign of life) or a turn has failed
\* on its attachment (its report may take the number of the next turn away).  (Not
\* counted here: the phase an answered request leaves behind may be set when the
\* turn is long over.)
RestIsReal ==
  AtRest /\ s.phase \in Active /\ ~ Happened("ask") =>
    /\ Happened("interrupt")
    /\ Happened("refuse") \/ Happened("gone") \/ s.turn \in armed

\* A permission request is answered once, and a card that is still up belongs
\* to a request nobody answered, however many screens press.
AnsweredOnce == IsInjective(answered) /\ s.approvals \cap ToSet(answered) = {}

\* The account's lease is given back only when the process is gone: an account
\* is never switched or removed under a CLI that still uses it.
LeaseOutlivesProcess == ~lease => ~Alive

\* A message that was accepted reaches a CLI that lives, or is taken back by the user.
QueuedIsHanded ==
  \A m \in Msg : told[m] = "accepted" ~> m \in ToSet(handed) \/ told[m] = "removed" \/ exit # "no"

\* The death of the process, however it comes about, frees the account.
DeathIsNoticed == ~Alive ~> ~lease

\* A thread waits for room in the stdin of a CLI that has hung, and keeps the lock.
Clogged == exit = "hung" /\ pen # NoOne

\* A stop, by a user, a watchdog or a limit, ends the process even if the CLI hangs,
\* with frames unread and requests unanswered.  Not so if somebody waits to write to
\* it: stop_with_escalation takes the lock of stdin before it kills.
StopEnds == stops # {} ~> ~Alive \/ Clogged

-----------------------------------------------------------------------------
(* What the code says of itself and does not keep.                         *)

\* The end for a usage limit loses no message that waits to be sent.
LimitKeepsInputs == \A m \in Msg : told[m] = "accepted" /\ stops = {"limit"} => Kept(m)

\* The stop button really stops a process that does not read its stdin any more
\* (spawn_interrupt_watchdog), the kill is the last resort of every stop
\* (stop_with_escalation).
StopReallyStops == stops # {} ~> ~Alive
=============================================================================
