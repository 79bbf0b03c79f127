--------------------------- MODULE ApprovalLedger ---------------------------
(***************************************************************************)
(* The ledger of one-shot approval tokens (approval_ledger.rs) that the    *)
(* SSH and the database stores share (ssh_approvals.rs, db_approvals.rs).  *)
(*                                                                         *)
(* The whole map is behind one mutex, so an operation is one step.  The    *)
(* clock is read BEFORE the lock is taken (`now_ms()` is an argument of    *)
(* every call), so a caller may act on a reading that has grown stale      *)
(* while it waited: a call is a step that reads the clock and a later step *)
(* that runs under the lock.                                               *)
(***************************************************************************)
EXTENDS Integers, FiniteSets, Functions

CONSTANTS
  Chat,                  \* conversations
  Request,               \* what the user is asked to allow: server+command+scope, connection+SQL+kind
  Id,                    \* approval ids; a fresh uuid is one that was never issued
  Caller,                \* threads that call the store
  MAX_PENDING_PER_CHAT,  \* cards one conversation may have waiting
  MAX_ENTRIES,           \* entries of the whole ledger
  TTL,                   \* life of a token, SSH_APPROVAL_TTL_MS / DB_APPROVAL_TTL_MS
  MaxClock               \* bound of the model: the clock stops there

ASSUME LedgerAssumption ==
  /\ IsFiniteSet(Id)
  /\ MAX_PENDING_PER_CHAT \in Nat \ {0}
  /\ MAX_ENTRIES \in Nat \ {0}
  /\ TTL \in Nat \ {0}
  /\ MaxClock \in Nat

VARIABLES
  entries,  \* the map, a function on the ids it holds
  clock,    \* wall clock, in units of the model
  reading,  \* the clock each pending call has read, NoCall outside a call
  asked,    \* history: what each issued id was opened for
  told,     \* history: the answers a caller was told it had recorded
  spent,    \* history: how many executions each id let through
  ran       \* history: what was executed under which id

vars == <<entries, clock, reading, asked, told, spent, ran>>

NoCall == -1

Entry == [chat : Chat, request : Request, expires_at : Nat,
          granted : {"unanswered", "allowed", "refused"}, consumed : BOOLEAN]

TypeOK ==
  /\ DOMAIN entries \subseteq Id
  /\ entries \in [DOMAIN entries -> Entry]
  /\ clock \in Nat
  /\ reading \in [Caller -> Nat \cup {NoCall}]
  /\ DOMAIN asked \subseteq Id
  /\ asked \in [DOMAIN asked -> [chat : Chat, request : Request]]
  /\ told \in [Id -> SUBSET BOOLEAN]
  /\ spent \in [Id -> Nat]
  /\ ran \subseteq [id : Id, chat : Chat, request : Request]

Init ==
  /\ entries = << >>
  /\ clock = 0
  /\ reading = [th \in Caller |-> NoCall]
  /\ asked = << >>
  /\ told = [i \in Id |-> {}]
  /\ spent = [i \in Id |-> 0]
  /\ ran = {}

-----------------------------------------------------------------------------
(* What the code asks of an entry, and of the map.                         *)

is_awaiting(e) == e.granted = "unanswered" /\ ~ e.consumed

expired(e, now) == now >= e.expires_at

\* lock_live: the map without the entries that have expired at `now`.
lock_live(now) == Restrict(entries, {i \in DOMAIN entries : ~ expired(entries[i], now)})

AwaitingOf(c, es) == {i \in DOMAIN es : es[i].chat = c /\ is_awaiting(es[i])}

\* Mutant: a request that waits is not looked for.
DuplicatesUnseen(c, r, es) == {}

Duplicates(c, r, es) == {i \in AwaitingOf(c, es) : es[i].request = r}

\* Mutant: the consumed mark is not looked at.
UsableThoughConsumed(c, i, now) ==
  i \in DOMAIN entries /\ entries[i].chat = c /\ ~ expired(entries[i], now)

\* with_usable: the entry of this conversation, neither consumed nor expired.
with_usable(c, i, now) ==
  /\ i \in DOMAIN entries
  /\ entries[i].chat = c
  /\ ~ entries[i].consumed
  /\ ~ expired(entries[i], now)

-----------------------------------------------------------------------------
Tick == /\ clock < MaxClock
        /\ clock' = clock + 1
        /\ UNCHANGED <<entries, reading, asked, told, spent, ran>>

ReadClock(th) ==
  /\ reading[th] = NoCall
  /\ reading' = [reading EXCEPT ![th] = clock]
  /\ UNCHANGED <<entries, clock, asked, told, spent, ran>>

\* A call reaches the lock with the clock it read, and ends.
UnderLock(th) ==
  /\ reading[th] # NoCall
  /\ reading' = [reading EXCEPT ![th] = NoCall]
  /\ UNCHANGED clock

\* open: the same request still waits for an answer, its entry is returned.
OpenExisting(th, c, r, i) ==
  LET live == lock_live(reading[th]) IN
  /\ UnderLock(th)
  /\ i \in Duplicates(c, r, live)
  /\ entries' = live
  /\ UNCHANGED <<asked, told, spent, ran>>

\* open: too many cards wait in this conversation, or the ledger is full.
OpenRefused(th, c, r) ==
  LET live == lock_live(reading[th]) IN
  /\ UnderLock(th)
  /\ Duplicates(c, r, live) = {}
  /\ \/ Cardinality(AwaitingOf(c, live)) >= MAX_PENDING_PER_CHAT
     \/ Cardinality(DOMAIN live) >= MAX_ENTRIES
  /\ entries' = live
  /\ UNCHANGED <<asked, told, spent, ran>>

\* Mutant: the life of the token is taken off the clock.
EntryOfThePast(c, r, now) ==
  [chat |-> c, request |-> r, expires_at |-> now - TTL,
   granted |-> "unanswered", consumed |-> FALSE]

NewEntry(c, r, now) ==
  [chat |-> c, request |-> r, expires_at |-> now + TTL,
   granted |-> "unanswered", consumed |-> FALSE]

\* Mutant: the limits let one more in.
OpenNewOneTooMany(th, c, r, i) ==
  LET live == lock_live(reading[th]) IN
  /\ UnderLock(th)
  /\ i \notin DOMAIN asked
  /\ Duplicates(c, r, live) = {}
  /\ Cardinality(AwaitingOf(c, live)) <= MAX_PENDING_PER_CHAT
  /\ Cardinality(DOMAIN live) <= MAX_ENTRIES
  /\ entries' = [j \in DOMAIN live \cup {i} |->
                   IF j = i THEN NewEntry(c, r, reading[th]) ELSE live[j]]
  /\ asked' = [j \in DOMAIN asked \cup {i} |->
                 IF j = i THEN [chat |-> c, request |-> r] ELSE asked[j]]
  /\ UNCHANGED <<told, spent, ran>>

\* open: a new entry under a fresh id.
OpenNew(th, c, r, i) ==
  LET live == lock_live(reading[th]) IN
  /\ UnderLock(th)
  /\ i \notin DOMAIN asked
  /\ Duplicates(c, r, live) = {}
  /\ Cardinality(AwaitingOf(c, live)) < MAX_PENDING_PER_CHAT
  /\ Cardinality(DOMAIN live) < MAX_ENTRIES
  /\ entries' = [j \in DOMAIN live \cup {i} |->
                   IF j = i THEN NewEntry(c, r, reading[th]) ELSE live[j]]
  /\ asked' = [j \in DOMAIN asked \cup {i} |->
                 IF j = i THEN [chat |-> c, request |-> r] ELSE asked[j]]
  /\ UNCHANGED <<told, spent, ran>>

\* resolve: the decision that came first stays.
CanResolve(c, i, now) == with_usable(c, i, now) /\ entries[i].granted = "unanswered"

Resolve(th, c, i, granted) ==
  /\ UnderLock(th)
  /\ CanResolve(c, i, reading[th])
  /\ entries' = [entries EXCEPT ![i].granted = IF granted THEN "allowed" ELSE "refused"]
  /\ told' = [told EXCEPT ![i] = @ \cup {granted}]
  /\ UNCHANGED <<asked, spent, ran>>

ResolveRefused(th, c, i) ==
  /\ UnderLock(th)
  /\ ~ CanResolve(c, i, reading[th])
  /\ UNCHANGED <<entries, asked, told, spent, ran>>

\* Mutants: no check of the request; a card still waiting passes for a permission.
CanConsumeAnyRequest(c, i, r, now) == with_usable(c, i, now) /\ entries[i].granted = "allowed"

CanConsumeUnlessRefused(c, i, r, now) ==
  with_usable(c, i, now) /\ entries[i].request = r /\ entries[i].granted # "refused"

\* consume: ensure_matches, then ensure_granted, then the mark.
CanConsume(c, i, r, now) ==
  /\ with_usable(c, i, now)
  /\ entries[i].request = r
  /\ entries[i].granted = "allowed"

Consume(th, c, i, r) ==
  /\ UnderLock(th)
  /\ CanConsume(c, i, r, reading[th])
  /\ entries' = [entries EXCEPT ![i].consumed = TRUE]
  /\ spent' = [spent EXCEPT ![i] = @ + 1]
  /\ ran' = ran \cup {[id |-> i, chat |-> c, request |-> r]}
  /\ UNCHANGED <<asked, told>>

ConsumeRefused(th, c, i, r) ==
  /\ UnderLock(th)
  /\ ~ CanConsume(c, i, r, reading[th])
  /\ UNCHANGED <<entries, asked, told, spent, ran>>

\* pending: the waiting cards of a conversation; it sweeps the expired ones.
Pending(th) ==
  /\ UnderLock(th)
  /\ entries' = lock_live(reading[th])
  /\ UNCHANGED <<asked, told, spent, ran>>

\* discard_chat: the conversation ended.
discard_chat(c) ==
  /\ entries' = Restrict(entries, {i \in DOMAIN entries : entries[i].chat # c})
  /\ UNCHANGED <<clock, reading, asked, told, spent, ran>>

Next ==
  \/ Tick
  \/ \E th \in Caller :
       \/ ReadClock(th)
       \/ Pending(th)
       \/ \E c \in Chat, r \in Request :
            \/ OpenRefused(th, c, r)
            \/ \E i \in Id : \/ OpenExisting(th, c, r, i)
                             \/ OpenNew(th, c, r, i)
                             \/ Consume(th, c, i, r)
                             \/ ConsumeRefused(th, c, i, r)
       \/ \E c \in Chat, i \in Id :
            \/ ResolveRefused(th, c, i)
            \/ \E granted \in BOOLEAN : Resolve(th, c, i, granted)
  \/ \E c \in Chat : discard_chat(c)

Spec == Init /\ [][Next]_vars

-----------------------------------------------------------------------------
(* No token is executed twice, however many callers race with it, and      *)
(* whatever expires, is swept or discarded in between (`consume`).         *)
SpentAtMostOnce == \A i \in Id : spent[i] <= 1

(* What was executed had been allowed, and never refused: a late second    *)
(* answer does not turn a refusal into a permission (C9-17-5, `resolve`).  *)
SpentOnlyIfAllowed == \A i \in Id : spent[i] > 0 => told[i] = {TRUE}

(* Two screens that answer the same card are never both told they decided. *)
OneDecision == \A i \in Id : ~ (told[i] = BOOLEAN)

(* A conversation never has two cards for the same request waiting         *)
(* (`open` returns the entry that waits).                                  *)
NoTwinCards ==
  \A i, j \in DOMAIN entries :
    /\ is_awaiting(entries[i]) /\ is_awaiting(entries[j])
    /\ entries[i].chat = entries[j].chat /\ entries[i].request = entries[j].request
    => i = j

(* The two limits hold after every interleaving of opens, answers, sweeps. *)
WithinLimits ==
  /\ Cardinality(DOMAIN entries) <= MAX_ENTRIES
  /\ \A c \in Chat : Cardinality(AwaitingOf(c, entries)) <= MAX_PENDING_PER_CHAT

(* What was executed is what the user read: the conversation and the       *)
(* request the id was opened for, whoever presented it (`ensure_matches`,  *)
(* and the conversation check of `with_usable`).                           *)
RanAsAsked ==
  \A x \in ran : x.id \in DOMAIN asked /\ asked[x.id] = [chat |-> x.chat, request |-> x.request]

-----------------------------------------------------------------------------
(* The abstract token each id is, read off the ledger.                     *)
Phase(i) ==
  IF spent[i] > 0 THEN "spent"
  ELSE IF i \notin DOMAIN asked THEN "unborn"
  ELSE IF i \notin DOMAIN entries THEN "gone"
  ELSE entries[i].granted

Token == INSTANCE ApprovalToken WITH token <- [i \in Id |-> Phase(i)]

(* Every step of the ledger is a step of the one-shot token it promises:   *)
(* a token is decided once, spent only after it was allowed, and nothing   *)
(* happens to it after it was refused, spent, swept or discarded.          *)
ImplementsToken == Token!Spec
=============================================================================
