-------------------------- MODULE SessionOwnership --------------------------
(* The chat supervisor (chat.rs, chat_runtime_store.rs): who may run a CLI   *)
(* on a provider's session.  ChatRuntime models one conversation from the    *)
(* inside; here a conversation is its process, the handles on it, and how it *)
(* starts and ends, and the question is what many of them do to a session:   *)
(* starts that race for it, stops that fail, backends that die and come back *)
(* to processes that did not.  An action is what happens to shared state in  *)
(* one lock section, one write of the lease file, or one call that waits for *)
(* a process; the steps of release_process_handles are taken together.       *)
EXTENDS FiniteSets, Naturals

CONSTANTS
  Chat,       \* conversations; each is started once
  Session,    \* the sessions a provider knows, or will know
  Existing,   \* those that are there from the beginning
  Budgets,    \* how often each kind of event may happen, in one behaviour
  None

Kind == {"stop", "shutdown", "crash", "turn", "undo", "fail", "stuck", "exit", "reuse"}

ASSUME NoneAssumption == None \notin Chat \cup Session
ASSUME SessionAssumption == Existing \subseteq Session
ASSUME BudgetsAssumption == Budgets \subseteq [Kind -> Nat]

VARIABLES
  up,         \* the backend: down, recovering (with_accounts), up
  pending,    \* leases the recovery has still to look at
  leases,     \* on disk: the session of each conversation that has a lease
  proc,       \* processes; the pid of one that is gone may be "reused"
  at,         \* how far ChatSupervisor::start is
  resumes,    \* ChatRuntime.resuming
  session,    \* RuntimeState.provider_session_id; what the process works on
  held,       \* the handles a runtime has: its child, the child's identity, the account
  phase,      \* RuntimeState.phase, as far as is_terminal sees it
  stopping,   \* how far stop_with_escalation is
  watching,   \* how far the exit monitor is
  refreshing, \* refresh_process_lease has read an identity and not yet written
  chats,      \* SupervisorInner.chats; nothing is ever taken out
  claims,     \* SupervisorInner.resume_claims
  stale,      \* SupervisorInner.stale_resume_sessions
  closing,    \* shutdown_managed_runtimes
  loose,      \* history: what went wrong with a conversation (see Note)
  budget

backend == <<up, pending>>
runtime == <<resumes, session, phase>>
threads == <<stopping, watching, refreshing>>
supervisor == <<chats, claims, stale>>
vars == <<backend, leases, proc, at, runtime, held, threads, supervisor, closing, loose, budget>>

\* The stages of a start before it has its session, and those in which it has.
Asking == {"stale", "claim"}
Starting == {"account", "launch", "handshake", "insert", "undo"}
Stage == Asking \cup Starting \cup {"idle", "register", "run", "over"}

Handle == {"child", "identity", "account"}
Open == [stage |-> "open", todo |-> {}, all |-> {}, late |-> {}]
Closing == [stage : {"open", "list", "stop", "clean", "failed"},
            todo : SUBSET Chat, all : SUBSET Chat, late : SUBSET Chat]

TypeOK ==
  /\ up \in {"down", "recovering", "up"} /\ pending \subseteq Chat
  /\ leases \in [Chat -> Session \cup {None}]
  /\ proc \in [Chat -> {"none", "alive", "gone", "reused"}]
  /\ at \in [Chat -> Stage]
  /\ resumes \in [Chat -> BOOLEAN]
  /\ session \in [Chat -> Session \cup {None}]
  /\ held \in [Chat -> SUBSET Handle]
  /\ phase \in [Chat -> {"live", "stopped", "failed"}]
  /\ stopping \in [Chat -> {"no", "kill", "clear", "settle", "release", "fail"}]
  /\ watching \in [Chat -> {"off", "on", "account", "settle"}]
  /\ refreshing \in [Chat -> BOOLEAN]
  /\ chats \subseteq Chat
  /\ claims \in [Session -> Chat \cup {None}]
  /\ stale \in [Session -> Chat \cup {None}]
  /\ closing \in Closing
  /\ loose \in [Chat -> SUBSET {"survivor", "unrecorded", "late"}]
  /\ budget \in [Kind -> Nat]

Init ==
  /\ up = "up" /\ pending = {} /\ leases = [c \in Chat |-> None]
  /\ proc = [c \in Chat |-> "none"] /\ at = [c \in Chat |-> "idle"]
  /\ resumes = [c \in Chat |-> FALSE] /\ session = [c \in Chat |-> None]
  /\ held = [c \in Chat |-> {}] /\ phase = [c \in Chat |-> "live"]
  /\ stopping = [c \in Chat |-> "no"] /\ watching = [c \in Chat |-> "off"]
  /\ refreshing = [c \in Chat |-> FALSE]
  /\ chats = {} /\ claims = [s \in Session |-> None] /\ stale = [s \in Session |-> None]
  /\ closing = Open /\ loose = [c \in Chat |-> {}]
  /\ budget \in Budgets

Spend(kind) == budget[kind] > 0 /\ budget' = [budget EXCEPT ![kind] = @ - 1]
Go(c, stage) == at' = [at EXCEPT ![c] = stage]
Step(c, stage) == stopping' = [stopping EXCEPT ![c] = stage]
Watch(c, stage) == watching' = [watching EXCEPT ![c] = stage]
Hold(c, handles) == held' = [held EXCEPT ![c] = @ \cup handles]
Drop(c, handles) == held' = [held EXCEPT ![c] = @ \ handles]
Unleased(c) == leases' = [leases EXCEPT ![c] = None]
Ended(c) == proc' = [proc EXCEPT ![c] = "gone"]
Alive(c) == proc[c] = "alive"

\* survivor: a stop could not end it; unrecorded: its backend, or its start, ended
\* before its lease was on disk; late: it was registered when it had already ended.
Note(c, what) == loose' = [loose EXCEPT ![c] = @ \cup what]

\* A screen learns of a session from the provider's records, or from the
\* attachment that ends the start of the conversation that made it.
Nameable(s) ==
  \/ s \in Existing
  \/ \E c \in Chat : session[c] = s /\ at[c] \in {"register", "run", "over"}

Fresh(s) == s \notin Existing /\ \A c \in Chat : session[c] # s

-----------------------------------------------------------------------------
(* Starting a conversation.                                                *)

\* start, check_start_preconditions: the door is looked at once, here.
Begin(c) ==
  /\ up = "up" /\ at[c] = "idle" /\ closing.stage = "open"
  /\ \/ \E s \in Session :
          /\ Nameable(s) /\ Go(c, "stale")
          /\ session' = [session EXCEPT ![c] = s] /\ resumes' = [resumes EXCEPT ![c] = TRUE]
     \/ Go(c, "account") /\ UNCHANGED <<session, resumes>>
  /\ UNCHANGED <<backend, leases, proc, phase, held, threads, supervisor, closing, loose, budget>>

\* What a lease on disk proves: the pid, its start and its command are the same.
exact_match(c) == proc[c] = "alive"

\* recover_managed_chat_runtime, terminate_managed_process_group
Recovered(c) ==
  /\ proc' = [proc EXCEPT ![c] = IF exact_match(c) THEN "gone" ELSE @]
  /\ Unleased(c)

\* A process that outlives the signals is an error, and keeps its lease.
Stuck(c) == exact_match(c) /\ Alive(c) /\ Spend("stuck") /\ UNCHANGED <<proc, leases>>

\* retry_stale_runtime_recovery: a session whose orphan could not be ended is free
\* when the orphan's lease is gone, or when it can be ended now.
RetryStale(c) ==
  /\ at[c] = "stale"
  /\ LET s == session[c]
         orphan == stale[s]
         Forget == stale' = [stale EXCEPT ![s] = None]
     IN \/ /\ orphan = None \/ (orphan # None /\ leases[orphan] = None)
           /\ Go(c, "claim") /\ Forget /\ UNCHANGED <<proc, leases, budget>>
        \/ /\ orphan # None /\ leases[orphan] # None
           /\ \/ Recovered(orphan) /\ Go(c, "claim") /\ Forget /\ UNCHANGED budget
              \/ Stuck(orphan) /\ Go(c, "over") /\ UNCHANGED stale
  /\ UNCHANGED <<backend, runtime, held, threads, chats, claims, closing, loose>>

\* Whoever has a claim keeps it while it is starting (it is not in the registry)
\* or has not ended.
StillActive(c) == c \notin chats \/ phase[c] = "live"

\* The second look of claim_resume_session, for sessions that were made new.
RunningOn(s) == {c \in chats : session[c] = s /\ phase[c] = "live"}

\* Mutant: sessions that were made new are not looked for.
ClaimByClaims(c) ==
  /\ at[c] = "claim"
  /\ LET s == session[c]
         taken == claims[s] # None /\ StillActive(claims[s])
     IN \/ taken /\ Go(c, "over") /\ UNCHANGED claims
        \/ ~taken /\ Go(c, "account") /\ claims' = [claims EXCEPT ![s] = c]
  /\ UNCHANGED <<backend, leases, proc, runtime, held, threads, chats, stale, closing, loose, budget>>

\* claim_resume_session, under the lock of the claims.
Claim(c) ==
  /\ at[c] = "claim"
  /\ LET s == session[c]
         taken == claims[s] # None /\ StillActive(claims[s])
     IN \/ taken /\ Go(c, "over") /\ UNCHANGED claims
        \/ ~taken /\ Go(c, "over") /\ \E d \in RunningOn(s) : claims' = [claims EXCEPT ![s] = d]
        \/ ~taken /\ RunningOn(s) = {} /\ Go(c, "account") /\ claims' = [claims EXCEPT ![s] = c]
  /\ UNCHANGED <<backend, leases, proc, runtime, held, threads, chats, stale, closing, loose, budget>>

\* Mutant: a start that fails forgets its claim.
ReturnOnly(c) ==
  /\ Go(c, "over") /\ UNCHANGED claims
  /\ held' = [held EXCEPT ![c] = IF watching[c] = "off" THEN {} ELSE @]

\* The start returns an error: its ResumeClaimGuard gives the claim back, and the
\* runtime is dropped with its handles unless the monitor keeps it.
Return(c) ==
  /\ Go(c, "over")
  /\ claims' = [s \in Session |-> IF resumes[c] /\ s = session[c] /\ claims[s] = c THEN None ELSE claims[s]]
  /\ held' = [held EXCEPT ![c] = IF watching[c] = "off" THEN {} ELSE @]

\* Anything before the process: a folder, a CLI that is not found, an account
\* that is being switched, a spawn that fails.
FailEarly(c) ==
  /\ at[c] \in {"account", "launch"} /\ Return(c) /\ Spend("fail")
  /\ UNCHANGED <<backend, leases, proc, runtime, threads, chats, stale, closing, loose>>

\* acquire_runtime; a new Claude session is named here.
Acquire(c) ==
  /\ at[c] = "account" /\ Go(c, "launch") /\ Hold(c, {"account"})
  /\ \/ UNCHANGED session
     \/ ~resumes[c] /\ \E s \in Session : Fresh(s) /\ session' = [session EXCEPT ![c] = s]
  /\ UNCHANGED <<backend, leases, proc, resumes, phase, threads, supervisor, closing, loose, budget>>

\* spawn_managed_chat_child
Launch(c) ==
  /\ at[c] = "launch" /\ Go(c, "handshake") /\ proc' = [proc EXCEPT ![c] = "alive"]
  /\ UNCHANGED <<backend, leases, runtime, held, threads, supervisor, closing, loose, budget>>

\* A handshake that fails: discard_spawned_child waits for the process it kills.
Discard(c) ==
  /\ at[c] = "handshake" /\ Spend("undo") /\ Return(c) /\ Ended(c)
  /\ UNCHANGED <<backend, leases, runtime, threads, chats, stale, closing, loose>>

\* await_codex_startup and await_opencode_startup have the name of a new session;
\* register_managed_chat_child, record_process_lease, spawn_child_monitor.
Record(c) ==
  /\ at[c] = "handshake" /\ Go(c, "insert") /\ Hold(c, {"child", "identity"}) /\ Watch(c, "on")
  /\ \/ session[c] # None /\ UNCHANGED session
     \/ session[c] = None /\ \E s \in Session : Fresh(s) /\ session' = [session EXCEPT ![c] = s]
  /\ leases' = [leases EXCEPT ![c] = session'[c]]
  /\ UNCHANGED <<backend, proc, resumes, phase, stopping, refreshing, supervisor, closing, loose, budget>>

\* A process that cannot be recorded is stopped, and nobody watches it.
RecordFails(c) ==
  /\ at[c] = "handshake" /\ Spend("undo") /\ Go(c, "undo") /\ Hold(c, {"child"}) /\ Step(c, "kill")
  /\ UNCHANGED <<backend, leases, proc, runtime, watching, refreshing, supervisor, closing, loose>>

\* launch_started_runtime: the caller has given up meanwhile ...
Cancelled(c) ==
  /\ at[c] = "insert" /\ Spend("undo") /\ Go(c, "undo") /\ Step(c, "kill")
  /\ UNCHANGED <<backend, leases, proc, runtime, held, watching, refreshing, supervisor, closing, loose>>

\* ... or has not, and the conversation is in the registry.
Insert(c) ==
  /\ at[c] = "insert" /\ Go(c, "register") /\ chats' = chats \cup {c}
  /\ UNCHANGED <<backend, leases, proc, runtime, held, threads, claims, stale, closing, loose, budget>>

\* register_runtime_session_claim and the commit of the guard: whoever has the
\* claim now loses it.
Register(c) ==
  /\ at[c] = "register" /\ Go(c, "run") /\ claims' = [claims EXCEPT ![session[c]] = c]
  /\ Note(c, IF phase[c] = "live" THEN {} ELSE {"late"})
  /\ UNCHANGED <<backend, leases, proc, runtime, held, threads, chats, stale, closing, budget>>

\* A start that was undone returns when its stop has.
Undone(c) ==
  /\ at[c] = "undo" /\ stopping[c] = "no" /\ Return(c)
  /\ Note(c, IF Alive(c) /\ leases[c] = None THEN {"unrecorded"} ELSE {})
  /\ UNCHANGED <<backend, leases, proc, runtime, threads, chats, stale, closing, budget>>

-----------------------------------------------------------------------------
(* Ending one: stop_with_escalation and the exit monitor.                  *)

\* ChatSupervisor::stop, of any conversation in the registry.  Two stops of one
\* conversation follow each other here.
Stop(c) ==
  /\ up = "up" /\ c \in chats /\ stopping[c] = "no" /\ Step(c, "kill") /\ Spend("stop")
  /\ UNCHANGED <<backend, leases, proc, at, runtime, held, watching, refreshing, supervisor, closing, loose>>

\* terminate_chat_child: with no child, or one that has exited, there is nothing
\* left to end.
Kill(c) ==
  /\ stopping[c] = "kill" /\ Drop(c, {"child"}) /\ Step(c, "clear")
  /\ IF "child" \in held[c] /\ Alive(c) THEN Ended(c) ELSE UNCHANGED proc
  /\ UNCHANGED <<backend, leases, at, runtime, watching, refreshing, supervisor, closing, loose, budget>>

\* One that outlives SIGKILL is put back in its slot.
KillFails(c) ==
  /\ stopping[c] = "kill" /\ "child" \in held[c] /\ Alive(c) /\ Spend("stuck") /\ Step(c, "fail")
  /\ UNCHANGED <<backend, leases, proc, at, runtime, held, watching, refreshing, supervisor, closing, loose>>

\* clear_process_lease
Clear(c) ==
  /\ stopping[c] = "clear" /\ Step(c, "settle") /\ Drop(c, {"identity"}) /\ Unleased(c)
  /\ UNCHANGED <<backend, proc, at, runtime, watching, refreshing, supervisor, closing, loose, budget>>

Settle(c) ==
  /\ stopping[c] = "settle" /\ Step(c, "release") /\ phase' = [phase EXCEPT ![c] = "stopped"]
  /\ UNCHANGED <<backend, leases, proc, at, resumes, session, held, watching, refreshing, supervisor, closing, loose, budget>>

Release(c) ==
  /\ stopping[c] = "release" /\ Step(c, "no") /\ Drop(c, {"account"})
  /\ UNCHANGED <<backend, leases, proc, at, runtime, watching, refreshing, supervisor, closing, loose, budget>>

\* Mutant: the lease goes as it does when the process is gone.
GiveUpUnleased(c) ==
  /\ stopping[c] = "fail" /\ Step(c, "no") /\ phase' = [phase EXCEPT ![c] = "failed"]
  /\ Note(c, IF Alive(c) THEN {"survivor"} ELSE {}) /\ Unleased(c)
  /\ UNCHANGED <<backend, proc, at, resumes, session, held, watching, refreshing, supervisor, closing, budget>>

\* The process is still there: the lease and the account stay, but the phase is
\* one that is_terminal, and with it the session is free for the next start.
GiveUp(c) ==
  /\ stopping[c] = "fail" /\ Step(c, "no") /\ phase' = [phase EXCEPT ![c] = "failed"]
  /\ Note(c, IF Alive(c) THEN {"survivor"} ELSE {})
  /\ UNCHANGED <<backend, leases, proc, at, resumes, session, held, watching, refreshing, supervisor, closing, budget>>

\* poll_child_exit, unless a stop has the slot: the child is gone and
\* release_process_handles clears what is left of it, or another took it.
Poll(c) ==
  /\ watching[c] = "on" /\ stopping[c] # "kill"
  /\ IF "child" \in held[c]
     THEN ~Alive(c) /\ Watch(c, "account") /\ Drop(c, {"child", "identity"}) /\ Unleased(c)
     ELSE Watch(c, "off") /\ UNCHANGED <<held, leases>>
  /\ UNCHANGED <<backend, proc, at, runtime, stopping, refreshing, supervisor, closing, loose, budget>>

\* settle_persistent_exit: the account, then the phase.  A conversation that was
\* stopped stays as it is.
MonitorReleases(c) ==
  /\ watching[c] = "account" /\ Watch(c, "settle") /\ Drop(c, {"account"})
  /\ UNCHANGED <<backend, leases, proc, at, runtime, stopping, refreshing, supervisor, closing, loose, budget>>

settle_persistent_exit(c) ==
  /\ watching[c] = "settle" /\ Watch(c, "off")
  /\ \/ phase[c] = "stopped" /\ UNCHANGED phase
     \/ /\ phase[c] # "stopped"
        /\ \E p \in {"stopped", "failed"} : phase' = [phase EXCEPT ![c] = p]
  /\ UNCHANGED <<backend, leases, proc, at, resumes, session, held, stopping, refreshing, supervisor, closing, loose, budget>>

\* refresh_process_lease of a turn that begins or ends: the identity is read, and
\* the lease written later, whatever has become of it.
RefreshReads(c) ==
  /\ ~refreshing[c] /\ "identity" \in held[c] /\ Spend("turn")
  /\ refreshing' = [refreshing EXCEPT ![c] = TRUE]
  /\ UNCHANGED <<backend, leases, proc, at, runtime, held, stopping, watching, supervisor, closing, loose>>

RefreshWrites(c) ==
  /\ refreshing[c] /\ refreshing' = [refreshing EXCEPT ![c] = FALSE]
  /\ leases' = [leases EXCEPT ![c] = session[c]]
  /\ UNCHANGED <<backend, proc, at, runtime, held, stopping, watching, supervisor, closing, loose, budget>>

-----------------------------------------------------------------------------
(* Ending all: shutdown_managed_runtimes, for one provider.                *)

\* begin_shutdown closes the door.
BeginShutdown ==
  /\ up = "up" /\ closing.stage = "open" /\ Spend("shutdown")
  /\ closing' = [closing EXCEPT !.stage = "list"]
  /\ UNCHANGED <<backend, leases, proc, at, runtime, held, threads, supervisor, loose>>

\* stop_provider_chats: what is in the registry and has not ended, now.
Snapshot ==
  /\ closing.stage = "list"
  /\ LET live == {c \in chats : phase[c] = "live"}
     IN closing' = [closing EXCEPT !.stage = "stop", !.todo = live, !.all = live]
  /\ UNCHANGED <<backend, leases, proc, at, runtime, held, threads, supervisor, loose, budget>>

StopNext(c) ==
  /\ closing.stage = "stop" /\ c \in closing.todo /\ stopping[c] = "no"
  /\ \A d \in closing.all \ closing.todo : stopping[d] = "no"
  /\ Step(c, "kill") /\ closing' = [closing EXCEPT !.todo = @ \ {c}]
  /\ UNCHANGED <<backend, leases, proc, at, runtime, held, watching, refreshing, supervisor, loose, budget>>

\* Mutant: only what was asked to stop is counted.
CountTargets ==
  /\ closing.stage = "stop" /\ closing.todo = {} /\ \A c \in closing.all : stopping[c] = "no"
  /\ LET clean == \A c \in closing.all : phase[c] = "stopped"
     IN closing' = [closing EXCEPT !.stage = IF clean THEN "clean" ELSE "failed",
                                   !.late = {c \in Chat : at[c] \in Asking \cup {"account"}}]
  /\ UNCHANGED <<backend, leases, proc, at, runtime, held, threads, supervisor, loose, budget>>

\* All is well when every target settled as stopped and no account is in use,
\* whoever uses it.  (late: the starts that use none yet.)
Count ==
  /\ closing.stage = "stop" /\ closing.todo = {} /\ \A c \in closing.all : stopping[c] = "no"
  /\ LET clean == /\ \A c \in closing.all : phase[c] = "stopped"
                  /\ \A c \in Chat : "account" \notin held[c]
     IN closing' = [closing EXCEPT !.stage = IF clean THEN "clean" ELSE "failed",
                                   !.late = {c \in Chat : at[c] \in Asking \cup {"account"}}]
  /\ UNCHANGED <<backend, leases, proc, at, runtime, held, threads, supervisor, loose, budget>>

-----------------------------------------------------------------------------
(* The world: processes end by themselves, the backend with all its threads  *)
(* may at any time, and pids are used again once their process is waited for. *)

Exit(c) ==
  /\ Alive(c) /\ Ended(c) /\ Spend("exit")
  /\ UNCHANGED <<backend, leases, at, runtime, held, threads, supervisor, closing, loose>>

Reuse(c) ==
  /\ proc[c] = "gone" /\ "child" \notin held[c] /\ at[c] # "handshake" /\ leases[c] # None
  /\ Spend("reuse") /\ proc' = [proc EXCEPT ![c] = "reused"]
  /\ UNCHANGED <<backend, leases, at, runtime, held, threads, supervisor, closing, loose>>

\* The end of the backend, in order or not: only the disk and the processes are left.
Crash ==
  /\ up # "down" /\ up' = "down" /\ pending' = {} /\ Spend("crash")
  /\ loose' = [c \in Chat |->
       IF Alive(c) /\ leases[c] = None /\ at[c] \in {"handshake", "undo"}
         THEN loose[c] \cup {"unrecorded"} ELSE loose[c]]
  /\ at' = [c \in Chat |-> IF at[c] = "idle" THEN "idle" ELSE "over"]
  /\ held' = [c \in Chat |-> {}] /\ chats' = {}
  /\ claims' = [s \in Session |-> None] /\ stale' = [s \in Session |-> None]
  /\ stopping' = [c \in Chat |-> "no"] /\ watching' = [c \in Chat |-> "off"]
  /\ refreshing' = [c \in Chat |-> FALSE] /\ closing' = Open
  /\ UNCHANGED <<leases, proc, runtime>>

\* with_accounts, recover_orphaned_chat_runtimes
Restart ==
  /\ up = "down" /\ up' = "recovering" /\ pending' = {c \in Chat : leases[c] # None}
  /\ UNCHANGED <<leases, proc, at, runtime, held, threads, supervisor, closing, loose, budget>>

\* Mutant: an orphan that will not die is left, and its session with it.
RecoverOnly(c) ==
  /\ c \in pending /\ pending' = pending \ {c}
  /\ (Recovered(c) /\ UNCHANGED budget) \/ Stuck(c)
  /\ UNCHANGED <<up, at, runtime, held, threads, supervisor, closing, loose>>

\* Mutant: the session is noted where the conversation should be.
RecoverSession(c) ==
  /\ c \in pending /\ pending' = pending \ {c}
  /\ \/ Recovered(c) /\ UNCHANGED <<stale, budget>>
     \/ Stuck(c) /\ stale' = [stale EXCEPT ![leases[c]] = leases[c]]
  /\ UNCHANGED <<up, at, runtime, held, threads, chats, claims, closing, loose>>

Recover(c) ==
  /\ c \in pending /\ pending' = pending \ {c}
  /\ \/ Recovered(c) /\ UNCHANGED <<stale, budget>>
     \/ Stuck(c) /\ stale' = [stale EXCEPT ![leases[c]] = c]
  /\ UNCHANGED <<up, at, runtime, held, threads, chats, claims, closing, loose>>

Ready ==
  /\ up = "recovering" /\ pending = {} /\ up' = "up"
  /\ UNCHANGED <<pending, leases, proc, at, runtime, held, threads, supervisor, closing, loose, budget>>

-----------------------------------------------------------------------------
Start(c) ==
  \/ Begin(c) \/ RetryStale(c) \/ Claim(c) \/ FailEarly(c) \/ Acquire(c) \/ Launch(c)
  \/ Discard(c) \/ Record(c) \/ RecordFails(c) \/ Cancelled(c) \/ Insert(c) \/ Register(c) \/ Undone(c)

End(c) ==
  \/ Stop(c) \/ Kill(c) \/ KillFails(c) \/ Clear(c) \/ Settle(c) \/ Release(c) \/ GiveUp(c)
  \/ Poll(c) \/ MonitorReleases(c) \/ settle_persistent_exit(c) \/ RefreshReads(c) \/ RefreshWrites(c)

Shutdown == BeginShutdown \/ Snapshot \/ Count \/ \E c \in Chat : StopNext(c)

World == Crash \/ Restart \/ Ready \/ \E c \in Chat : Recover(c) \/ Exit(c) \/ Reuse(c)

Next == Shutdown \/ World \/ \E c \in Chat : Start(c) \/ End(c)

Spec == Init /\ [][Next]_vars

-----------------------------------------------------------------------------
(* What must hold.                                                         *)

\* A conversation has a session from its claim, or its name, until it has ended.
Owner(c) == session[c] # None /\ (at[c] \in Starting \/ (c \in chats /\ phase[c] = "live"))

\* Somebody who had ended took the claim on this session from its owner.
Overwritten(s) == \E x \in Chat : session[x] = s /\ "late" \in loose[x]

\* A session has one owner, however many starts race for it, and whether it was
\* claimed by name or made new; not counting the claims that are overwritten.
OneOwner ==
  \A c, d \in Chat :
    Owner(c) /\ Owner(d) /\ session[c] = session[d] => c = d \/ Overwritten(session[c])

\* A conversation on this session went wrong.
LetGo(s) == \E x \in Chat : session[x] = s /\ loose[x] # {}

\* At most one process works on a session, across starts, stops, deaths of the
\* backend and orphans that will not die; not counting sessions of which a process
\* was let go while it was alive, or whose claim was overwritten.
OneWriter ==
  \A c, d \in Chat :
    Alive(c) /\ Alive(d) /\ session[c] # None /\ session[c] = session[d] /\ c # d => LetGo(session[c])

\* A claim belongs to a start under way or to a conversation in the registry:
\* one that did not would lock its session for as long as the backend runs.
NoDeadClaims == \A s \in Session : claims[s] # None => at[claims[s]] \in Starting \/ claims[s] \in chats

\* A process no backend holds can be found by the next one, unless the backend
\* died, or the start failed, before its lease was on disk.
Recoverable ==
  \A c \in Chat : Alive(c) /\ "child" \notin held[c] /\ at[c] # "handshake" =>
    leases[c] # None \/ "unrecorded" \in loose[c]

\* A shutdown that reports success left no process the backend holds, but for
\* starts that were past the door and had no account yet.
ShutdownIsHonest ==
  closing.stage = "clean" =>
    \A c \in Chat : Alive(c) /\ "child" \in held[c] => c \in closing.late

-----------------------------------------------------------------------------
(* What the code says of itself and does not keep.                         *)

\* The claims keep two starts, or conversations, from owning one session.
ClaimsExclude ==
  \A c, d \in Chat : Owner(c) /\ Owner(d) /\ session[c] = session[d] => c = d
=============================================================================
