# A verification of Agent Manager

Agent Manager (`src/`) supervises command-line agents — Claude, Codex,
Antigravity, a local model behind OpenCode — for one user: it starts their
processes, feeds them messages, asks the user for permissions, schedules
unattended runs, watches documents, moves between accounts when a usage limit is
hit, and serves the same state to several screens.  This directory holds TLA+
models of the parts of it that are hard to test, the TLC runs that check them on
small instances, and TLAPS proofs of the results that matter most.

Everything below refers to `src/crates/agent-manager-core/src/` unless a path
says otherwise.

## 1. Inventory

| part | state it keeps | operations | why it is hard | status |
|---|---|---|---|---|
| one-shot approval ledger (`approval_ledger.rs`, `db_approvals.rs`, `ssh_approvals.rs`) | a map of tokens behind one mutex | open, resolve, consume, pending, discard_chat, sweeping of the expired | the clock is read before the lock; screens, agents and sweeps race for one token | modelled, proved |
| approval cards (`chat.rs`, `src/src/components/ChatEventStream.tsx`) | what each screen shows of a token | open, show, answer, announce, expire, end of the conversation | every operation takes the lock, lets go, then emits an event | modelled, proved |
| chat runtime (`chat.rs`) | phase, active turn, message queue, messages handed to the CLI, provider approvals, interrupt flag, texts kept for a resumed session, process handles | send, drain, frames of the CLI, approve, interrupt, stop, watchdogs, process monitor | six kinds of threads; almost every operation is several lock sections with pipe writes and events in between | partly (Claude), proved |
| chat supervisor (`chat.rs`, `chat_runtime_store.rs`) | registry of runtimes, resume claims, process leases on disk | start, resume, stop, shutdown, recovery of orphans after a crash | starts race for a session; processes outlive their stop or their backend | partly, proved |
| scheduler (`scheduler.rs`) | schedules and runs in one JSON store | claim, execute, finish, cancel, heartbeat, expiry of leases, merge, reconcile at start | tick threads, executors and user commands share the store; a restart abandons runs | partly, proved |
| document automation (`document_automation.rs`) | triggers (JSON), recorded folders and the offline report (SQLite), waiting and launched batches (memory and disk) | record, poll, claim, launch, review, create, update, enable, disable, delete, test, restart | four stores, a poller with old copies, executor threads, crashes between any two writes | modelled, proved |
| accounts (`accounts.rs`) | registry, vault, a credential profile per account, counted runtimes | refresh of the usage and of the token, acquire and release of runtimes, synchronisation, recovery, login, deletion, automatic switches | a refresh token is good for one use, and the application, its recoveries and the CLIs all rotate or copy it | partly (one Claude account's credential), proved |
| usage pacing (`usage_pacing.rs`, `usage_budget_policy.rs`) | windows, rounds, reservations | reserve, launch, settle | mostly arithmetic of windows | not modelled |
| system workflows (`system_workflows.rs`, `rounds.rs`) | state of a workflow and its steps | start, step, gate, retry, cancel | long sequences, each step may fail or be cancelled | not modelled |
| session store and trash (`trash_store.rs`, `staged_replace.rs`, `session_management.rs`) | files and directories | move to trash, restore, purge, replace in two steps | a crash between the steps | not modelled |
| backend ownership and store locks (`backend_ownership.rs`, `store_lock.rs`, `json_store.rs`) | lock files | acquire, take over, release | two processes | used as atomic transactions |
| login sessions (`login_sessions.rs`, `login_auth.rs`) | pending logins, their children | start, poll, cancel, expire | timers and polls race | not modelled |
| remote access (`remote.rs`, `remote_edge.rs`) | sessions, sockets | authenticate, subscribe, forward | mostly I/O | not modelled |
| catalog, search, git, documents, skills, plugins, translation (`catalog.rs`, `project_git.rs`, ...) | caches and files | queries, edits | parsing and I/O, little control | not modelled |
| terminal, SSH, Cypress (`terminal.rs`, `ssh_exec.rs`, `cypress_runs.rs`) | children and their output | start, stop, collect | a child that ends while it is stopped | not modelled |
| screens (`src/src/`) | folded event stream | fold, render | events replaced, truncated, replayed | one decision, in the cards |

How they meet: a screen or an agent's tool call enters the chat supervisor,
which looks a runtime up in its registry and calls it; the runtime talks to its
CLI through two pipes and to the screens through an event stream; the scheduler
and the system workflows start chats through the supervisor and follow their
events; a document batch starts its action through the scheduler or a
conversation; accounts prepare a credential profile for a chat and count it as a
runtime until the process monitor gives it back.

Tests of the repository are unit tests of one thread; nothing there interleaves
two callers, kills the process between two writes or fills a pipe.  The list of
such hazards, each at its line and with the properties that watch over it, is in
`PROJECT.json` under `hazards`.  The models stand for about three thousand lines
of a program of more than two hundred thousand: most of those lines parse,
format, render or test, and the lines chosen are the ones where order matters.

## 2. Modules

| module | models | is used by |
|---|---|---|
| `ApprovalToken` | abstract: what one approval id promises | refined by `ApprovalLedger` |
| `ApprovalLedger` | the ledger, its callers and their clocks | `MCApprovalLedger`, extended by `OneShotApproval` |
| `OneShotApproval` | cards, timers and ends of conversations around the ledger | `MCOneShotApproval` |
| `ChatRuntime` | one Claude conversation from the inside: callers, reader, monitor, watchdogs, CLI and pipes | `MCChatRuntime` |
| `SessionOwnership` | many conversations from the outside: who may run a CLI on a session | `MCSessionOwnership` |
| `Scheduler` | store of schedules and runs, ticks, executors, cancels, restarts | `MCScheduler` |
| `DocumentAutomation` | folders, batches, poller, executors, calls, crashes | `MCDocumentAutomation` |
| `AccountCredentials` | the one-use token of an account in vault, profile and processes | `MCAccountCredentials` |
| `ApprovalLedgerProofs`, `SchedulerProofs`, `SessionOwnershipProofs`, `AccountCredentialsProofs`, `DocumentAutomationProofs`, `ChatRuntimeProofs`, `ChatRestProofs`, `OneShotApprovalProofs` | theorems | |

The `MC...` modules only give constants, budgets, symmetry and a constraint to
TLC.

### The approval ledger

`entries` is the map behind the mutex; an operation is one step because the code
holds the mutex for the whole of it.  What is not under the mutex is the clock:
`now_ms()` is an argument of every call, read before the lock.  So a call is
`ReadClock` and later one of `OpenExisting`, `OpenRefused`, `OpenNew`, `Resolve`,
`ResolveRefused`, `Consume`, `ConsumeRefused`, `Pending`, `discard_chat`, all of
which sweep first (`lock_live`).  `asked`, `told`, `spent`, `ran` are histories:
what callers asked, were told and executed, kept after the entry is gone.
The SSH and the database stores differ in wording and in what a request is; both
are the same ledger here.  `ApprovalToken` says what a token promises without a
map, a clock or a limit; `ImplementsToken` is the refinement.

### Approval cards

`task` is what each thread is doing between two lock sections: the thread of a
tool call opens a token and then shows the card, the thread of an answer records
it and then announces it, a thread that stops a conversation discards tokens and
then ends it.  `due` holds the armed expiry timers, `card` what
`ChatEventStream.tsx` makes of the events: the last `asking` event replaces the
card, a resolution is only taken by a card that asks.  The registry that the
consume gate consults never forgets a conversation (`Ask`, `Present` work for an
ended one as the code does).

### The conversation runtime

`s` is `RuntimeState`, behind one lock.  A call of the code is a list of lock
sections, pipe writes and events; `todo[th]` is the list of the steps a thread
has still to take.  A step carries what it read before (`turn`, `status`, `msg`)
and applies it to whatever the state has become, which is the point: `Drain`
pops and claims in one section and writes in another, `ReadResult` closes the
turn in a section, sets the phase in the next, tells the screens in a third.

| threads | steps |
|---|---|
| `Client` | `Send*`, `remove_queued`, `Approve`, `Interrupt`, `Stop` and what they leave to do |
| `Reader` | one frame of the CLI's stdout after the other: `ReadContent`, `ReadAsk`, `ReadCancel`, `ReadLifecycle`, `ReadRefusal`, `ReadResult` |
| `Monitor` | `Poll`, `ReleaseChild`, `Judge` |
| `Dog` | a watchdog that has given up: `TurnWatchdog`, `InterruptWatchdog` |

`pen` is the lock of stdin while a writer waits in a full pipe (`PIPE` frames),
`slot` the lock of the child handle, which a stop keeps until the process is
gone.  `Cli...` actions are the Claude CLI as the code expects it: it takes
messages into the running turn or keeps them, answers interrupts, asks, ends,
wakes up by itself, crashes, hangs.  It is external: only what the reader can
be given matters.

### The chat supervisor

A conversation is its process (`proc`), the handles its runtime has on it
(`held`: the child, the identity for the lease file, the account), and how far
its threads are: `at` for `ChatSupervisor::start`, `stopping` for
`stop_with_escalation`, `watching` for the exit monitor, `refreshing` for
`refresh_process_lease`.  Shared are the registry (`chats`, never emptied), the
claims on sessions (`claims`, given back by `ResumeClaimGuard`), the sessions of
orphans (`stale`) and the lease file (`leases`).

| code | actions |
|---|---|
| `start`, `claim_resume_session`, `retry_stale_runtime_recovery` | `Begin`, `RetryStale`, `Claim`, `FailEarly`, `Acquire` |
| spawn, handshake, record | `Launch`, `Discard`, `Record`, `RecordFails` |
| `launch_started_runtime`, `register_runtime_session_claim` | `Cancelled`, `Insert`, `Register`, `Undone` |
| `stop_with_escalation` | `Stop`, `Kill`, `KillFails`, `Clear`, `Settle`, `Release`, `GiveUp` |
| `spawn_child_monitor` | `Poll`, `MonitorReleases`, `settle_persistent_exit` |
| `begin_shutdown`, `shutdown_managed_runtimes` | `BeginShutdown`, `Snapshot`, `StopNext`, `Count` |
| the end of the backend, `with_accounts` | `Crash`, `Restart`, `Recover`, `Ready` |

`loose` records what went wrong with a conversation: its stop failed and let a
living process go, its lease was never written, it registered after its end.
The properties are about what holds as long as none of that happened.

### The scheduler

The store is a file behind a lock: each `with_store` is one step.  The busy set
(`running`) and the map of executions are behind other locks, so the tick copies
`running` (`CopyRunning`) before it opens the store (`claim_due`), and the code
between them is free for everybody.  An executor (`threads[t]`) keeps a COPY of
its schedule and run and writes it back with `finish_run`: `pc` goes from
`spawned` through `preparing`, `starting`, `referencing`, `launching`, `working`,
`recording` to the drop of the registration (`deregistering`, `releasing`,
`expiring`).  Launching a conversation is a thread of its own (`StartupEnds`),
so `chat` may be up when nobody looks any more; such conversations are
`forsaken`.  `cancel_run` reads, signals and writes in three steps.  A crash
empties all memory, a restart runs `reconcile_interrupted_runs`.

### Document automation

Four stores, and one use of one store is one step: the triggers (a file behind a
lock), the recorded folders (`baseline`, SQLite), the waiting and launched
batches (`pendingRoots`, `pending`, `inflight`: a mutex and its copy on disk,
saved before the mutex is let go) and the offline report.  `poller.pc` goes
through the recording at the start and then through `poll_once`, with the copy of
the triggers it made at the beginning; `execs` are the threads that run an
action, `user` is a call between two of its stores.  `known` is what the action
of a trigger has learnt of each file, `heard` the event ids the other side has
answered: a batch sent again under such an id is taken for a repetition.  A
crash may fall between any two steps; `new` then merges what was launched with
what waits.

### The credential of an account

`vault` and `profile` hold a token each, a number in the order of issue, which is
what `credential_chain_issued_at` compares; `living` is what the server still
accepts.  `at` says where each thread is:

| thread | stages |
|---|---|
| a CLI run `c` | `prepare` (synchronise), `count` (`acquire_runtime`), `launch` (synchronise again), `load`, then `run` and `store` in the CLI, `release_runtime` at the end; runs of `translation.rs` go from `prepare` to `load` |
| `"usage"` | `align` (synchronise), `get`, `check`, `submit`, `put`, `mirror`, then `done`, `rejected` or `failed`: `refresh_usage` |
| `"verify"` | `guard`, `adopt`, `isolate` (synchronise), `mark`: `verify_registered_active_accounts` |

`sync_profile_credential` takes three steps from all of them, with no lock:
`SyncVault`, `SyncProfile`, `Sync`, or `SyncFails`.  `seen` is what it has read.
`status` is the recorded status and the copy `refresh_usage` works with and
writes back.  `slips` names how a token was lost in spite of the rules: a write
over a newer token nobody had seen, an unreadable profile taken for an empty one,
a recovery that put an older profile into the vault, a failed write, a lost
answer, an end between the answer and the write.  `taken` and `overtaken` are
histories: the tokens the application submitted, and the runs counted while a
refresh was past its look at the count.

## 3. What is checked

Bounds are budgets: a behaviour picks one of a few budgets, each of which says
how often each kind of event from outside may happen (an edit, a call of the
user, a crash, a failure).  Steps of threads, of the CLI and of ticks are never
bounded.

| run | instance | question and answer |
|---|---|---|
| `ledger` | 2 conversations, 2 requests, 3 ids, 2 callers, TTL 1, clock to 2, both limits 2 | Stale clocks, sweeps and two callers: limits hold, no twin cards, one decision, at most one execution, only of what was allowed, as it was asked; every id behaves as an abstract token. |
| `cards` | 2 conversations, 1 request, 1 id, 2 threads, a clock to 2, fair | The card never misreports the decision, a token that waits can be answered, every card that asks closes. |
| `chat_safety` | 3 messages, 1 request, 2 callers, a queue of 2, a pipe of one frame; sets of things that go wrong together | Nothing is sent twice, lost or overtaken, a request is answered once, the account stays leased while the process runs, what a resume would send names no message twice. |
| `chat_live` | 2 messages, a pipe of one frame, fair threads; sets of removal and interrupt, crash, stop and freeze, hang and freeze and interrupt | Accepted messages are handed over, a death frees the account, a stop ends the process unless a writer waits in the full pipe of a CLI that has hung. |
| `chat_limit` | 3 messages and one usage limit | **Violated**: finding 1. |
| `chat_stop` | 1 message, a pipe of one frame, fair threads, a CLI that freezes, an interrupt and a stop | **Violated**: finding 2. |
| `schedules` | 2 schedules (a conversation, a workflow), 1 document event, 2 runs kept per schedule, five budgets of three events, fair | A result stays and is announced as kept, one executor per schedule, no run is running without a thread, none waits or is asked to end for ever. |
| `documents` | 1 trigger, a folder of 2 files, a circuit breaker after 2 runs, six budgets of three or four events, fair | No change is forgotten through stale polls, reviews, calls and crashes; a launched batch is on disk; nothing is launched for a trigger after the call that turned it off, except what a poll had chosen when it was saved as disabled; every change arrives. |
| `document_review` | 1 trigger, 2 edits, a folder that vanishes | **Violated**: finding 3. |
| `ownership` | 3 conversations, an existing and a new session, six sets of troubles with a stop, a death, a crash or two, a shutdown, a process that survives the kill, a lease that cannot be written | One owner and one writer of a session, claims are given back, what a dead backend left is found, a clean shutdown left nothing. |
| `ownership_claims` | 3 conversations, one process that exits | **Violated**: finding 4. |
| `credentials` | a chat and a translation, 3 tokens of one account, one trouble of any kind | The newest token is one the server accepts and is where the comparison of issue times finds it; the application leaves the token of a counted run alone. |

Why the bounds are enough to meet the hazards.  Two callers are what a lock
section split in two needs; a third thread of the runtime is always there (the
reader, the monitor, a watchdog).  Three ids let one be swept, one wait and one
be opened under limits of two.  A clock of three readings with a TTL of one
gives readings before, at and after an expiry; a card needs one id, because
cards of different ids share nothing but the ledger, which `ledger` runs with
three.  Three messages with a queue of two fill the queue while a turn runs.  A
pipe of one frame makes a writer wait, and in the live runs it is an interrupt that
waits in the pipe of a hung CLI while a stop comes.  With two kept runs a third pushes a live
one out of the store.  Two files let a batch on top of another name one the
other does not; triggers share only the poller, whose copy of them is old
whenever a call comes between, so one trigger, deleted and created again, meets
each hazard found.  Three conversations are an old owner, a new one and the one
let in between them, on two sessions because a new session may be named only
once it is registered.  Three tokens allow a rotation by each side after the
other, and a login.  Every action of every module fires in a passing run, and
each property has a mutant of the code that breaks it under the same bounds
(`PROJECT.json`, `mutants`).

`credentials` has a state constraint: it does not go beyond a state in which
`slips` is not empty.  Nothing is claimed of what follows a lost token; the slip
itself is reached and so are all ways to it.

Symmetry is used only where no liveness property is checked.  Deadlock is
checked for the scheduler and the credential.  The other systems come to rest
and their runs say `CHECK_DEADLOCK FALSE`: the ledger's clock stops, a
conversation that has ended is at rest, a conversation is not started twice, a
poller with nothing to do takes no step.

### Fairness, and why the code justifies it

* `OneShotApproval`: the clock runs, threads are scheduled, an armed timer
  fires (`spawn_one_shot_approval_expiry` sleeps on a thread of its own).
  Users owe nothing: no answer is fair.
* `ChatRuntime`: every thread that has a step to take takes it, the reader
  reads, the monitor polls.  A stop gets the child's lock, which the monitor
  takes and frees again and again (`SF` of `Kill`).  The lock of stdin is not so: a
  writer that waits in a full pipe never frees it unless the CLI reads or ends, and
  no fairness helps a stop that wants it (finding 2).  The CLI takes its
  input and ends its turns unless it has hung; nobody is owed an interrupt,
  a stop or a watchdog.
* `Scheduler`: the loop ticks every fifteen seconds, executors go on; both are
  one weak fairness each, so one of several executors may be passed over for
  as long as others have work.  Startups and turns end by their time limits.
* `DocumentAutomation`: the poll loop is a thread that never ends, and a backend
  that died is started again (both in `Poller`); an executor thread reaches its
  end; a call that is half done is finished.  A folder falls quiet
  (`FallsQuiet`) and a cooldown passes (`CoolsDown`): both are times.  Nobody
  is owed an edit, a review or a call.
* `ApprovalLedger`, `SessionOwnership`, `AccountCredentials`: safety only.

### Properties

| property | says |
|---|---|
| `SpentAtMostOnce`, `RanAsAsked` | what the histories of an id may be, also after its entry is gone |
| `NoTwinCards`, `WithinLimits` | the two checks of `open` hold between any two operations |
| `ImplementsToken` | every id is an abstract one-shot token |
| `CardTellsTheDecision`, `WaitingIsAnswerable`, `EveryCardCloses` | the screen against the ledger |
| `QueueOrder`, `AtMostOnce`, `Accounted`, `RestIsReal`, `QueuedIsHanded` | messages against queue, turn, pipe and resume; the exceptions written into them are the deviations below |
| `AnsweredOnce`, `LeaseOutlivesProcess`, `DeathIsNoticed`, `StopEnds`, `StopReallyStops` | requests, and the end of a conversation; `StopEnds` excludes a clogged pipe, `StopReallyStops` does not and is violated |
| `EndedStays`, `ToldAsRecorded`, `OneExecutor`, `RunningIsOwned`, `RunsEnd` | runs against executors, store and announcements |
| `NothingElseForgotten`, `LaunchedIsSaved`, `OffIsOff`, `EveryChangeArrives` | what is on the disk of the user against folders, batches, threads and answers; a trigger switched off against a poller with old copies |
| `OneOwner`, `OneWriter`, `NoDeadClaims`, `Recoverable`, `ShutdownIsHonest` | processes against registry, claims and leases, across backends |
| `NewestLives`, `AppDefers` | the tokens at hand against the one the server accepts; who may rotate it |

## 4. What is proved

All theorems hold for any values of the constants under the named assumptions of
the modules.  Each `IInv`, `CardInv` and `RestInv` was checked by TLC on the instance of
the module's passing run before it was proved.

`ApprovalLedgerProofs`, for any conversations, requests, callers, limits and TTL
and any finite set of ids:

* `LedgerInvariant`: `Spec => []IInv`.  The ledger forgets entries and the
  histories do not, so none of the safety properties is inductive by itself.
  `IInv` adds how entry and history agree while the entry is there
  (`EntryAsAsked`, `EntryAsTold`, `EntryAsSpent`) and that an id that was never
  issued has no history (`UnissuedUnused`).  One lemma per operation; a sweep
  followed by nothing is one lemma for five of them.
* `LedgerTypeOK`, `LedgerSpends`, `LedgerRunsAsAsked`, `LedgerHasNoTwins`,
  `LedgerLimits` follow from it.
* `LedgerImplementsToken`: every step of the ledger is a step or a stutter of
  `ApprovalToken`; the swept entries are the abstract `lost` tokens.
* Assumed: `LedgerAssumption` (the ids are a finite set, limits and TTL are
  positive).

`OneShotApprovalProofs`, on top of it, for any conversations, requests, threads,
limits, TTL and clocks:

* `CardInvariant`: `CardSpec => []CardInv`.  An operation of `chat.rs` is two
  steps or more and the ledger moves in between, so neither property of the cards
  is inductive: a thread that shows, settles or closes works with what the ledger
  said earlier.  `CardInv` therefore says of each thread, and of each armed timer,
  what no step of the ledger can take back (`Sound`, `TimersSound`): an id keeps
  what it was opened for and when it dies (`Dies`), an answer that was taken stays
  (`told`), and a token that nobody can answer any more stays so (`Lapsed`).  That
  is `LedgerLasts`, one lemma over all operations of the ledger.  `ReadingsPast`,
  no thread has a reading of the future, makes a refused answer mean `Lapsed` now,
  though it was judged with an older clock.
* `CardsUseTheLedger`: `CardSpec => Spec`.  Every step of the cards is a step of
  the ledger or leaves it alone, so all theorems of `ApprovalLedgerProofs` hold of
  a conversation with its screens.
* `CardsTypeOK`, `CardsTellTheDecision`, `WaitingStaysAnswerable` follow from
  `CardInvariant`.
* Assumed: `LedgerAssumption`.  The bound `LastOpen` plays no part in it.

`SchedulerProofs`, for any schedules, workflows, events, limits and budgets, in
three layers:

* `ScheduleHasOneExecutor`: `Spec => []OneExecutor`.  `OneExecutor` is not
  inductive: `claim_due` looks at a copy of `running`, and nothing in its guard
  looks at threads.  `ExecutorInv` adds that an executor that has not freed its
  schedule finds it in `running` (`HoldsSchedule`), that the copy holds at least
  what `running` holds while the tick claims (`CopyIsLarge`, true because only
  the tick adds to `running`), and that new threads get new numbers
  (`Numbered`).  Most steps are `GoOn` and `TickGoesOn`, one lemma for all of
  them; `claim_due`, `Release`, `Expire` and the crash have their own.
* `SchedulerTypeOK`, `RunningRunHasThread` (`Spec => []RunningIsOwned`) and
  `EndedRunStays` (`Spec => EndedStays`, an action property), from one `IInv`.
  Besides finer types (`ExecutionsOK`: an entry names a thread that works on
  that run and has not removed it yet; this is why a thread that goes leaves no
  entry behind) it needs `Distinct`: the numbers of the runs a schedule keeps
  are given out and differ, without which a copy written back could hit another
  run.  Every step but a claim is a `GoodStep`: it REWRITES the lists in place
  (`Follows`: a run keeps its number, an ended run its status, and only a run
  with a thread starts running) and either leaves a thread behind every run or
  ends with the process.  `GoodStepKeeps` does the rest once for all of them.
  `claim_due` appends, merges and trims, so it has its own lemmas (`Trimmed`,
  `ClaimRewrites`, `ClaimKeepsRuns`).  `RunningIsOwned` holds through the two
  steps that take threads away because each closes what it leaves: `Expire` its
  own run, `Restarts` all of them.
* `ResultIsAnnouncedOnce`: `Spec => []ToldAsRecorded`.  `ToldInv` says that what
  was announced is a result the store keeps or has lost the run of
  (`Announced`), that a run an executor still works on has not been announced
  (`Unannounced`), and that an executor records only what waits or has ended
  (`Ending`).  It rests on both layers below: `EndedKeep` and `Descends` (no
  number comes back) keep what was announced true, `Distinct` makes what
  `finish_run` gives back the one run the store has, and `OneExecutor` excludes a
  second executor of the same run that would announce it again.
* Assumed: `SchedulerAssumption`.

`SessionOwnershipProofs`, for any conversations, sessions and budgets:

* `SupervisorTypeOK`, `SupervisorInvariant`, `SessionHasOneOwner`
  (`OneOwner`) and `ClaimsAreGivenBack` (`NoDeadClaims`).
* A session is claimed by one step and the claim given back by another, much
  later, and only a claim looks at what is there.  `IInv` says what a start has at
  each stage (`Stages`), that a claim names a conversation of that session that
  resumes it or is registered (`ClaimsAreHeld`), that an owner has the claim if
  anybody has (`ClaimsOfOwners`), and that a new session has one maker and is
  resumed by nobody before it is registered (`NewSessions`).  The only step that
  breaks them is a registration that comes after the end of its conversation: it
  is finding 4, and the theorems say "unless a claim was overwritten" for it.

The second half of `SessionOwnershipProofs`, on top of it:

* `ProcessInvariant`, `SessionHasOneWriter` (`OneWriter`), `OrphansAreOnDisk`
  (`Recoverable`), `CleanShutdown` (`ShutdownIsHonest`).
* A process that the backend has its hands on belongs to an owner, so there is
  one per session by `OneOwner`.  An orphan has a lease, or was lost before its
  record (`loose`); a backend that accepts starts has tried to end all of them,
  and those it could not end are in `stale`, which `Claim` refuses.  So an
  orphan and a held process never share a session.
* Assumed by both: `NoneAssumption`, `SessionAssumption` and `BudgetsAssumption`
  (the budgets are numbers).

`AccountCredentialsProofs`, for any runs, tokens and troubles:

* `CredentialTypeOK`, `CredentialInvariant`, `AccountKeepsAToken`
  (`NewestLives`), `RunsAreLeftAlone` (`AppDefers`).
* Every writer holds a copy it read before, and the copy may be old.  The heart
  of the first result is that some token at hand (in the vault, the profile, or
  on its way from the server to one of them) is `Best`: accepted, and newer than
  all others.  Writing a copy keeps it because a step that puts a token over a
  newer one that its writer had not seen, and every other way to lose one, adds
  to `slips`.
* The second needs to know what was read when: no copy is newer than the place
  it was read from (`Behind`), what the profile is given is in the vault
  (`Written`), a token the application has had exchanged is older than what came
  of it (`Spent`), a refresh goes on beside those runs only that were acquired
  meanwhile (`Apart`), and what any other counted run reads and holds is newer
  than every token exchanged so far (`Fresh`).
* Assumed: `UncountedAssumption`, `MaxTokenAssumption`, `MaxTroublesAssumption`,
  `CliAssumption` (no run is named as one of the application's threads).

`DocumentAutomationProofs`, for any triggers, folders, files, limits and budgets:

* `LaunchInvariance`, `DocumentTypeOK`, `LaunchedBatchIsSaved` (`LaunchedIsSaved`)
  and `OffTriggerStaysOff` (`OffIsOff`, an action property), from `LaunchInv`.
  A thread is started for a batch that was claimed from an old copy of the
  triggers, so what a call may have done since has to be said of the copy:
  a trigger that a finished call has switched off has no batch waiting that the
  poller has chosen or could still choose (`OffStays`; one that is saved as disabled
  counts as off at once only if no poll has chosen it), a call that is half done has done its
  first half (`HalfDone`), a trigger without a record, past or being removed, has
  nothing anywhere (`UnbornIsUnknown`).  A launched batch belongs to a trigger
  that counts as running until its thread is over (`Threads`), which is why no
  second thread is started and the saved batch is not replaced under the first.
* `NothingElseIsForgotten` (`NothingElseForgotten`), from `ForgetInv`.  The
  property compares the file with what the action has learnt, and between the two
  lie the launched batch, the waiting one, the changes of the folder and its
  record, each merged with the next at some step.  They are LAYERS: `Fits` says
  that each change is one that can happen to what lies below it (a creation only
  of what may be missing there), `Top` what the layers together say of the file.
  `Carries`: the top is what the folder is recorded with, or the record is old, or
  the file is about to be reported.  Merges, claims, launches and restarts move
  changes between layers and keep `Fits` and the top, which is a lemma about three
  changes each (`NoticeFits` and those after it); a scan puts one on top; an
  answer takes the lowest away and into `known`.  The steps that do not keep it
  mark one of the five exceptions.
* The rest of `ForgetInv` is what the lemmas need of numbers: ids and contents are
  given out once (`Numbered`, `Contents`), and what waits behind a launched batch
  is not the batch that was answered (`Unanswered`).
* Assumed: `DocumentAssumption` (a trigger has a folder, the breaker a positive
  limit, the budgets are numbers, `None` is no record).

`ChatRuntimeProofs`, for any messages, requests, callers, limits, pipe and
budgets:

* `RuntimeInvariance`, `RuntimeTypeOK`, `LeaseOutlivesTheProcess`
  (`LeaseOutlivesProcess`), `RequestsAreAnsweredOnce` (`AnsweredOnce`),
  `MessagesAreWrittenOnce` (`AtMostOnce`), `AcceptedIsAccounted` (`Accounted`), all
  from one `IInv`.
* What makes it hard is that half of the state is in `todo`: a step was put there
  when something held, and is taken when the state is another.  `Promise` says what
  each step owes to the state as it is while the step waits: a release or the
  clearing after a kill waits only when the process is gone; a step that brings a
  message has one that was sent, and one that may still fail has a sender who has
  not been told it was accepted; a message to be steered is neither the running
  input nor kept for a resume; steps of a stop wait only in a conversation that is
  being stopped.  With `Gone` (the lease is given back and the child forgotten only
  after the process) the first of these gives `LeaseOutlivesProcess`.
* Of messages and requests it is said where they are.  A message is in the queue,
  in ONE thread's steps, or written (`MessagesApart`, and `Separate` within a
  list); a request is with the CLI, on its way, on the screen, in one thread's
  steps, or answered (`RequestsApart`).  `ResumeApart` adds what a message is
  remembered for, `Undone` the one order of steps that it depends on: a turn that
  could not be written is taken back (`unclaim`) before its message returns to the
  queue.  `Here` is `Accounted` with the thread's hands among the places.
* Most steps carry nothing.  `Lightly` gathers them, and one lemma each says that
  a thread that only takes or adds such steps keeps the lists (`Harmless`); `Mild`
  does the same for what they do to the state.  The steps that move a message
  (`Carries`, `Brings`) and those that move a request (`Asking`) have their own
  lemmas.
* `MessagesGoInOrder` (`QueueOrder`), from `OrderInv` on top of `IInv`.  Pop and
  claim are one lock section, but the write is a later step, so what forbids a
  second claim in between must be found elsewhere.  It is that the phase becomes
  `ready` only when a turn's result is noted, and that ONE turn at most is under
  way (`OneTurn`): in the steps of one thread, unread in the CLI's stdin, worked
  on, its result unread, or among the steps of the reader.  A ready phase means
  none (`NoTurn`).  `InLine` says of what is written, in hand and queued that each
  was let in before the next, and `HandedInLine` is the property itself.  All this
  holds while none of the three exceptions of the property has happened and the
  pipe has a reader; a failing write may put a message back, and then nothing more
  is written (`HandedInLine` stays, `Flow` need not).  A step either moves no turn
  (`Steady`, one lemma per group of steps) or moves one from one place to the next
  (`StartMoves` to `ResultMoves`).
* `ChatRestProofs`: `RestIsTrue` (`RestIsReal`), from `RestInv` on top of `IInv`.  The property only
  speaks of a system at rest, so the invariant has to say why a conversation that
  is NOT at rest may be busy.  `Busy` lists what will set the phase again: an end
  in a thread's hands (`EndTags`: a turn to be written or taken back, a stop, the
  phase itself), a message unread in the CLI's stdin, a CLI at work, a result
  unread.  Each of these leads to another of them or to a phase that is not one of
  work (`BusyKept`).  What is left is the one claim that writes nothing, that of a
  delivery the last turn did not take in (`Adopt`).  Without interrupts the CLI has
  the message still, or has said that it started (`KeptOrStarted`), and after such
  a word, or content, comes a result (`ResultFollows`).  With interrupts the CLI
  may have dropped it; then the turn is among the `armed`, and no thread has a step
  left that would pass for a sign of life (`NoSign`): the reader's list ends with
  the adoption (`ListsOK`), the others' signs come before the end of a stop
  (`SignsOfStops`), and a stop that failed has left no delivery to adopt
  (`StoppedEmpty`, `WrittenBefore`).  What the exceptions of the property would
  bring is absent until they happen (`Unasked`, `Unrefused`, `Uninterrupted`).
  `Orderly` says of every step of every thread, once, what it puts into a list and
  what it leaves behind (`OrderlyNext`), `Spoken` what the CLI says and why
  (`CliSpoken`); each part of `RestInv` is kept by one lemma on top of these.
  The attempt made the property sharper: a pending interrupt watchdog was an
  alternative to an armed turn in it, and is not needed.
* Assumed: `RuntimeAssumption` (the limits and budgets are numbers, the pipe takes
  a frame, and no request is named `"idle"`, `"thinking"` or `"speaking"`, which
  the model uses for what the CLI does when it waits for no answer).

Only model-checked: liveness.  The prover has no fairness and no ENABLED.  Every
invariant and every action property of a passing run has its theorem.

No statement needs an induction over data.

## 5. Findings

1. `LimitKeepsInputs`: a message accepted between the keeping of the queue for a
   resume and the clearing of the queue by the stop is lost
   (`chat.rs:12341`, `7816`).
2. `StopReallyStops`: a writer that waits in a full pipe holds the lock of stdin
   (`chat.rs:7845`), which every stop takes before it comes to the kill (7782).
   With a frozen CLI both wait for ever, though 6617-6619 say that the stop button
   really stops a process that does not read, and 7771-7772 that every stop is
   raised to a SIGKILL.  The trace: a turn fills the pipe of a CLI that freezes, an
   interrupt waits in it, a stop waits for the interrupt.  6618 assumes that the
   write succeeds; the watchdog it speaks of is started after the write only.
3. `AnsweredIsNotReused`: a batch that has run while its folder vanished is put
   back on top of the newer one and gives it its event id, which the other side
   has answered (`document_automation.rs:1515`, against 531-533): the newer
   changes run as a repetition, that is not at all.
4. `ClaimsExclude`: `register_runtime_session_claim` inserts without looking.  A
   conversation that ended before it registers takes the claim of the next start
   of the session, and a third is let in beside the second (`chat.rs:4205`,
   against 1791).

### Known deviations

Behaviours met while modelling.  The models have them unless it is said that
they come from reading; properties that would exclude them are not stated, or
name them as exceptions.

Approvals and cards (`chat.rs`):

* `open_db_approval` and `open_ssh_approval` let go of the ledger before they
  emit the card.  A second identical call that found the entry waiting may emit
  its card after the answer of the first: the answered card is replaced by one
  that asks, and later closes as cancelled.
* The consume gate looks the conversation up in a registry that ended
  conversations never leave (6060).
* A permission outlives a conversation that ends other than by a stop
  (5828-5885, 6053).

Runtime (`chat.rs`):

* A start of a turn that fails because stdin was closed (6596), or a result still
  being handled (7855), sets a stopped conversation back to ready.
* Finding 2 concerns user, watchdog and limit alike: `StopEnds`, which is checked
  in the same small pipe, excludes it as `Clogged`.
* A message that is put back because its write failed is drained by the next send
  or the end of a turn and by nobody else.  `Accounted` says that it is kept;
  `QueuedIsHanded` is checked without failing writes.
* A steered message can be written before a queued one that was drained and is
  not yet written (6690; the comment at 6769 says the queue is empty).
* A message sent between the ready phase and the report of the turn's end has
  its own turn reported as over (7888-7889, 12060).
* An answer is written before the interrupt it implies is marked (7622, 7646);
  the result may be handled first.
* The phase after an answer is worked out under the lock and set later (7651);
  a request queued in between is hidden behind a running phase.
* A turn that fails on its attachment leaves a queue nobody drains (6593-6602):
  `QueueOrder` excludes `gone`, and `QueuedIsHanded` is checked without it.
* The result of a turn that the CLI started by itself also ends a turn claimed
  while it ran: the next message starts beside the first (12297-12355).
  `QueueOrder` excludes `wake`.
* A usage limit reported while a turn is claimed and not yet written keeps the
  input of that turn for a resume (2389); if the write then fails, the message is
  also put back into the queue (8349) and a resume would send it twice.  The part
  of `AtMostOnce` about a resume says `resent` for it; that such a message is
  written at most once holds without exception.
* After an interrupt that crosses with a steer the conversation may rest busy
  until a watchdog ends it.  No watchdog is left if the CLI refuses a further
  interrupt, whose error passes for progress (12290), or if a turn that failed on
  its attachment reports its end after the next one was claimed and takes its
  number away (6593-6602, 12060).  `RestIsReal` excludes both; the theorem
  `RestIsTrue` says that there is no third way as long as the CLI asks for no
  permission.

Supervisor (`chat.rs`):

* A stop that fails marks its conversation as failed while the process lives; a
  failed conversation does not hold its session, so the next start of it runs
  beside the process (7827-7828).  `OneWriter` excludes such a process.
* The shutdown flag is looked at once, at the beginning of a start; a start past
  the door that asks for no account spawns after a shutdown that said it was
  clean.  `ShutdownIsHonest` excludes it.
* A crash between the spawn, or the handshake of up to sixty seconds, and the
  lease leaves a process nobody will look for; so does a lease that cannot be
  written together with a process that survives its kill, which also drops the
  runtime and the account lease.
* Two orphans of one session overwrite each other in `stale_resume_sessions`.
* From reading: the monitor clears the lease when only the leader of the group
  has exited (against the comment at 12971); the SIGKILL of the recovery does not
  look at the identity again after its wait.

Scheduler (`scheduler.rs`):

* `execute_claim` goes on with the schedule `start_run` read back from the store,
  which no longer carries the text about the document that `claim_due` put in
  front of the prompt (1551, 2591): the conversation starts with the plain prompt.
  The model has it (`document` of a thread, lost in `start_run`).
* `cancel_run` looks its owner up and writes later (1058, 1086): a run claimed in
  between is stored as cancelled while its executor, never told, works on.
* The drop of the registration frees the schedule before it closes the run
  (1900, 1903): the next attempt of the same run may be closed as failed.
* A request merged into a waiting run while its thread prepares the account is
  overwritten by the thread's copy (2593).
* A cancel between the last look of `launch_started_runtime` and the next look
  of `await_run_startup` leaves a conversation nobody owns (`forsaken`, 2377).
* `finish_run` undoes a switch-on made during the run (2586); a cancel during a
  resumed attempt with the policy Pause disables the schedule (2104); a startup
  that takes too long is recorded as cancelled (2380).
* An `update` that switches off leaves waiting runs and events alone, unlike
  `set_enabled`; a waiting run of a disabled schedule is still claimed.
* A second document event replaces the first in a waiting run; `trim_runs` may
  drop a live run (3374).

Document automation (`document_automation.rs`):

* A trigger saved as disabled (`update_trigger`, 613-625) keeps its waiting batch,
  which `set_trigger_enabled` (660-664) would have dropped.  The next poll drops it
  (1058-1060), but one that chose the trigger in its copy before the call launches
  the batch after the call has returned.  `OffIsOff` and `OffTriggerStaysOff` let
  this one launch through: such a trigger counts as off from then on, or at once if
  no poll had chosen it.
* The overlay of finding 3 also loses changes without any id: merging the old
  batch as the newer one makes a file created later and deleted earlier vanish
  from the batch.
* A trigger approved again between the mark `NeedsReview` and the end of its
  thread (1503-1516) loses the batch of that thread (the comment at 1062 says it
  is kept).
* `initialize_baseline` records the folders before `save_offline_report`; a crash
  in between loses the offline changes (against 926-927).
* A batch that creates a file has run and was put back (`NeedsReview`, a failure,
  a restart).  When the file is removed, merging the removal makes the file vanish
  from the batch (1357-1358), though the action has been told of it.
* A poll saves a new file for its triggers and then records the folder (913-928).
  If the process ends in between and the file is gone by the next start, the
  creation waits and nothing ever finds the removal.
* `NothingElseForgotten` and `EveryChangeArrives` name these five as exceptions
  (`overlaid`, `approvedMeanwhile`, `unreported`, `recounted`, `unrecorded`), each
  marked at the step that does it.  The last two were found by the attempt to
  prove the property, which TLC's budgets had not reached.
* What is dropped on purpose (`waived`: a trigger that was off when its folder
  fell quiet, a folder recorded anew) stays dropped for that trigger and file:
  nothing is claimed of the file for it again.
  `known` is what the answered event said of the file or what was on disk then.
* From reading: `merge_action_batch` keeps the path of the older batch after the
  folder moved; a stale look at mature batches puts a batch back for a trigger
  that was deleted meanwhile, where it stays; a folder that vanishes and returns
  takes a trigger from `NeedsReview` through `Degraded` to `Active` without the
  review 649-650 ask for; a new offline report acknowledges older ones nobody
  has seen.

Accounts (`accounts.rs`):

* `verify_registered_active_accounts` reads the status before it has the switch
  guard, and its recovery adopts the profile without comparing ages: a login
  completed meanwhile is overwritten (4310, 4344, against 4025-4026: an older
  profile is never adopted if the ages can be compared; 6160-6166 tell of the day
  one was).  The credential run reaches it: it is the slip `recovered`.
* The look at the runtime count (3406) and the exchange of the token are not one
  section: a run acquired in between loads a token the application is just
  spending (against 4404-4410).
* Runs of a translation are never counted (`translation.rs:1947`), so the
  application does not wait for them.
* `sync_profile_credential` has no lock: the slower of two starts writes the
  vault's old token over one the faster one's CLI has just been given (against
  4044-4050).
* A profile that cannot be read (`.ok()`, 3994) is taken for a missing one and
  overwritten.
* A rejected refresh marks an error over a login completed meanwhile; a refresh
  under way puts its token over a newer login; `refresh_usage` writes back the
  status of the copy it started with.
* `NewestLives` excludes what `slips` names, one name per way above.

## 6. Abstractions

* Ledger: titles and wording; the value of a secret; what a request is beyond
  its identity.
* Runtime: other harnesses, automatic approvals, permission modes, session
  metadata, replay to late subscribers, uploads, the process-lease file.  A
  write to a pipe is one step, taken whole or not at all.  A usage limit is
  always reported by an error content and a result.  The empty input of a turn
  the CLI started itself is no message.
* Supervisor: one provider and the persistent harness; records of failures and
  metadata of sessions; two stops of one conversation follow each other; a new
  session can be named only once it is registered.
* Scheduler: how the next time is computed (recurrences, quiet hours, pacing:
  a choice of `closed`), what makes an account ready (a choice), session ids,
  adoption of workflow versions, failures of the store file.
* Document automation: a trigger has one folder and its filters match every
  file; `MAX_EVENT_PATHS` and folders removed from the registry are left out;
  loading the triggers and asking which have cooled down are one step; the purge
  of folders the user protected happens with the restart.
* Credential: one Claude account; the issue times of two tokens can always be
  compared; a login is one step that writes the vault; the copy that
  `refresh_usage` works with is the one it makes once it has the usage lock;
  deletion, `revalidate`, the recovery of the vault file, the profile probe and
  the other providers are left out.
* Stores everywhere: a lock file and a rename make a transaction one step.

## 7. Not modelled, and the plan

The reason of each part is its note in `PROJECT.json`, `components`.  In short:
most of the source parses, formats and renders (catalog, git, documents, skills,
screens, remote access, HTTP) and has little order to check; some parts have
order of the kinds modelled here and have not been reached.  Of those, in this
order:

1. `Codex` steering as a variant of `ChatRuntime` (the id of the turn decides).
2. `WorkflowRounds` and pacing reservations: reserve, launch, settle once, crash.
3. `TwoStepFiles`: trash and staged replace with a crash at every rename.
4. Accounts: switches, deletion and the automatic switch on a limit, on top of
   `AccountCredentials`; composes with `LeaseOutlivesProcess`.
5. `ScheduleRuns`: an abstract specification of a run (waiting, running, one
   result) that `Scheduler` implements as long as the store keeps the run.
