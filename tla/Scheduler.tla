----------------------------- MODULE Scheduler -----------------------------
(***************************************************************************)
(* Repeated requests (scheduler.rs): the store of schedules and runs, the  *)
(* tick of the process that holds the runner lock, the threads that        *)
(* execute what a tick claimed, and the calls of users and of document     *)
(* triggers.                                                               *)
(*                                                                         *)
(* The store is a file behind a lock: `with_store` is one step.  The set   *)
(* of busy schedules and the map of executions are behind locks of their   *)
(* own, in memory, so a step that uses both was two in the code and is two *)
(* here.  An executor works on a COPY of the schedule and of the run and   *)
(* writes the copy back.                                                   *)
(*                                                                         *)
(* Times are what they make happen: a schedule is due, a heartbeat is      *)
(* late.  Runs and threads are numbered per schedule.                      *)
(***************************************************************************)
EXTENDS Integers, FiniteSets, Functions, SequencesExt

CONSTANTS
  Schedule,
  Workflow,               \* schedules that run a workflow in place of a conversation
  Event,                  \* events of document triggers
  MAX_RUNS_PER_SCHEDULE,
  Budgets                 \* bounds of the model: how often each kind of event may happen

None == "none"

Kind == {"create", "update", "delete", "switch", "pause", "run_now", "document", "cancel",
         "due", "closed", "wait", "fail", "usage", "unresumed", "slow", "sleep", "panic", "crash"}
AnyKind == "any"  \* events of all these kinds together

ASSUME SchedulerAssumption ==
  /\ Workflow \subseteq Schedule
  /\ None \notin Event
  /\ MAX_RUNS_PER_SCHEDULE \in Nat \ {0}
  /\ \A budget \in Budgets : budget \in [Kind \cup {AnyKind} -> Nat]

VARIABLES  \* the store
  schedules,  \* life, switch, whether the next run is due, whether a run was asked for
  runs,       \* the runs kept of each schedule, oldest first
  pending,    \* document events that wait for a tick
  paused      \* the switch over all schedules

VARIABLES  \* the process that holds the runner lock
  up,
  running,     \* schedules with a claimed run
  executions,  \* who executes each run
  threads,     \* the executors
  tick,        \* the scheduler loop
  cancel,      \* a call of cancel_run
  forsaken     \* conversations that are up and that no executor knows

VARIABLES
  made, claims,  \* runs made and threads started, per schedule
  told,          \* history: results announced of each run
  events         \* the budget of this behaviour and what has happened

store == <<schedules, runs, pending, paused>>
memory == <<running, executions, threads, forsaken>>
counters == <<made, claims>>
vars == <<store, up, memory, tick, cancel, counters, told, events>>

Waiting == {"waitingForAccount", "waitingForUsage"}
Terminal == {"completed", "failed", "skipped", "cancelled"}
Status == Waiting \cup {"running"} \cup Terminal

Run == [n : Nat, status : Status, manual : BOOLEAN, event : Event \cup {None}, late : BOOLEAN]

Thread ==
  [run : Run, enabled : BOOLEAN, document : Event \cup {None}, cancelled : BOOLEAN,
   pc : {"spawned", "preparing", "starting", "referencing", "launching", "working", "recording",
         "deregistering", "releasing", "expiring"},
   attempt : {"resume", "retry", "fresh"},
   chat : {"none", "starting", "up", "gone", "failed", "unresumed"}]

TypeOK ==
  /\ schedules \in [Schedule -> [life : {"unborn", "kept", "deleted"}, enabled : BOOLEAN,
                                 due : BOOLEAN, manual : BOOLEAN]]
  /\ runs \in [Schedule -> Seq(Run)] /\ \A s \in Schedule : Len(runs[s]) <= MAX_RUNS_PER_SCHEDULE
  /\ pending \in [Schedule -> Seq(Event)] /\ paused \in BOOLEAN
  /\ up \in BOOLEAN /\ running \subseteq Schedule
  /\ threads \in [DOMAIN threads -> Thread] /\ DOMAIN threads \subseteq Schedule \X Nat
  /\ DOMAIN executions \subseteq Schedule \X Nat
  /\ executions \in [DOMAIN executions -> DOMAIN threads]
  /\ tick.pc \in {"idle", "expiring", "claiming"} /\ tick.gap \in BOOLEAN
  /\ cancel.pc \in {"idle", "looking", "writing"}

Init ==
  /\ schedules = [s \in Schedule |-> [life |-> "unborn", enabled |-> FALSE, due |-> FALSE, manual |-> FALSE]]
  /\ runs = [s \in Schedule |-> << >>] /\ pending = [s \in Schedule |-> << >>] /\ paused = FALSE
  /\ up = TRUE /\ running = {} /\ executions = << >> /\ threads = << >> /\ forsaken = {}
  /\ tick = [pc |-> "idle", gap |-> TRUE, expired |-> {}, signalled |-> {}, busy |-> {}]
  /\ cancel = [pc |-> "idle", run |-> << >>]
  /\ made = [s \in Schedule |-> 0] /\ claims = [s \in Schedule |-> 0]
  /\ told = << >>
  /\ events \in [budget : Budgets, count : {[k \in Kind \cup {AnyKind} |-> 0]}]

Spend(kind) ==
  /\ events.count[kind] < events.budget[kind]
  /\ events.count[AnyKind] < events.budget[AnyKind]
  /\ events' = [events EXCEPT !.count[kind] = @ + 1, !.count[AnyKind] = @ + 1]

Kept == {s \in Schedule : schedules[s].life = "kept"}
With(f, x, v) == [y \in DOMAIN f \cup {x} |-> IF y = x THEN v ELSE f[y]]
Without(f, x) == Restrict(f, DOMAIN f \ {x})

\* A run is named by its schedule and its number; the store may have lost it.
Stored(id) == {run \in ToSet(runs[id[1]]) : run.n = id[2]}
\* The runs of the schedule that are among the given ones get the status.
Settled(s, settling, status) ==
  [i \in DOMAIN runs[s] |-> IF runs[s][i] \in settling
                             THEN [runs[s][i] EXCEPT !.status = status, !.late = FALSE] ELSE runs[s][i]]
RunsIn(s, statuses) == {run \in ToSet(runs[s]) : run.status \in statuses}
expire_running(id) ==
  [runs EXCEPT ![id[1]] = Settled(id[1], {run \in Stored(id) : run.status = "running"}, "failed")]

-----------------------------------------------------------------------------
(* Calls of users and of document triggers, from any process.              *)
outside == <<up, memory, tick, cancel, counters, told>>

create(s) ==
  /\ schedules[s].life = "unborn"
  /\ Spend("create")
  /\ \E enabled \in BOOLEAN :
       schedules' = [schedules EXCEPT ![s] = [@ EXCEPT !.life = "kept", !.enabled = enabled]]
  /\ UNCHANGED <<runs, pending, paused, outside>>

\* Unlike set_enabled, an update that switches off leaves what waits alone.
update(s) ==
  /\ s \in Kept
  /\ Spend("update")
  /\ \E enabled \in BOOLEAN :
       schedules' = [schedules EXCEPT ![s] = [@ EXCEPT !.enabled = enabled, !.due = FALSE]]
  /\ UNCHANGED <<runs, pending, paused, outside>>

delete(s) ==
  /\ s \in Kept
  /\ Spend("delete")
  /\ schedules' = [schedules EXCEPT ![s] = [@ EXCEPT !.life = "deleted"]]
  /\ runs' = [runs EXCEPT ![s] = << >>]
  /\ pending' = [pending EXCEPT ![s] = << >>]
  /\ UNCHANGED <<paused, outside>>

set_enabled(s, enabled) ==
  /\ s \in Kept
  /\ Spend("switch")
  /\ IF enabled
     THEN /\ schedules' = [schedules EXCEPT ![s] = [@ EXCEPT !.enabled = TRUE, !.due = FALSE]]
          /\ UNCHANGED <<runs, pending>>
     ELSE /\ schedules' = [schedules EXCEPT ![s] = [@ EXCEPT !.enabled = FALSE, !.manual = FALSE]]
          /\ pending' = [pending EXCEPT ![s] = << >>]
          /\ runs' = [runs EXCEPT ![s] = Settled(s, RunsIn(s, Waiting), "skipped")]
  /\ UNCHANGED <<paused, outside>>

set_paused ==
  /\ Spend("pause")
  /\ paused' = ~paused
  /\ UNCHANGED <<schedules, runs, pending, outside>>

run_now(s) ==
  /\ s \in Kept
  /\ Spend("run_now")
  /\ schedules' = [schedules EXCEPT ![s] = [@ EXCEPT !.manual = TRUE]]
  /\ UNCHANGED <<runs, pending, paused, outside>>

\* An event that waits, or that a kept run carries, is not taken again.
run_now_from_document_trigger(s, e) ==
  /\ s \in Kept /\ schedules[s].enabled
  /\ e \notin ToSet(pending[s]) /\ \A run \in ToSet(runs[s]) : run.event # e
  /\ Spend("document")
  /\ pending' = [pending EXCEPT ![s] = Append(@, e)]
  /\ UNCHANGED <<schedules, runs, paused, outside>>

\* The time of the next run comes.
FallsDue(s) ==
  /\ s \in Kept /\ schedules[s].enabled /\ ~schedules[s].due
  /\ Spend("due")
  /\ schedules' = [schedules EXCEPT ![s] = [@ EXCEPT !.due = TRUE]]
  /\ UNCHANGED <<runs, pending, paused, outside>>

-----------------------------------------------------------------------------
(* cancel_run.  The owner is told to stop before the store is written.     *)
\* signal_cancellation: the flag, and the conversation if it is known by now.
Signalled(t) ==
  LET known == threads[t].chat = "up" /\ threads[t].pc = "working" IN
  [threads EXCEPT ![t] = [@ EXCEPT !.cancelled = TRUE, !.chat = IF known THEN "gone" ELSE threads[t].chat]]

CancelReads(s) ==
  /\ up /\ cancel.pc = "idle"
  /\ \E run \in ToSet(runs[s]) :
       /\ run.status \notin Terminal
       /\ cancel' = [pc |-> "looking", run |-> <<s, run.n>>]
  /\ Spend("cancel")
  /\ UNCHANGED <<store, up, memory, tick, counters, told>>

NoRuntime == forsaken = {} /\ \A t \in DOMAIN threads : threads[t].chat # "up"

CancelLooks ==
  /\ cancel.pc = "looking"
  /\ \/ /\ cancel.run \in DOMAIN executions
        /\ threads' = Signalled(executions[cancel.run])
        /\ cancel' = [cancel EXCEPT !.pc = "writing"]
     \/ /\ cancel.run \notin DOMAIN executions
        /\ cancel' = IF NoRuntime THEN [cancel EXCEPT !.pc = "writing"] ELSE [pc |-> "idle", run |-> << >>]
        /\ UNCHANGED threads
  /\ UNCHANGED <<store, up, running, executions, forsaken, tick, counters, told, events>>

CancelWrites ==
  /\ cancel.pc = "writing"
  /\ LET s == cancel.run[1] IN
     runs' = [runs EXCEPT ![s] =
                Settled(s, {run \in Stored(cancel.run) : run.status \notin Terminal}, "cancelled")]
  /\ cancel' = [pc |-> "idle", run |-> << >>]
  /\ UNCHANGED <<schedules, pending, paused, up, memory, tick, counters, told, events>>

-----------------------------------------------------------------------------
(* A tick: what was missed is skipped, leases that ran out are closed,     *)
(* what is due is claimed.                                                 *)
skip_missed ==
  /\ up /\ tick.pc = "idle" /\ tick.gap
  /\ schedules' = [s \in Schedule |->
                     [schedules[s] EXCEPT !.due = @ /\ ~schedules[s].enabled]]
  /\ tick' = [tick EXCEPT !.gap = FALSE]
  /\ UNCHANGED <<runs, pending, paused, up, memory, cancel, counters, told, events>>

Late(s) == {run \in RunsIn(s, {"running"}) : run.late}

\* reconcile_expired_runs reads the store first ...
ReadExpired ==
  /\ up /\ tick.pc = "idle" /\ ~tick.gap
  /\ \E s \in Schedule : Late(s) # {}
  /\ tick' = [tick EXCEPT !.pc = "expiring",
                !.expired = UNION {{<<s, run.n>> : run \in Late(s)} : s \in Schedule}]
  /\ UNCHANGED <<store, up, memory, cancel, counters, told, events>>

\* ... then tells the owner of each, ...
SignalExpired ==
  /\ tick.pc = "expiring" /\ tick.signalled = {}
  /\ \E id \in tick.expired :
       /\ tick' = [tick EXCEPT !.signalled = {id}]
       /\ threads' = IF id \in DOMAIN executions THEN Signalled(executions[id]) ELSE threads
  /\ UNCHANGED <<store, up, running, executions, forsaken, cancel, counters, told, events>>

\* ... and closes it.
WriteExpired ==
  /\ tick.pc = "expiring"
  /\ \E id \in tick.signalled :
       /\ runs' = expire_running(id)
       /\ tick' = [tick EXCEPT !.expired = @ \ {id}, !.signalled = {}]
  /\ UNCHANGED <<schedules, pending, paused, up, memory, cancel, counters, told, events>>

\* claim_due copies the set of busy schedules before it opens the store.
CopyRunning ==
  /\ up
  /\ \/ tick.pc = "idle" /\ ~tick.gap /\ \A s \in Schedule : Late(s) = {}
     \/ tick.pc = "expiring" /\ tick.expired = {}
  /\ tick' = [tick EXCEPT !.pc = "claiming", !.busy = running]
  /\ UNCHANGED <<store, up, memory, cancel, counters, told, events>>

\* Mutant: nothing is trimmed.
keep_runs(list) == list

trim_runs(list) ==
  IF Len(list) <= MAX_RUNS_PER_SCHEDULE THEN list
  ELSE SubSeq(list, Len(list) - MAX_RUNS_PER_SCHEDULE + 1, Len(list))

FirstEvent(s) == IF pending[s] = << >> THEN None ELSE Head(pending[s])
\* Someone, not the clock, wants the schedule to run.
Asked(s) == schedules[s].manual \/ pending[s] # << >>
Elapsed(s) == schedules[s].enabled /\ schedules[s].due
\* A schedule outside its hours is passed over; the pause holds only what the clock wants.
RegularDue(s, closed) == ~paused /\ Elapsed(s) /\ s \notin closed

Merges(s) == \E run \in ToSet(runs[s]) : run.status \in Waiting
\* merge_into_waiting_run
Merged(s, run) ==
  [run EXCEPT !.manual = @ \/ Asked(s), !.event = IF pending[s] = << >> THEN @ ELSE FirstEvent(s)]
MergedRuns(s) ==
  [i \in DOMAIN runs[s] |-> IF runs[s][i].status \in Waiting THEN Merged(s, runs[s][i]) ELSE runs[s][i]]
WaitingRun(s) == CHOOSE run \in ToSet(MergedRuns(s)) : run.status \in Waiting

new_scheduled_run(s) ==
  [n |-> made[s] + 1, event |-> FirstEvent(s), manual |-> Asked(s), late |-> FALSE,
   status |-> IF s \in tick.busy THEN "skipped" ELSE "waitingForAccount"]

\* Mutant: the pause holds a waiting run that a user asked for, too.
GoesOnUnlessPaused(s) == ~paused /\ s \notin tick.busy
\* Mutant: a waiting run goes on while another thread has it.
GoesOnAlways(s) == ~paused \/ WaitingRun(s).manual

\* A waiting run goes on if nobody executes it and it is not held by the pause.
GoesOn(s) == (~paused \/ WaitingRun(s).manual) /\ s \notin tick.busy

Spawned(s, run) ==
  [run |-> run, enabled |-> schedules[s].enabled, document |-> FirstEvent(s), cancelled |-> FALSE,
   pc |-> "spawned", attempt |-> "fresh", chat |-> "none"]

claim_due ==
  /\ tick.pc = "claiming"
  /\ \E closed \in SUBSET {s \in Kept : Elapsed(s)} :
     LET fresh == {s \in Kept : ~Merges(s) /\ (Asked(s) \/ RegularDue(s, closed))}
         claimed == {s \in fresh : s \notin tick.busy} \cup {s \in Kept : Merges(s) /\ GoesOn(s)}
         claim(s) == Spawned(s, IF Merges(s) THEN WaitingRun(s) ELSE new_scheduled_run(s))
     IN /\ IF closed = {} THEN UNCHANGED events ELSE Spend("closed")
        /\ runs' = [s \in Schedule |->
                      IF s \in fresh THEN trim_runs(Append(runs[s], new_scheduled_run(s)))
                      ELSE IF s \in Kept THEN MergedRuns(s) ELSE runs[s]]
        /\ made' = [s \in Schedule |-> made[s] + IF s \in fresh THEN 1 ELSE 0]
        /\ schedules' = [s \in Schedule |->
                          IF s \notin Kept THEN schedules[s]
                          ELSE [schedules[s] EXCEPT !.manual = FALSE,
                                  !.due = @ /\ ~RegularDue(s, closed) /\ s \notin closed]]
        /\ pending' = [s \in Schedule |-> IF pending[s] = << >> THEN << >> ELSE Tail(pending[s])]
        /\ claims' = [s \in Schedule |-> claims[s] + IF s \in claimed THEN 1 ELSE 0]
        /\ threads' = [t \in DOMAIN threads \cup {<<s, claims'[s]>> : s \in claimed} |->
                         IF t \in DOMAIN threads THEN threads[t] ELSE claim(t[1])]
        /\ running' = running \cup claimed
  /\ tick' = [tick EXCEPT !.pc = "idle", !.busy = {}]
  /\ UNCHANGED <<paused, up, executions, forsaken, cancel, told>>

-----------------------------------------------------------------------------
(* An executor.                                                            *)
Id(t) == <<t[1], threads[t].run.n>>
At(t, pc) == t \in DOMAIN threads /\ threads[t].pc = pc
Goes(t, pc) == threads' = [threads EXCEPT ![t] = [@ EXCEPT !.pc = pc]]
inside == <<up, running, tick, cancel, counters>>

\* Mutant: the copy is written back in any case.
SavedRunsAnyway(t, run) ==
  [runs EXCEPT ![t[1]] = [i \in DOMAIN @ |-> IF @[i].n = run.n THEN run ELSE @[i]]]

\* finish_run: the copy is written back unless the stored run has ended.
SavedRuns(t, run) ==
  [runs EXCEPT ![t[1]] =
     [i \in DOMAIN @ |-> IF @[i].n = run.n /\ @[i].status \notin Terminal THEN run ELSE @[i]]]
SavedSchedules(t) ==
  IF t[1] \in Kept
  THEN [schedules EXCEPT ![t[1]] = [@ EXCEPT !.enabled = schedules[t[1]].enabled /\ threads[t].enabled]]
  ELSE schedules
finish_run(t, run) ==
  /\ runs' = SavedRuns(t, run)
  /\ schedules' = SavedSchedules(t)
  /\ UNCHANGED <<pending, paused>>

\* What finish_run returns: the stored run, or the copy if the store has lost it.
Saved(t, run) ==
  IF Stored(Id(t)) = {} THEN run
  ELSE CHOOSE saved \in ToSet(SavedRuns(t, run)[t[1]]) : saved.n = run.n

Register(t) ==
  /\ At(t, "spawned")
  /\ executions' = With(executions, Id(t), t)
  /\ Goes(t, IF t[1] \in Workflow THEN "starting" ELSE "preparing")
  /\ UNCHANGED <<store, inside, forsaken, told, events>>

Ends(t, status) == [threads[t].run EXCEPT !.status = status]

\* prepare_run_account: ready, not yet, or never.
prepare_run_account(t) ==
  /\ At(t, "preparing")
  /\ \/ Goes(t, "starting") /\ UNCHANGED events
     \/ /\ Spend("wait")
        /\ \E status \in Waiting :
             threads' = [threads EXCEPT ![t] = [@ EXCEPT !.pc = "recording", !.run = Ends(t, status)]]
     \/ /\ Spend("fail")
        /\ threads' = [threads EXCEPT ![t] = [@ EXCEPT !.pc = "recording", !.run = Ends(t, "failed")]]
  /\ UNCHANGED <<store, inside, executions, forsaken, told>>

Started(t) == [threads[t].run EXCEPT !.status = "running", !.late = FALSE]

\* The executor goes on with what the store gave back, the schedule included.
start_run(t) ==
  /\ At(t, "starting")
  /\ finish_run(t, Started(t))
  /\ LET saved == Saved(t, Started(t)) IN
     threads' = [threads EXCEPT ![t] =
       IF saved.status # "running" THEN [@ EXCEPT !.pc = "deregistering"]
       ELSE [@ EXCEPT !.pc = IF t[1] \in Workflow THEN "working" ELSE "referencing",
                      !.run = saved,
                      !.enabled = SavedSchedules(t)[t[1]].enabled,
                      !.document = IF t[1] \in Kept THEN None ELSE threads[t].document]]
  /\ UNCHANGED <<inside, executions, forsaken, told, events>>

\* The session reference is saved, then the conversation is started by a thread of its own.
Reference(t) ==
  /\ At(t, "referencing")
  /\ finish_run(t, threads[t].run)
  /\ \E attempt \in {"resume", "fresh"} :
       threads' = [threads EXCEPT ![t] =
         [@ EXCEPT !.pc = "launching", !.chat = "starting", !.attempt = attempt]]
  /\ UNCHANGED <<inside, executions, forsaken, told, events>>

Fresh(t) == threads[t].attempt = "fresh"

\* ChatSupervisor::start looks at the flag before it registers the conversation.
StartupEnds(t) ==
  /\ t \in DOMAIN threads /\ threads[t].chat = "starting"
  /\ \/ /\ ~threads[t].cancelled
        /\ threads' = [threads EXCEPT ![t] = [@ EXCEPT !.chat = "up"]]
        /\ UNCHANGED events
     \/ /\ threads[t].cancelled
        /\ threads' = [threads EXCEPT ![t] = [@ EXCEPT !.chat = "failed"]]
        /\ UNCHANGED events
     \/ /\ Spend("fail")
        /\ threads' = [threads EXCEPT ![t] = [@ EXCEPT !.chat = "failed"]]
     \/ /\ ~Fresh(t) /\ Spend("unresumed")
        /\ threads' = [threads EXCEPT ![t] = [@ EXCEPT !.chat = "unresumed"]]
  /\ UNCHANGED <<store, inside, executions, forsaken, told>>

\* What record_run_outcome makes of an error.
ErrorStatus(t) == IF threads[t].cancelled THEN "cancelled" ELSE "failed"
Outcome(t, status) ==
  threads' = [threads EXCEPT ![t] = [@ EXCEPT !.pc = "recording", !.chat = "none", !.run = Ends(t, status)]]

\* handle_resume_failure: the schedule is switched off, or a conversation is started anew.
ResumeFails(t) ==
  \/ threads' = [threads EXCEPT ![t] =
       [@ EXCEPT !.pc = "recording", !.chat = "none", !.enabled = FALSE, !.run = Ends(t, ErrorStatus(t))]]
  \/ \E attempt \in IF threads[t].attempt = "resume" THEN {"retry", "fresh"} ELSE {"fresh"} :
       threads' = [threads EXCEPT ![t] =
         [@ EXCEPT !.pc = "launching", !.chat = "starting", !.attempt = attempt]]

\* await_run_startup.  A conversation that came up just before the flag is seen stays up.
await_run_startup(t) ==
  /\ At(t, "launching")
  /\ \/ /\ threads[t].cancelled
        /\ Outcome(t, "cancelled")
        /\ forsaken' = IF threads[t].chat = "up" THEN forsaken \cup {Id(t)} ELSE forsaken
        /\ UNCHANGED events
     \/ /\ threads[t].chat \in {"starting", "up"} /\ Spend("slow")
        /\ threads' = [threads EXCEPT ![t] =
             [@ EXCEPT !.cancelled = TRUE, !.pc = "recording", !.chat = "none", !.run = Ends(t, "cancelled")]]
        /\ forsaken' = IF threads[t].chat = "up" THEN forsaken \cup {Id(t)} ELSE forsaken
     \/ /\ threads[t].chat = "up" /\ ~threads[t].cancelled
        /\ Goes(t, "working")
        /\ UNCHANGED <<forsaken, events>>
     \/ /\ threads[t].chat = "failed"
        /\ Outcome(t, ErrorStatus(t))
        /\ UNCHANGED <<forsaken, events>>
     \/ /\ threads[t].chat = "unresumed"
        /\ ResumeFails(t)
        /\ UNCHANGED <<forsaken, events>>
  /\ UNCHANGED <<store, inside, executions, told>>

\* RunAttempt::run, drain_run_events: the message is sent and the turn followed to its end.
drain_run_events(t) ==
  /\ At(t, "working") /\ t[1] \notin Workflow
  /\ \/ Outcome(t, "completed") /\ UNCHANGED events
     \/ (threads[t].cancelled \/ threads[t].chat = "gone") /\ Outcome(t, ErrorStatus(t)) /\ UNCHANGED events
     \/ Spend("fail") /\ Outcome(t, ErrorStatus(t))
     \/ ~threads[t].cancelled /\ Spend("usage") /\ Outcome(t, "waitingForUsage")
     \/ ~Fresh(t) /\ threads[t].chat = "gone" /\ ResumeFails(t) /\ UNCHANGED events
     \/ ~Fresh(t) /\ Spend("unresumed") /\ ResumeFails(t)
  /\ UNCHANGED <<store, inside, executions, forsaken, told>>

\* run_workflow_action cannot be interrupted; a contract that changed switches the schedule off.
run_workflow_action(t) ==
  /\ At(t, "working") /\ t[1] \in Workflow
  /\ \/ Outcome(t, "completed") /\ UNCHANGED events
     \/ /\ Spend("fail")
        /\ \E enabled \in {threads[t].enabled, FALSE} :
             threads' = [threads EXCEPT ![t] =
               [@ EXCEPT !.pc = "recording", !.enabled = enabled, !.run = Ends(t, "failed")]]
  /\ UNCHANGED <<store, inside, executions, forsaken, told>>

touch_run_heartbeat(t) ==
  /\ t \in DOMAIN threads /\ threads[t].pc \in {"launching", "working"}
  /\ \E run \in Stored(Id(t)) : run.status = "running" /\ run.late
  /\ runs' = [runs EXCEPT ![t[1]] =
       [i \in DOMAIN @ |-> IF @[i].n = threads[t].run.n THEN [@[i] EXCEPT !.late = FALSE] ELSE @[i]]]
  /\ UNCHANGED <<schedules, pending, paused, inside, executions, threads, forsaken, told, events>>

Told(id) == IF id \in DOMAIN told THEN told[id] ELSE << >>
\* emit_result
emit_result(t, run) ==
  told' = IF run.status \in Waiting THEN told ELSE With(told, Id(t), Append(Told(Id(t)), run.status))

\* Mutant: what is announced is what the executor meant to save.
finish_and_emit_copy(t) ==
  /\ At(t, "recording")
  /\ finish_run(t, threads[t].run)
  /\ emit_result(t, threads[t].run)
  /\ Goes(t, "deregistering")
  /\ UNCHANGED <<inside, executions, forsaken, events>>

finish_and_emit(t) ==
  /\ At(t, "recording")
  /\ finish_run(t, threads[t].run)
  /\ emit_result(t, Saved(t, threads[t].run))
  /\ Goes(t, "deregistering")
  /\ UNCHANGED <<inside, executions, forsaken, events>>

(* RunExecutionRegistration is dropped when the executor returns or dies.  *)
Deregister(t) ==
  /\ At(t, "deregistering")
  /\ executions' = Without(executions, Id(t))
  /\ Goes(t, "releasing")
  /\ UNCHANGED <<store, inside, forsaken, told, events>>

Release(t) ==
  /\ At(t, "releasing")
  /\ running' = running \ {t[1]}
  /\ Goes(t, "expiring")
  /\ UNCHANGED <<store, up, tick, cancel, counters, executions, forsaken, told, events>>

\* Mutant: a dead executor leaves its run as it is.
ExpireNothing(t) ==
  /\ At(t, "expiring")
  /\ threads' = Without(threads, t)
  /\ UNCHANGED <<store, inside, executions, forsaken, told, events>>

Expire(t) ==
  /\ At(t, "expiring")
  /\ runs' = expire_running(Id(t))
  /\ threads' = Without(threads, t)
  /\ UNCHANGED <<schedules, pending, paused, inside, executions, forsaken, told, events>>

\* The executor panics; the registration is dropped all the same.
Panics(t) ==
  /\ t \in DOMAIN threads
  /\ threads[t].pc \in {"preparing", "starting", "referencing", "launching", "working", "recording"}
  /\ Spend("panic")
  /\ threads' = [threads EXCEPT ![t] = [@ EXCEPT !.pc = "deregistering", !.chat = "none"]]
  /\ forsaken' = IF threads[t].chat \in {"starting", "up"} THEN forsaken \cup {Id(t)} ELSE forsaken
  /\ UNCHANGED <<store, inside, executions, told>>

-----------------------------------------------------------------------------
(* The process and the machine.                                            *)
\* The machine sleeps, or the executors are held up: heartbeats are late.
Sleeps ==
  /\ up /\ Spend("sleep")
  /\ runs' = [s \in Schedule |-> [i \in DOMAIN runs[s] |->
                [runs[s][i] EXCEPT !.late = @ \/ runs[s][i].status = "running"]]]
  /\ tick' = [tick EXCEPT !.gap = TRUE]
  /\ UNCHANGED <<schedules, pending, paused, up, memory, cancel, counters, told>>

Crashes ==
  /\ up /\ Spend("crash")
  /\ up' = FALSE
  /\ running' = {} /\ executions' = << >> /\ threads' = << >> /\ forsaken' = {}
  /\ tick' = [pc |-> "idle", gap |-> TRUE, expired |-> {}, signalled |-> {}, busy |-> {}]
  /\ cancel' = [pc |-> "idle", run |-> << >>]
  /\ UNCHANGED <<store, counters, told>>

\* Mutant: the store is taken as it was left.
RestartsAsLeft ==
  /\ ~up
  /\ up' = TRUE
  /\ UNCHANGED <<store, memory, tick, cancel, counters, told, events>>

\* SchedulerSupervisor::new with the runner lock: reconcile_interrupted_runs.
Restarts ==
  /\ ~up
  /\ up' = TRUE
  /\ runs' = [s \in Schedule |-> Settled(s, RunsIn(s, {"running"}), "failed")]
  /\ UNCHANGED <<schedules, pending, paused, memory, tick, cancel, counters, told, events>>

-----------------------------------------------------------------------------
Calls ==
  \/ set_paused
  \/ \E s \in Schedule :
       \/ create(s) \/ update(s) \/ delete(s) \/ run_now(s) \/ FallsDue(s) \/ CancelReads(s)
       \/ \E enabled \in BOOLEAN : set_enabled(s, enabled)
       \/ \E e \in Event : run_now_from_document_trigger(s, e)

Ticks == skip_missed \/ ReadExpired \/ SignalExpired \/ WriteExpired \/ CopyRunning \/ claim_due
Cancels == CancelLooks \/ CancelWrites
Executes(t) ==
  \/ Register(t) \/ prepare_run_account(t) \/ start_run(t) \/ Reference(t) \/ StartupEnds(t)
  \/ await_run_startup(t) \/ drain_run_events(t) \/ run_workflow_action(t) \/ touch_run_heartbeat(t)
  \/ finish_and_emit(t) \/ Deregister(t) \/ Release(t) \/ Expire(t)
Executions == \E t \in DOMAIN threads : Executes(t)
Mishaps == Sleeps \/ Crashes \/ Restarts \/ \E t \in DOMAIN threads : Panics(t)

Next == Calls \/ Ticks \/ Cancels \/ Executions \/ Mishaps

Spec == Init /\ [][Next]_vars

\* The loop ticks every fifteen seconds for as long as the process runs, and the operating
\* system schedules executors; startups and turns end by their own time limits.
FairSpec == Spec /\ WF_vars(Ticks) /\ WF_vars(Executions)

-----------------------------------------------------------------------------
\* A run that has ended keeps its result for as long as the store keeps the run, whatever
\* executors with older copies, cancels, ticks and restarts still write (finish_run,
\* expire_running, cancel_run, set_enabled).
EndedStays ==
  [][\A s \in Schedule : \A run \in ToSet(runs[s]) : \A later \in ToSet(runs'[s]) :
       run.n = later.n /\ run.status \in Terminal => later.status = run.status]_vars

\* A schedule is executed by one thread at a time: no second conversation works on the same
\* session or in the same directory (running, claim_due, RunExecutionRegistration).
OneExecutor ==
  \A t, u \in DOMAIN threads :
    t[1] = u[1] /\ t # u => threads[t].pc = "expiring" \/ threads[u].pc = "expiring"

\* A stored run says it is running only while a thread stands behind it, also after a panic of
\* the executor, an expired lease or a restart (Drop of the registration, reconcile_interrupted_runs).
RunningIsOwned ==
  up => \A s \in Schedule : \A run \in ToSet(runs[s]) :
          run.status = "running" => \E t \in DOMAIN threads : Id(t) = <<s, run.n>>

\* The result of a run is announced once, and it is the one the store keeps (finish_and_emit).
ToldAsRecorded ==
  \A id \in DOMAIN told :
    Len(told[id]) = 1 /\ \A run \in Stored(id) : run.status = told[id][1]

Unfinished(s) == RunsIn(s, Status \ Terminal)

\* A run that waits or works comes to an end, unless the pause holds it back or the process
\* does not run: the schedule is never left busy, nor the run without a thread.  The pause
\* never holds a run that a user or an event asked for, even one that had been waiting
\* before (merge_into_waiting_run).
RunsEnd ==
  \A s \in Schedule :
    /\ Unfinished(s) # {} ~> (Unfinished(s) = {} \/ paused \/ ~up)
    /\ (\E run \in Unfinished(s) : run.manual) ~> ((\A run \in Unfinished(s) : ~run.manual) \/ ~up)
=============================================================================
