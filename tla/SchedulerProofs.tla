-------------------------- MODULE SchedulerProofs --------------------------
(***************************************************************************)
(* Theorems about Scheduler, for any schedules, events, limits and budgets.*)
(*                                                                         *)
(* That a schedule has one executor is not inductive.  It rests on three   *)
(* facts: an executor that has not freed its schedule yet finds it in the  *)
(* set of busy schedules; the copy of that set a tick works with is never  *)
(* too small when the tick opens the store; a new thread gets a number no  *)
(* thread of the schedule has had.                                         *)
(*                                                                         *)
(* Every step but a claim REWRITES the runs in place: each keeps its       *)
(* number and, once it has ended, its status, and becomes running only if  *)
(* a thread stands behind it.  A claim appends a run under a new number    *)
(* and drops the oldest.                                                   *)
(*                                                                         *)
(* A result is announced by the one executor that the run has, which never *)
(* returns to it, and what is announced has ended and so stays.            *)
(***************************************************************************)
EXTENDS Scheduler, SequenceTheorems, TLAPS

Numbered ==
  /\ claims \in [Schedule -> Nat]
  /\ DOMAIN threads \subseteq Schedule \X Nat
  /\ \A t \in DOMAIN threads : t[2] <= claims[t[1]]
\* Records have the fields that matter here.
Shaped ==
  /\ \A t \in DOMAIN threads : "pc" \in DOMAIN threads[t]
  /\ {"pc", "busy"} \subseteq DOMAIN tick
Leaving(t) == threads[t].pc = "expiring"
HoldsSchedule == \A t \in DOMAIN threads : ~Leaving(t) => t[1] \in running
CopyIsLarge == tick.pc = "claiming" => running \subseteq tick.busy

ExecutorInv == Numbered /\ Shaped /\ HoldsSchedule /\ CopyIsLarge /\ OneExecutor

-----------------------------------------------------------------------------
\* Nobody executes anything at first.
LEMMA InitExecutors == Init => ExecutorInv
BY DEF Init, ExecutorInv, Numbered, Shaped, HoldsSchedule, CopyIsLarge, OneExecutor, Leaving

\* Threads go on, in whatever state, and none that is leaving comes back.
GoOn ==
  /\ DOMAIN threads' = DOMAIN threads
  /\ \A t \in DOMAIN threads : "pc" \in DOMAIN threads'[t] /\ (Leaving(t) => Leaving(t)')
\* The loop goes on, with a copy of the busy schedules that is large enough.
TickGoesOn ==
  /\ {"pc", "busy"} \subseteq DOMAIN tick'
  /\ tick'.pc = "claiming" => running \subseteq tick'.busy

\* Most steps only move threads and the loop: they free no schedule and take none.
LEMMA QuietStep ==
  ASSUME ExecutorInv, GoOn, TickGoesOn, UNCHANGED <<running, claims>>
  PROVE  ExecutorInv'
<1>1. Numbered' /\ Shaped' /\ CopyIsLarge'
  BY DEF ExecutorInv, Numbered, Shaped, CopyIsLarge, GoOn, TickGoesOn
<1>2. HoldsSchedule'
  BY DEF ExecutorInv, HoldsSchedule, GoOn
<1>3. OneExecutor'
  BY DEF ExecutorInv, OneExecutor, GoOn, Leaving
<1> QED
  BY <1>1, <1>2, <1>3 DEF ExecutorInv

\* A step that leaves the threads alone is one of them.
LEMMA StillThreads == ExecutorInv /\ UNCHANGED threads => GoOn
BY DEF ExecutorInv, Shaped, GoOn, Leaving
\* What a tick found idle stays idle when neither the tick nor the busy set moves.
LEMMA StillTick == ExecutorInv /\ UNCHANGED <<tick, running>> => TickGoesOn
BY DEF ExecutorInv, Shaped, CopyIsLarge, TickGoesOn

\* Whoever tells a thread to stop leaves it where it is.
LEMMA SignalledGoOn ==
  ASSUME ExecutorInv, NEW t, threads' = Signalled(t)
  PROVE  GoOn
BY DEF ExecutorInv, Shaped, GoOn, Leaving, Signalled

-----------------------------------------------------------------------------
\* Calls of users and of document triggers touch neither threads nor the busy set.
LEMMA CallsKeepExecutors == ExecutorInv /\ Calls => ExecutorInv'
<1> SUFFICES ASSUME ExecutorInv, Calls PROVE ExecutorInv'
  OBVIOUS
<1>1. UNCHANGED <<running, threads, tick, claims>>
  BY DEF Calls, set_paused, create, update, delete, run_now, FallsDue, CancelReads, set_enabled,
         run_now_from_document_trigger, outside, memory, counters
<1> QED
  BY <1>1, StillThreads, StillTick, QuietStep

\* A cancel tells a thread to stop and leaves it where it is.
LEMMA CancelsKeepExecutors == ExecutorInv /\ Cancels => ExecutorInv'
<1> SUFFICES ASSUME ExecutorInv, Cancels PROVE ExecutorInv'
  OBVIOUS
<1>1. UNCHANGED <<running, tick, claims>>
  BY DEF Cancels, CancelLooks, CancelWrites, memory, counters
<1>2. GoOn
  BY StillThreads, SignalledGoOn DEF Cancels, CancelLooks, CancelWrites, memory
<1> QED
  BY <1>1, <1>2, StillTick, QuietStep

\* claim_due starts threads only on schedules its copy says are free, under new numbers.
LEMMA ClaimKeepsExecutors == ExecutorInv /\ claim_due => ExecutorInv'
<1> SUFFICES ASSUME ExecutorInv, claim_due PROVE ExecutorInv'
  OBVIOUS
<1>1. tick.pc = "claiming" /\ tick'.pc = "idle" /\ {"pc", "busy"} \subseteq DOMAIN tick'
  BY DEF claim_due, ExecutorInv, Shaped
<1>2. PICK claimed \in SUBSET (Schedule \ tick.busy) :
        /\ claims' = [s \in Schedule |-> claims[s] + IF s \in claimed THEN 1 ELSE 0]
        /\ DOMAIN threads' = DOMAIN threads \cup {<<s, claims'[s]>> : s \in claimed}
        /\ \A t \in DOMAIN threads : threads'[t] = threads[t]
        /\ \A t \in DOMAIN threads' : t \notin DOMAIN threads => "pc" \in DOMAIN threads'[t]
        /\ running' = running \cup claimed
  <2>1. PICK closed \in SUBSET {s \in Kept : Elapsed(s)} : claim_due!2!(closed)
    BY DEF claim_due
  <2> DEFINE fresh == {s \in Kept : ~Merges(s) /\ (Asked(s) \/ RegularDue(s, closed))}
             taken == {s \in fresh : s \notin tick.busy} \cup {s \in Kept : Merges(s) /\ GoesOn(s)}
             claim(s) == Spawned(s, IF Merges(s) THEN WaitingRun(s) ELSE new_scheduled_run(s))
  <2>2. taken \in SUBSET (Schedule \ tick.busy)
    BY DEF Kept, GoesOn
  <2>3. /\ claims' = [s \in Schedule |-> claims[s] + IF s \in taken THEN 1 ELSE 0]
        /\ threads' = [t \in DOMAIN threads \cup {<<s, claims'[s]>> : s \in taken} |->
                         IF t \in DOMAIN threads THEN threads[t] ELSE claim(t[1])]
        /\ running' = running \cup taken
    BY <2>1
  <2>4. \A s : "pc" \in DOMAIN claim(s)
    BY DEF Spawned
  <2> HIDE DEF taken, claim
  <2>5. /\ DOMAIN threads' = DOMAIN threads \cup {<<s, claims'[s]>> : s \in taken}
        /\ \A t \in DOMAIN threads' : threads'[t] = IF t \in DOMAIN threads THEN threads[t] ELSE claim(t[1])
    BY <2>3
  <2> QED
    BY <2>2, <2>3, <2>4, <2>5
<1>3. \A s \in claimed : claims'[s] = claims[s] + 1 /\ <<s, claims'[s]>> \notin DOMAIN threads
  BY <1>2 DEF ExecutorInv, Numbered
<1>4. Numbered'
  BY <1>2, <1>3 DEF ExecutorInv, Numbered
<1>5. Shaped' /\ CopyIsLarge'
  BY <1>1, <1>2 DEF ExecutorInv, Shaped, CopyIsLarge
<1>6. HoldsSchedule'
  <2> SUFFICES ASSUME NEW t \in DOMAIN threads', ~Leaving(t)' PROVE t[1] \in running'
    BY DEF HoldsSchedule
  <2>1. CASE t \in DOMAIN threads
    BY <2>1, <1>2 DEF ExecutorInv, HoldsSchedule, Leaving
  <2>2. CASE t \notin DOMAIN threads
    BY <2>2, <1>2
  <2> QED
    BY <2>1, <2>2
<1>7. OneExecutor'
  <2> SUFFICES ASSUME NEW t \in DOMAIN threads', NEW u \in DOMAIN threads', t[1] = u[1], t # u,
                      ~Leaving(t)', ~Leaving(u)'
               PROVE  FALSE
    BY DEF OneExecutor, Leaving
  <2>1. ASSUME NEW x \in DOMAIN threads, NEW s \in claimed, x[1] = s, ~Leaving(x)' PROVE FALSE
    BY <2>1, <1>1, <1>2 DEF ExecutorInv, HoldsSchedule, CopyIsLarge, Leaving
  <2>2. CASE t \in DOMAIN threads /\ u \in DOMAIN threads
    BY <2>2, <1>2 DEF ExecutorInv, OneExecutor, Leaving
  <2>3. CASE t \in DOMAIN threads /\ u \notin DOMAIN threads
    BY <2>1, <2>3, <1>2
  <2>4. CASE t \notin DOMAIN threads /\ u \in DOMAIN threads
    BY <2>1, <2>4, <1>2
  <2>5. CASE t \notin DOMAIN threads /\ u \notin DOMAIN threads
    <3>1. PICK s \in claimed : t = <<s, claims'[s]>>
      BY <2>5, <1>2
    <3>2. PICK r \in claimed : u = <<r, claims'[r]>>
      BY <2>5, <1>2
    <3> QED
      BY <3>1, <3>2
  <2> QED
    BY <2>2, <2>3, <2>4, <2>5
<1> QED
  BY <1>4, <1>5, <1>6, <1>7 DEF ExecutorInv

\* A tick claims only schedules that were not busy when it looked.
LEMMA TicksKeepExecutors == ExecutorInv /\ Ticks => ExecutorInv'
<1> SUFFICES ASSUME ExecutorInv, Ticks PROVE ExecutorInv'
  OBVIOUS
<1>1. CASE skip_missed
  <2>1. UNCHANGED <<running, threads, claims>> /\ TickGoesOn
    BY <1>1 DEF skip_missed, memory, counters, ExecutorInv, Shaped, TickGoesOn
  <2> QED
    BY <2>1, StillThreads, QuietStep
<1>2. CASE ReadExpired \/ WriteExpired
  <2>1. UNCHANGED <<running, threads, claims>> /\ TickGoesOn
    BY <1>2 DEF ReadExpired, WriteExpired, memory, counters, ExecutorInv, Shaped, TickGoesOn
  <2> QED
    BY <2>1, StillThreads, QuietStep
<1>3. CASE SignalExpired
  <2>1. UNCHANGED <<running, claims>> /\ TickGoesOn
    BY <1>3 DEF SignalExpired, counters, ExecutorInv, Shaped, TickGoesOn
  <2>2. GoOn
    BY <1>3, StillThreads, SignalledGoOn DEF SignalExpired
  <2> QED
    BY <2>1, <2>2, QuietStep
<1>4. CASE CopyRunning
  <2>1. UNCHANGED <<running, threads, claims>> /\ TickGoesOn
    BY <1>4 DEF CopyRunning, memory, counters, ExecutorInv, Shaped, TickGoesOn
  <2> QED
    BY <2>1, StillThreads, QuietStep
<1>5. CASE claim_due
  BY <1>5, ClaimKeepsExecutors
<1> QED
  BY <1>1, <1>2, <1>3, <1>4, <1>5 DEF Ticks

-----------------------------------------------------------------------------
\* Release frees the schedule of a thread that was the only one to hold it.
LEMMA ReleaseKeeps ==
  ASSUME ExecutorInv, NEW t \in DOMAIN threads, Release(t)
  PROVE  ExecutorInv'
<1>1. /\ ~Leaving(t) /\ running' = running \ {t[1]}
      /\ DOMAIN threads' = DOMAIN threads /\ Leaving(t)' /\ "pc" \in DOMAIN threads'[t]
      /\ \A u \in DOMAIN threads : u # t => threads'[u] = threads[u]
      /\ UNCHANGED <<tick, claims>>
  BY DEF Release, At, Goes, Leaving, counters, ExecutorInv, Shaped
<1>2. Numbered' /\ Shaped' /\ CopyIsLarge'
  BY <1>1 DEF ExecutorInv, Numbered, Shaped, CopyIsLarge
<1>3. HoldsSchedule'
  BY <1>1 DEF ExecutorInv, HoldsSchedule, OneExecutor, Leaving
<1>4. OneExecutor'
  BY <1>1 DEF ExecutorInv, OneExecutor, Leaving
<1> QED
  BY <1>2, <1>3, <1>4 DEF ExecutorInv

\* A thread that goes takes nothing of another with it.
LEMMA ExpireKeeps ==
  ASSUME ExecutorInv, NEW t \in DOMAIN threads, Expire(t)
  PROVE  ExecutorInv'
<1>1. /\ DOMAIN threads' \subseteq DOMAIN threads
      /\ \A u \in DOMAIN threads' : threads'[u] = threads[u]
      /\ UNCHANGED <<running, tick, claims>>
  BY DEF Expire, Without, Restrict, inside, counters
<1> QED
  BY <1>1 DEF ExecutorInv, Numbered, Shaped, HoldsSchedule, CopyIsLarge, OneExecutor, Leaving

\* All other steps of an executor leave its schedule busy.
LEMMA ExecutorGoesOn ==
  ASSUME ExecutorInv, NEW t \in DOMAIN threads,
         Executes(t) \/ Panics(t), ~Release(t), ~Expire(t)
  PROVE  GoOn /\ UNCHANGED <<running, tick, claims>>
<1> USE DEF ExecutorInv, Shaped, GoOn, Leaving, inside, counters, At, Goes
<1>1. CASE Register(t)
  BY <1>1 DEF Register
<1>2. CASE prepare_run_account(t)
  BY <1>2 DEF prepare_run_account
<1>3. CASE start_run(t)
  BY <1>3 DEF start_run
<1>4. CASE Reference(t)
  BY <1>4 DEF Reference
<1>5. CASE StartupEnds(t)
  BY <1>5 DEF StartupEnds
<1>6. CASE await_run_startup(t)
  BY <1>6 DEF await_run_startup, Outcome, ResumeFails
<1>7. CASE drain_run_events(t)
  BY <1>7 DEF drain_run_events, Outcome, ResumeFails
<1>8. CASE run_workflow_action(t)
  BY <1>8 DEF run_workflow_action, Outcome
<1>9. CASE touch_run_heartbeat(t)
  BY <1>9 DEF touch_run_heartbeat
<1>10. CASE finish_and_emit(t)
  BY <1>10 DEF finish_and_emit
<1>11. CASE Deregister(t)
  BY <1>11 DEF Deregister
<1>12. CASE Panics(t)
  BY <1>12 DEF Panics
<1> QED
  BY <1>1, <1>2, <1>3, <1>4, <1>5, <1>6, <1>7, <1>8, <1>9, <1>10, <1>11, <1>12 DEF Executes

\* Every step of an executor, from its registration to its end.
LEMMA ExecutorKeeps ==
  ASSUME ExecutorInv, NEW t \in DOMAIN threads, Executes(t) \/ Panics(t)
  PROVE  ExecutorInv'
<1>1. CASE Release(t)
  BY <1>1, ReleaseKeeps
<1>2. CASE Expire(t)
  BY <1>2, ExpireKeeps
<1>3. CASE ~Release(t) /\ ~Expire(t)
  BY <1>3, ExecutorGoesOn, StillTick, QuietStep
<1> QED
  BY <1>1, <1>2, <1>3

\* Sleep, crash and restart.
LEMMA MachineKeeps == ExecutorInv /\ (Sleeps \/ Crashes \/ Restarts) => ExecutorInv'
<1> SUFFICES ASSUME ExecutorInv, Sleeps \/ Crashes \/ Restarts PROVE ExecutorInv'
  OBVIOUS
<1>1. CASE Sleeps
  <2>1. UNCHANGED <<running, threads, claims>> /\ TickGoesOn
    BY <1>1 DEF Sleeps, memory, counters, ExecutorInv, Shaped, CopyIsLarge, TickGoesOn
  <2> QED
    BY <2>1, StillThreads, QuietStep
<1>2. CASE Crashes
  BY <1>2 DEF Crashes, counters, ExecutorInv, Numbered, Shaped, HoldsSchedule, CopyIsLarge, OneExecutor
<1>3. CASE Restarts
  <2>1. UNCHANGED <<running, threads, tick, claims>>
    BY <1>3 DEF Restarts, memory, counters
  <2> QED
    BY <2>1, StillThreads, StillTick, QuietStep
<1> QED
  BY <1>1, <1>2, <1>3

\* Every step.
LEMMA NextKeepsExecutors == ExecutorInv /\ [Next]_vars => ExecutorInv'
<1> SUFFICES ASSUME ExecutorInv, [Next]_vars PROVE ExecutorInv'
  OBVIOUS
<1>1. CASE Calls
  BY <1>1, CallsKeepExecutors
<1>2. CASE Ticks
  BY <1>2, TicksKeepExecutors
<1>3. CASE Cancels
  BY <1>3, CancelsKeepExecutors
<1>4. CASE Executions \/ \E t \in DOMAIN threads : Panics(t)
  BY <1>4, ExecutorKeeps DEF Executions
<1>5. CASE Sleeps \/ Crashes \/ Restarts
  BY <1>5, MachineKeeps
<1>6. CASE UNCHANGED vars
  <2>1. UNCHANGED <<running, threads, tick, claims>>
    BY <1>6 DEF vars, memory, counters
  <2> QED
    BY <2>1, StillThreads, StillTick, QuietStep
<1> QED
  BY <1>1, <1>2, <1>3, <1>4, <1>5, <1>6 DEF Next, Mishaps

\* No two threads that have not freed their schedule execute the same one, whatever ticks,
\* calls, late heartbeats, panics and restarts come in between (claim_due,
\* RunExecutionRegistration::drop).
THEOREM ScheduleHasOneExecutor == Spec => []OneExecutor
<1>1. ExecutorInv => OneExecutor
  BY DEF ExecutorInv
<1> QED
  BY <1>1, InitExecutors, NextKeepsExecutors, PTL DEF Spec

-----------------------------------------------------------------------------
(* The runs that are kept.                                                 *)

StoreOK ==
  /\ schedules \in [Schedule -> [life : {"unborn", "kept", "deleted"}, enabled : BOOLEAN,
                                 due : BOOLEAN, manual : BOOLEAN]]
  /\ runs \in [Schedule -> Seq(Run)] /\ \A s \in Schedule : Len(runs[s]) <= MAX_RUNS_PER_SCHEDULE
  /\ pending \in [Schedule -> Seq(Event)] /\ paused \in BOOLEAN
ThreadsOK ==
  /\ up \in BOOLEAN /\ running \subseteq Schedule
  /\ threads \in [DOMAIN threads -> Thread] /\ DOMAIN threads \subseteq Schedule \X Nat
\* An entry names a thread that works on the run, and that has not removed it yet.
ExecutionsOK ==
  /\ executions \in [DOMAIN executions -> DOMAIN threads]
  /\ \A id \in DOMAIN executions :
       Id(executions[id]) = id /\ threads[executions[id]].pc \notin {"releasing", "expiring"}
LoopOK ==
  /\ tick \in [pc : {"idle", "expiring", "claiming"}, gap : BOOLEAN, expired : SUBSET (Schedule \X Nat),
               signalled : SUBSET (Schedule \X Nat), busy : SUBSET Schedule]
  /\ cancel \in [pc : {"idle", "looking", "writing"}, run : (Schedule \X Nat) \cup {<< >>}]
  /\ cancel.pc # "idle" => cancel.run \in Schedule \X Nat
CountersOK == made \in [Schedule -> Nat] /\ claims \in [Schedule -> Nat]

\* Runs have numbers that were given out, each its own.
Distinct ==
  \A s \in Schedule : \A i \in DOMAIN runs[s] :
    /\ runs[s][i].n <= made[s]
    /\ \A j \in DOMAIN runs[s] : runs[s][i].n = runs[s][j].n => i = j

Types == StoreOK /\ ThreadsOK /\ ExecutionsOK /\ LoopOK /\ CountersOK
IInv == Types /\ Distinct /\ RunningIsOwned

Backed(s, n) == \E t \in DOMAIN threads : Id(t) = <<s, n>>

\* What a step that rewrites the runs may make of one.
Follows(s, run, later) ==
  /\ later.n = run.n
  /\ run.status \in Terminal => later.status = run.status
  /\ later.status = "running" => run.status = "running" \/ Backed(s, run.n)

RewriteOf(s, list) ==
  /\ list \in Seq(Run) /\ Len(list) <= MAX_RUNS_PER_SCHEDULE
  /\ \/ list = << >>
     \/ /\ DOMAIN list = DOMAIN runs[s]
        /\ \A i \in DOMAIN runs[s] : Follows(s, runs[s][i], list[i])

Rewrites ==
  /\ runs' \in [Schedule -> Seq(Run)]
  /\ \A s \in Schedule : RewriteOf(s, runs'[s])

\* Threads stay behind the runs they work on.
StillBacked ==
  \A s \in Schedule, n \in Nat :
    Backed(s, n) => \E t \in DOMAIN threads' : Id(t)' = <<s, n>>

-----------------------------------------------------------------------------
\* The types kept here are finer than those the runs check.
LEMMA TypesGiveTypeOK == Types => TypeOK
<1> SUFFICES ASSUME Types PROVE TypeOK
  OBVIOUS
<1>1. DOMAIN executions \subseteq Schedule \X Nat
  <2> SUFFICES ASSUME NEW id \in DOMAIN executions PROVE id \in Schedule \X Nat
    OBVIOUS
  <2>1. executions[id] \in DOMAIN threads /\ id = Id(executions[id])
    BY DEF Types, ExecutionsOK
  <2> QED
    BY <2>1 DEF Types, ThreadsOK, Thread, Run, Id
<1> QED
  BY <1>1 DEF TypeOK, Types, StoreOK, ThreadsOK, ExecutionsOK, LoopOK

\* What one run of a list is.
LEMMA RunsTyped ==
  ASSUME StoreOK, NEW s \in Schedule, NEW i \in DOMAIN runs[s]
  PROVE  runs[s] \in Seq(Run) /\ runs[s][i] \in Run /\ runs[s][i].n \in Nat
<1>1. runs[s] \in Seq(Run)
  BY DEF StoreOK
<1>2. runs[s][i] \in Run
  BY <1>1
<1> QED
  BY <1>1, <1>2 DEF Run

\* A rewrite disturbs neither the numbers nor, as long as the threads stay, the owners.
LEMMA RewriteKeepsNumbers == IInv /\ Rewrites /\ UNCHANGED made => Distinct'
BY DEF IInv, Rewrites, RewriteOf, Follows, Distinct

\* A run that a rewrite leaves or makes running has its thread.
LEMMA RewriteKeepsOwners ==
  ASSUME IInv, Rewrites, up' => up /\ StillBacked
  PROVE  RunningIsOwned'
<1>1. ASSUME up', NEW s \in Schedule, NEW i \in DOMAIN runs'[s], runs'[s][i].status = "running"
      PROVE  \E t \in DOMAIN threads' : Id(t)' = <<s, runs'[s][i].n>>
  <2>1. i \in DOMAIN runs[s] /\ Follows(s, runs[s][i], runs'[s][i])
    BY <1>1 DEF Rewrites, RewriteOf
  <2>2. runs[s][i].n \in Nat
    BY <2>1, RunsTyped DEF IInv, Types
  <2>3. Backed(s, runs[s][i].n)
    BY <1>1, <2>1 DEF Follows, IInv, RunningIsOwned, Backed, ToSet
  <2>4. \E t \in DOMAIN threads' : Id(t)' = <<s, runs[s][i].n>>
    BY <1>1, <2>2, <2>3 DEF StillBacked
  <2> QED
    BY <2>1, <2>4 DEF Follows
<1> QED
  BY <1>1 DEF RunningIsOwned, ToSet

\* Nor does it change a result.
EndedKeep ==
  \A s \in Schedule : \A run \in ToSet(runs[s]) : \A later \in ToSet(runs'[s]) :
    run.n = later.n /\ run.status \in Terminal => later.status = run.status

\* No number is given out again: a run that was kept before the step, or is new.
Descends ==
  \A s \in Schedule : /\ made'[s] >= made[s]
                      /\ \A later \in ToSet(runs'[s]) :
                           later.n <= made[s] => \E run \in ToSet(runs[s]) : run.n = later.n

\* A rewrite makes no new run.
LEMMA RewriteDescends == IInv /\ Rewrites /\ UNCHANGED made => Descends
<1> SUFFICES ASSUME IInv, Rewrites, UNCHANGED made, NEW s \in Schedule
             PROVE  /\ made'[s] >= made[s]
                    /\ \A later \in ToSet(runs'[s]) : \E run \in ToSet(runs[s]) : run.n = later.n
  BY DEF Descends
<1>1. made'[s] >= made[s]
  BY DEF IInv, Types, CountersOK
<1>2. ASSUME NEW j \in DOMAIN runs'[s] PROVE \E run \in ToSet(runs[s]) : run.n = runs'[s][j].n
  <2>1. j \in DOMAIN runs[s] /\ Follows(s, runs[s][j], runs'[s][j])
    BY <1>2 DEF Rewrites, RewriteOf
  <2> QED
    BY <2>1 DEF Follows, ToSet
<1> QED
  BY <1>1, <1>2 DEF ToSet

\* No rewrite changes a result.
LEMMA RewriteKeepsResults == IInv /\ Rewrites => EndedKeep
<1> SUFFICES ASSUME IInv, Rewrites, NEW s \in Schedule, NEW i \in DOMAIN runs[s], NEW j \in DOMAIN runs'[s],
                    runs[s][i].n = runs'[s][j].n, runs[s][i].status \in Terminal
             PROVE  runs'[s][j].status = runs[s][i].status
  BY DEF EndedKeep, ToSet
<1>1. j \in DOMAIN runs[s] /\ Follows(s, runs[s][j], runs'[s][j])
  BY DEF Rewrites, RewriteOf
<1>2. i = j
  BY <1>1 DEF Follows, IInv, Distinct
<1> QED
  BY <1>1, <1>2 DEF Follows
-----------------------------------------------------------------------------
(* What the operators that rewrite runs make of them.                      *)

\* A list made from the runs of a schedule, one by one.
LEMMA OneByOne ==
  ASSUME StoreOK, NEW s \in Schedule, NEW list, list = [i \in DOMAIN runs[s] |-> list[i]],
         \A i \in DOMAIN runs[s] : list[i] \in Run
  PROVE  /\ list \in Seq(Run) /\ DOMAIN list = DOMAIN runs[s]
         /\ Len(list) = Len(runs[s]) /\ Len(list) <= MAX_RUNS_PER_SCHEDULE
<1>1. runs[s] \in Seq(Run) /\ Len(runs[s]) <= MAX_RUNS_PER_SCHEDULE
  BY DEF StoreOK
<1>2. DOMAIN runs[s] = 1 .. Len(runs[s]) /\ Len(runs[s]) \in Nat
  BY <1>1
<1>3. list \in Seq(Run) /\ Len(list) = Len(runs[s]) /\ DOMAIN list = DOMAIN runs[s]
  BY <1>2
<1> QED
  BY <1>1, <1>3

\* The same, for a list whose runs follow those of the store.
LEMMA RunByRun ==
  ASSUME StoreOK, NEW s \in Schedule, NEW list, list = [i \in DOMAIN runs[s] |-> list[i]],
         \A i \in DOMAIN runs[s] : list[i] \in Run /\ Follows(s, runs[s][i], list[i])
  PROVE  RewriteOf(s, list)
BY OneByOne DEF RewriteOf

\* A schedule left alone.
LEMMA SameRuns ==
  ASSUME StoreOK, NEW s \in Schedule
  PROVE  RewriteOf(s, runs[s])
BY DEF StoreOK, RewriteOf, Follows

\* Runs that have not ended may be given any status but running.
LEMMA SettledRuns ==
  ASSUME StoreOK, NEW s \in Schedule, NEW settling, NEW status \in Status \ {"running"},
         \A run \in settling : run.status \notin Terminal
  PROVE  RewriteOf(s, Settled(s, settling, status))
<1> DEFINE list == Settled(s, settling, status)
<1>1. list = [i \in DOMAIN runs[s] |-> list[i]]
  BY DEF Settled
<1>2. ASSUME NEW i \in DOMAIN runs[s] PROVE list[i] \in Run /\ Follows(s, runs[s][i], list[i])
  <2>1. runs[s][i] \in Run
    BY RunsTyped
  <2>2. list[i] = IF runs[s][i] \in settling
                  THEN [runs[s][i] EXCEPT !.status = status, !.late = FALSE] ELSE runs[s][i]
    BY DEF Settled
  <2> QED
    BY <2>1, <2>2 DEF Run, Follows
<1> QED
  BY <1>1, <1>2, RunByRun

\* finish_run writes what its thread works on.
LEMMA SavedRunsOf ==
  ASSUME Types, NEW t \in DOMAIN threads, NEW run \in Run, run.n = threads[t].run.n
  PROVE  /\ SavedRuns(t, run) \in [Schedule -> Seq(Run)]
         /\ \A s \in Schedule : RewriteOf(s, SavedRuns(t, run)[s])
<1> DEFINE list == SavedRuns(t, run)[t[1]]
<1>0. StoreOK /\ t[1] \in Schedule /\ runs \in [Schedule -> Seq(Run)]
  BY DEF Types, ThreadsOK, StoreOK
<1>1. list = [i \in DOMAIN runs[t[1]] |-> list[i]]
  BY <1>0 DEF SavedRuns
<1>2. ASSUME NEW i \in DOMAIN runs[t[1]] PROVE list[i] \in Run /\ Follows(t[1], runs[t[1]][i], list[i])
  <2>1. runs[t[1]][i] \in Run
    BY <1>0, RunsTyped
  <2>2. list[i] = IF runs[t[1]][i].n = run.n /\ runs[t[1]][i].status \notin Terminal
                  THEN run ELSE runs[t[1]][i]
    BY <1>0 DEF SavedRuns
  <2>3. Backed(t[1], run.n)
    BY DEF Backed, Id
  <2> QED
    BY <2>1, <2>2, <2>3 DEF Run, Follows
<1>3. RewriteOf(t[1], list)
  BY <1>0, <1>1, <1>2, RunByRun
<1>4. SavedRuns(t, run) = [runs EXCEPT ![t[1]] = list]
  BY <1>0 DEF SavedRuns
<1> HIDE DEF list
<1>5. \A s \in Schedule : SavedRuns(t, run)[s] = IF s = t[1] THEN list ELSE runs[s]
  BY <1>0, <1>4
<1>6. \A s \in Schedule : RewriteOf(s, SavedRuns(t, run)[s])
  BY <1>0, <1>3, <1>5, SameRuns
<1> QED
  BY <1>0, <1>3, <1>4, <1>6 DEF RewriteOf
-----------------------------------------------------------------------------
(* What the steps do to the threads and to the map of executions.          *)

\* A step that leaves the threads alone.
LEMMA SameMemory ==
  ASSUME Types, UNCHANGED <<up, running, executions, threads>>
  PROVE  ThreadsOK' /\ ExecutionsOK' /\ StillBacked
BY DEF Types, ThreadsOK, ExecutionsOK, StillBacked, Backed, Id

\* A thread goes on with the run it had, and is not named by an entry once it has removed its own.
LEMMA ThreadMoves ==
  ASSUME Types, NEW t \in DOMAIN threads, NEW moved \in Thread,
         threads' = [threads EXCEPT ![t] = moved], moved.run.n = threads[t].run.n,
         moved.pc \in {"releasing", "expiring"} => \A id \in DOMAIN executions : executions[id] # t,
         UNCHANGED <<up, running, executions>>
  PROVE  ThreadsOK' /\ ExecutionsOK' /\ StillBacked
<1>1. /\ DOMAIN threads' = DOMAIN threads
      /\ \A u \in DOMAIN threads : threads'[u] = IF u = t THEN moved ELSE threads[u]
  BY DEF Types, ThreadsOK
<1>2. ThreadsOK'
  BY <1>1 DEF Types, ThreadsOK
<1>3. \A u \in DOMAIN threads : Id(u)' = Id(u)
  BY <1>1 DEF Id
<1>4. ExecutionsOK'
  BY <1>1, <1>3 DEF Types, ExecutionsOK, Id
<1>5. StillBacked
  BY <1>1, <1>3 DEF StillBacked, Backed
<1> QED
  BY <1>2, <1>4, <1>5

\* Whoever tells a thread to stop leaves its run and its place alone.
LEMMA SignalledMoves ==
  ASSUME Types, NEW t \in DOMAIN threads, threads' = Signalled(t), UNCHANGED <<up, running, executions>>
  PROVE  ThreadsOK' /\ ExecutionsOK' /\ StillBacked
<1> DEFINE known == threads[t].chat = "up" /\ threads[t].pc = "working"
           moved == [threads[t] EXCEPT !.cancelled = TRUE, !.chat = IF known THEN "gone" ELSE threads[t].chat]
<1>1. threads[t] \in Thread
  BY DEF Types, ThreadsOK
<1>2. moved \in Thread /\ moved.run = threads[t].run /\ moved.pc = threads[t].pc
  BY <1>1 DEF Thread
<1>3. threads' = [threads EXCEPT ![t] = moved]
  BY DEF Signalled
<1>4. moved.pc \in {"releasing", "expiring"} => \A id \in DOMAIN executions : executions[id] # t
  BY <1>2 DEF Types, ExecutionsOK
<1> QED
  BY <1>2, <1>3, <1>4, ThreadMoves

-----------------------------------------------------------------------------
\* All steps but a claim.
GoodStep ==
  /\ Types' /\ Rewrites /\ UNCHANGED made
  /\ RunningIsOwned' \/ (up' => up /\ StillBacked)

\* Such a step keeps the invariant and the results.
LEMMA GoodStepKeeps == IInv /\ GoodStep => IInv' /\ EndedKeep /\ Descends
<1> SUFFICES ASSUME IInv, GoodStep PROVE IInv' /\ EndedKeep /\ Descends
  OBVIOUS
<1>1. Rewrites /\ UNCHANGED made /\ Types'
  BY DEF GoodStep
<1>2. RunningIsOwned'
  BY <1>1, RewriteKeepsOwners DEF GoodStep
<1>3. Distinct' /\ EndedKeep /\ Descends
  BY <1>1, RewriteKeepsNumbers, RewriteKeepsResults, RewriteDescends
<1> QED
  BY <1>1, <1>2, <1>3 DEF IInv

\* A step that leaves the store alone.
LEMMA SameStore ==
  ASSUME Types, UNCHANGED <<schedules, runs, pending, paused>>
  PROVE  StoreOK' /\ Rewrites
<1>1. StoreOK
  BY DEF Types
<1> QED
  BY <1>1, SameRuns DEF StoreOK, Rewrites

\* The runs of one schedule are rewritten.
LEMMA OneRewritten ==
  ASSUME StoreOK, NEW s \in Schedule, NEW list, RewriteOf(s, list), runs' = [runs EXCEPT ![s] = list]
  PROVE  Rewrites
<1>1. \A r \in Schedule : runs'[r] = IF r = s THEN list ELSE runs[r]
  BY DEF StoreOK
<1>2. runs' \in [Schedule -> Seq(Run)]
  BY DEF StoreOK, RewriteOf
<1> QED
  BY <1>1, <1>2, SameRuns DEF Rewrites

\* A rewrite is typed.
LEMMA RewritesTyped ==
  ASSUME Rewrites, pending' \in [Schedule -> Seq(Event)], paused' \in BOOLEAN,
         schedules' \in [Schedule -> [life : {"unborn", "kept", "deleted"}, enabled : BOOLEAN,
                                      due : BOOLEAN, manual : BOOLEAN]]
  PROVE  StoreOK'
BY DEF StoreOK, Rewrites, RewriteOf

\* Calls of users and of document triggers.
LEMMA CallsAreGood == IInv /\ Calls => GoodStep
<1> SUFFICES ASSUME IInv, Calls PROVE GoodStep
  OBVIOUS
<1>0. Types /\ StoreOK
  BY DEF IInv, Types
<1>1. UNCHANGED <<up, running, executions, threads, tick, made, claims>>
  BY DEF Calls, set_paused, create, update, delete, run_now, FallsDue, CancelReads, set_enabled,
         run_now_from_document_trigger, outside, memory, counters
<1>2. ThreadsOK' /\ ExecutionsOK' /\ StillBacked /\ CountersOK'
  BY <1>0, <1>1, SameMemory DEF Types, CountersOK
<1>3. StoreOK' /\ Rewrites
  <2> USE DEF Kept
  <2>1. ASSUME UNCHANGED <<runs, pending>> PROVE Rewrites
    BY <1>0, <2>1, SameRuns DEF StoreOK, Rewrites
  <2>2. CASE set_paused
    BY <1>0, <2>1, <2>2 DEF StoreOK, set_paused
  <2>3. ASSUME NEW s \in Schedule, create(s) PROVE StoreOK' /\ Rewrites
    <3>1. PICK enabled \in BOOLEAN :
            schedules' = [schedules EXCEPT ![s] = [@ EXCEPT !.life = "kept", !.enabled = enabled]]
      BY <2>3 DEF create
    <3>2. UNCHANGED <<runs, pending, paused>>
      BY <2>3 DEF create
    <3>3. schedules' \in [Schedule -> [life : {"unborn", "kept", "deleted"}, enabled : BOOLEAN,
                                       due : BOOLEAN, manual : BOOLEAN]]
      BY <1>0, <3>1 DEF StoreOK
    <3> QED
      BY <1>0, <2>1, <3>2, <3>3 DEF StoreOK
  <2>4. ASSUME NEW s \in Schedule, update(s) PROVE StoreOK' /\ Rewrites
    BY <1>0, <2>1, <2>4 DEF StoreOK, update
  <2>5. ASSUME NEW s \in Schedule, run_now(s) PROVE StoreOK' /\ Rewrites
    BY <1>0, <2>1, <2>5 DEF StoreOK, run_now
  <2>6. ASSUME NEW s \in Schedule, FallsDue(s) PROVE StoreOK' /\ Rewrites
    BY <1>0, <2>1, <2>6 DEF StoreOK, FallsDue
  <2>7. ASSUME NEW s \in Schedule, CancelReads(s) PROVE StoreOK' /\ Rewrites
    BY <1>0, <2>7, SameStore DEF CancelReads, store
  <2>8. ASSUME NEW s \in Schedule, delete(s) PROVE StoreOK' /\ Rewrites
    <3>1. /\ RewriteOf(s, << >>)
          /\ << >> \in Seq(Event) /\ << >> \in Seq(Run) /\ Len(<< >>) <= MAX_RUNS_PER_SCHEDULE
      BY SchedulerAssumption DEF RewriteOf
    <3>2. schedules' \in [Schedule -> [life : {"unborn", "kept", "deleted"}, enabled : BOOLEAN,
                                       due : BOOLEAN, manual : BOOLEAN]]
      BY <1>0, <2>8 DEF StoreOK, delete
    <3>3. pending' \in [Schedule -> Seq(Event)] /\ paused' \in BOOLEAN
      BY <1>0, <2>8, <3>1 DEF StoreOK, delete
    <3>4. /\ runs' \in [Schedule -> Seq(Run)]
          /\ \A r \in Schedule : runs'[r] = IF r = s THEN << >> ELSE runs[r]
      BY <1>0, <2>8, <3>1 DEF StoreOK, delete
    <3>5. Rewrites
      BY <1>0, <3>1, <3>4, SameRuns DEF Rewrites
    <3> QED
      BY <3>2, <3>3, <3>5, RewritesTyped
  <2>9. ASSUME NEW s \in Schedule, NEW enabled \in BOOLEAN, set_enabled(s, enabled)
        PROVE  StoreOK' /\ Rewrites
    <3>1. CASE enabled
      <4>1. /\ schedules' = [schedules EXCEPT ![s] = [@ EXCEPT !.enabled = TRUE, !.due = FALSE]]
            /\ UNCHANGED <<runs, pending, paused>>
        BY <2>9, <3>1, Zenon DEF set_enabled
      <4> QED
        BY <1>0, <2>1, <4>1 DEF StoreOK
    <3>2. CASE ~enabled
      <4> DEFINE list == Settled(s, RunsIn(s, Waiting), "skipped")
      <4>0. /\ schedules' = [schedules EXCEPT ![s] = [@ EXCEPT !.enabled = FALSE, !.manual = FALSE]]
            /\ pending' = [pending EXCEPT ![s] = << >>] /\ UNCHANGED paused
        BY <2>9, <3>2, Zenon DEF set_enabled
      <4>1. schedules' \in [Schedule -> [life : {"unborn", "kept", "deleted"}, enabled : BOOLEAN,
                                         due : BOOLEAN, manual : BOOLEAN]]
        BY <1>0, <4>0 DEF StoreOK
      <4>2. pending' \in [Schedule -> Seq(Event)] /\ paused' \in BOOLEAN
        BY <1>0, <4>0 DEF StoreOK
      <4>3. RewriteOf(s, list)
        BY <1>0, SettledRuns DEF RunsIn, Waiting, Terminal, Status
      <4>4. runs' = [runs EXCEPT ![s] = list]
        BY <2>9, <3>2 DEF set_enabled
      <4>5. Rewrites
        BY <1>0, <4>3, <4>4, OneRewritten
      <4> QED
        BY <4>1, <4>2, <4>5, RewritesTyped
    <3> QED
      BY <3>1, <3>2
  <2>10. ASSUME NEW s \in Schedule, NEW e \in Event, run_now_from_document_trigger(s, e)
         PROVE  StoreOK' /\ Rewrites
    <3>1. UNCHANGED <<schedules, runs, paused>> /\ pending' = [pending EXCEPT ![s] = Append(@, e)]
      BY <2>10 DEF run_now_from_document_trigger
    <3>2. Append(pending[s], e) \in Seq(Event)
      BY <1>0 DEF StoreOK
    <3> QED
      BY <1>0, <3>1, <3>2, SameRuns DEF StoreOK, Rewrites
  <2> QED
    BY <2>2, <2>3, <2>4, <2>5, <2>6, <2>7, <2>8, <2>9, <2>10 DEF Calls
<1>4. LoopOK'
  <2>1. CASE UNCHANGED cancel
    BY <1>0, <1>1, <2>1 DEF Types, LoopOK
  <2>2. ASSUME NEW s \in Schedule, CancelReads(s) PROVE LoopOK'
    <3>1. PICK run \in ToSet(runs[s]) : cancel' = [pc |-> "looking", run |-> <<s, run.n>>]
      BY <2>2 DEF CancelReads
    <3>2. run.n \in Nat
      BY <1>0, RunsTyped DEF ToSet
    <3> QED
      BY <1>0, <1>1, <3>1, <3>2 DEF Types, LoopOK
  <2> QED
    BY <2>1, <2>2 DEF Calls, set_paused, create, update, delete, run_now, FallsDue, set_enabled,
         run_now_from_document_trigger, outside
<1> QED
  BY <1>1, <1>2, <1>3, <1>4, <1>0 DEF GoodStep, Types

-----------------------------------------------------------------------------
\* The store is empty and nobody works at first.
LEMMA InitIInv == Init => IInv
<1> SUFFICES ASSUME Init PROVE IInv
  OBVIOUS
<1>1. StoreOK
  <2>1. << >> \in Seq(Run) /\ << >> \in Seq(Event) /\ Len(<< >>) <= MAX_RUNS_PER_SCHEDULE
    BY SchedulerAssumption
  <2> QED
    BY <2>1 DEF Init, StoreOK
<1>2. DOMAIN threads = {} /\ DOMAIN executions = {} /\ \A s \in Schedule : DOMAIN runs[s] = {}
  BY DEF Init
<1>3. ThreadsOK /\ ExecutionsOK
  BY <1>2 DEF Init, ThreadsOK, ExecutionsOK
<1>4. LoopOK /\ CountersOK
  BY DEF Init, LoopOK, CountersOK
<1>5. Distinct /\ RunningIsOwned
  BY <1>2 DEF Distinct, RunningIsOwned, ToSet
<1> QED
  BY <1>1, <1>3, <1>4, <1>5 DEF IInv, Types

\* cancel_run, the signal and the write.
LEMMA CancelsAreGood == IInv /\ Cancels => GoodStep
<1> SUFFICES ASSUME IInv, Cancels PROVE GoodStep
  OBVIOUS
<1>0. Types /\ StoreOK /\ LoopOK /\ CountersOK /\ ExecutionsOK
  BY DEF IInv, Types
<1>1. CASE CancelLooks
  <2>1. UNCHANGED <<schedules, runs, pending, paused, up, running, executions, tick, made, claims>>
    BY <1>1 DEF CancelLooks, store, counters
  <2>2. StoreOK' /\ Rewrites
    BY <1>0, <2>1, SameStore
  <2>3. ThreadsOK' /\ ExecutionsOK' /\ StillBacked
    <3>1. CASE UNCHANGED threads
      BY <1>0, <2>1, <3>1, SameMemory
    <3>2. CASE cancel.run \in DOMAIN executions /\ threads' = Signalled(executions[cancel.run])
      <4>1. executions[cancel.run] \in DOMAIN threads
        BY <1>0, <3>2 DEF ExecutionsOK
      <4> QED
        BY <1>0, <2>1, <3>2, <4>1, SignalledMoves
    <3> QED
      BY <1>1, <3>1, <3>2 DEF CancelLooks
  <2>4. LoopOK' /\ CountersOK'
    BY <1>0, <1>1, <2>1 DEF CancelLooks, LoopOK, CountersOK
  <2> QED
    BY <2>1, <2>2, <2>3, <2>4 DEF GoodStep, Types
<1>2. CASE CancelWrites
  <2> DEFINE s == cancel.run[1]
             list == Settled(s, {run \in Stored(cancel.run) : run.status \notin Terminal}, "cancelled")
  <2>1. UNCHANGED <<schedules, pending, paused, up, running, executions, threads, tick, made, claims>>
    BY <1>2 DEF CancelWrites, memory, counters
  <2>2. cancel.run \in Schedule \X Nat
    BY <1>0, <1>2 DEF CancelWrites, LoopOK
  <2>3. RewriteOf(s, list)
    BY <1>0, <2>2, SettledRuns DEF Status, Terminal
  <2>4. Rewrites
    BY <1>0, <1>2, <2>2, <2>3, OneRewritten DEF CancelWrites
  <2>5. StoreOK'
    BY <1>0, <2>1, <2>4, RewritesTyped DEF StoreOK
  <2>6. ThreadsOK' /\ ExecutionsOK' /\ StillBacked
    BY <1>0, <2>1, SameMemory
  <2>7. LoopOK' /\ CountersOK'
    BY <1>0, <1>2, <2>1 DEF CancelWrites, LoopOK, CountersOK
  <2> QED
    BY <2>1, <2>4, <2>5, <2>6, <2>7 DEF GoodStep, Types
<1> QED
  BY <1>1, <1>2 DEF Cancels

\* A lease that ran out is closed in place.
LEMMA ExpiredRuns ==
  ASSUME StoreOK, NEW id \in Schedule \X Nat, runs' = expire_running(id)
  PROVE  Rewrites
<1> DEFINE list == Settled(id[1], {run \in Stored(id) : run.status = "running"}, "failed")
<1>1. RewriteOf(id[1], list)
  BY SettledRuns DEF Status, Terminal
<1>2. runs' = [runs EXCEPT ![id[1]] = list]
  BY DEF expire_running
<1> QED
  BY <1>1, <1>2, OneRewritten

\* A tick up to its claim.
LEMMA TicksAreGood == IInv /\ Ticks => GoodStep \/ claim_due
<1> SUFFICES ASSUME IInv, Ticks, ~claim_due PROVE GoodStep
  OBVIOUS
<1>0. Types /\ StoreOK /\ LoopOK /\ CountersOK /\ ExecutionsOK
  BY DEF IInv, Types
<1>1. UNCHANGED <<pending, paused, up, running, executions, cancel, made, claims>>
  BY DEF Ticks, skip_missed, ReadExpired, SignalExpired, WriteExpired, CopyRunning, store, memory, counters
<1>2. CountersOK'
  BY <1>0, <1>1 DEF CountersOK
<1>3. StoreOK' /\ Rewrites
  <2>1. CASE skip_missed
    <3>1. schedules' \in [Schedule -> [life : {"unborn", "kept", "deleted"}, enabled : BOOLEAN,
                                       due : BOOLEAN, manual : BOOLEAN]]
      BY <1>0, <2>1 DEF skip_missed, StoreOK
    <3>2. Rewrites
      BY <1>0, <2>1, SameRuns DEF skip_missed, StoreOK, Rewrites
    <3> QED
      BY <1>0, <1>1, <3>1, <3>2, RewritesTyped DEF StoreOK
  <2>2. CASE UNCHANGED <<schedules, runs>>
    BY <1>0, <1>1, <2>2, SameStore
  <2>3. CASE WriteExpired
    <3>1. PICK id \in tick.signalled : runs' = expire_running(id)
      BY <2>3 DEF WriteExpired
    <3>2. Rewrites
      BY <1>0, <3>1, ExpiredRuns DEF LoopOK
    <3> QED
      BY <1>0, <1>1, <2>3, <3>2, RewritesTyped DEF StoreOK, WriteExpired
  <2> QED
    BY <2>1, <2>2, <2>3 DEF Ticks, ReadExpired, SignalExpired, CopyRunning, store
<1>4. ThreadsOK' /\ ExecutionsOK' /\ StillBacked
  <2>1. CASE UNCHANGED threads
    BY <1>0, <1>1, <2>1, SameMemory
  <2>2. CASE SignalExpired
    <3>1. PICK id \in tick.expired :
            threads' = IF id \in DOMAIN executions THEN Signalled(executions[id]) ELSE threads
      BY <2>2 DEF SignalExpired
    <3>2. CASE id \in DOMAIN executions
      <4>1. executions[id] \in DOMAIN threads
        BY <1>0, <3>2 DEF ExecutionsOK
      <4> QED
        BY <1>0, <1>1, <3>1, <3>2, <4>1, SignalledMoves
    <3> QED
      BY <2>1, <3>1, <3>2
  <2> QED
    BY <2>1, <2>2 DEF Ticks, skip_missed, ReadExpired, WriteExpired, CopyRunning, memory
<1>5. LoopOK'
  <2>1. CASE skip_missed
    BY <1>0, <1>1, <2>1 DEF LoopOK, skip_missed
  <2>2. CASE ReadExpired
    <3> DEFINE ids == UNION {{<<s, run.n>> : run \in Late(s)} : s \in Schedule}
    <3>1. \A s \in Schedule : \A run \in Late(s) : run.n \in Nat
      BY <1>0, RunsTyped DEF Late, RunsIn, ToSet
    <3>2. ids \in SUBSET (Schedule \X Nat)
      BY <3>1
    <3>3. tick' = [tick EXCEPT !.pc = "expiring", !.expired = ids]
      BY <2>2 DEF ReadExpired
    <3> HIDE DEF ids
    <3> QED
      BY <1>0, <1>1, <3>2, <3>3 DEF LoopOK
  <2>3. CASE SignalExpired
    <3>1. PICK id \in tick.expired : tick' = [tick EXCEPT !.signalled = {id}]
      BY <2>3 DEF SignalExpired
    <3> QED
      BY <1>0, <1>1, <3>1 DEF LoopOK
  <2>4. CASE WriteExpired
    <3>1. PICK id \in tick.signalled : tick' = [tick EXCEPT !.expired = @ \ {id}, !.signalled = {}]
      BY <2>4 DEF WriteExpired
    <3> QED
      BY <1>0, <1>1, <3>1 DEF LoopOK
  <2>5. CASE CopyRunning
    BY <1>0, <1>1, <2>5 DEF LoopOK, CopyRunning, IInv, Types, ThreadsOK
  <2> QED
    BY <2>1, <2>2, <2>3, <2>4, <2>5 DEF Ticks
<1> QED
  BY <1>1, <1>2, <1>3, <1>4, <1>5 DEF GoodStep, Types

-----------------------------------------------------------------------------
(* The steps of an executor.                                               *)

\* A step within the process that moves one thread and rewrites the runs.
LEMMA ThreadStep ==
  ASSUME IInv, NEW t \in DOMAIN threads, NEW moved \in Thread,
         threads' = [threads EXCEPT ![t] = moved], moved.run.n = threads[t].run.n,
         moved.pc \in {"releasing", "expiring"} => \A id \in DOMAIN executions : executions[id] # t,
         StoreOK', Rewrites, UNCHANGED <<up, running, executions, tick, cancel, made, claims>>
  PROVE  GoodStep
<1>1. ThreadsOK' /\ ExecutionsOK' /\ StillBacked
  BY ThreadMoves DEF IInv
<1>2. LoopOK' /\ CountersOK'
  BY DEF IInv, Types, LoopOK, CountersOK
<1> QED
  BY <1>1, <1>2 DEF GoodStep, Types

\* The store is left alone.
LEMMA QuietThreadStep ==
  ASSUME IInv, NEW t \in DOMAIN threads, NEW moved \in Thread,
         threads' = [threads EXCEPT ![t] = moved], moved.run.n = threads[t].run.n,
         moved.pc \in {"releasing", "expiring"} => moved.pc = threads[t].pc,
         UNCHANGED <<store, up, running, executions, tick, cancel, counters>>
  PROVE  GoodStep
<1>1. StoreOK' /\ Rewrites
  BY SameStore DEF IInv, store
<1>2. moved.pc \in {"releasing", "expiring"} => \A id \in DOMAIN executions : executions[id] # t
  BY DEF IInv, Types, ExecutionsOK
<1> QED
  BY <1>1, <1>2, ThreadStep DEF counters

\* The store takes back the copy of the run.
LEMMA FinishedStore ==
  ASSUME IInv, NEW t \in DOMAIN threads, NEW run \in Run, run.n = threads[t].run.n, finish_run(t, run)
  PROVE  StoreOK' /\ Rewrites
<1>0. Types /\ StoreOK /\ threads[t] \in Thread /\ t[1] \in Schedule
  BY DEF IInv, Types, ThreadsOK
<1>1. Rewrites
  BY <1>0, SavedRunsOf DEF finish_run, Rewrites
<1>2. schedules' \in [Schedule -> [life : {"unborn", "kept", "deleted"}, enabled : BOOLEAN,
                                    due : BOOLEAN, manual : BOOLEAN]]
  <2> DEFINE enabled == schedules[t[1]].enabled /\ threads[t].enabled
  <2>1. schedules' = IF t[1] \in Kept THEN [schedules EXCEPT ![t[1]] = [@ EXCEPT !.enabled = enabled]]
                     ELSE schedules
    BY DEF finish_run, SavedSchedules
  <2>2. enabled \in BOOLEAN
    BY Zenon
  <2> HIDE DEF enabled
  <2> QED
    BY <1>0, <2>1, <2>2 DEF StoreOK
<1> QED
  BY <1>0, <1>1, <1>2, RewritesTyped DEF finish_run, StoreOK

\* What finish_run gives back is a run under the number of the copy.
LEMMA SavedIsRun ==
  ASSUME IInv, NEW t \in DOMAIN threads, NEW run \in Run, run.n = threads[t].run.n
  PROVE  Saved(t, run) \in Run /\ Saved(t, run).n = run.n
<1>0. Types /\ StoreOK /\ t[1] \in Schedule
  BY DEF IInv, Types, ThreadsOK
<1>1. CASE Stored(Id(t)) = {}
  BY <1>1 DEF Saved
<1>2. CASE Stored(Id(t)) # {}
  <2> DEFINE list == SavedRuns(t, run)[t[1]]
  <2>1. PICK i \in DOMAIN runs[t[1]] : runs[t[1]][i].n = run.n
    BY <1>2 DEF Stored, Id, ToSet
  <2>2. RewriteOf(t[1], list)
    BY <1>0, SavedRunsOf
  <2>3. DOMAIN list = DOMAIN runs[t[1]] /\ list[i].n = run.n
    <3>1. list = [j \in DOMAIN runs[t[1]] |-> IF runs[t[1]][j].n = run.n /\ runs[t[1]][j].status \notin Terminal
                                            THEN run ELSE runs[t[1]][j]]
      BY <1>0 DEF SavedRuns, StoreOK
    <3> QED
      BY <2>1, <3>1
  <2>4. list \in Seq(Run)
    BY <2>2 DEF RewriteOf
  <2>5. list[i] \in ToSet(list) /\ ToSet(list) \subseteq Run
    BY <2>1, <2>3, <2>4 DEF ToSet
  <2>6. Saved(t, run) = CHOOSE saved \in ToSet(list) : saved.n = run.n
    BY <1>2 DEF Saved
  <2> HIDE DEF list
  <2> QED
    BY <2>3, <2>5, <2>6
<1> QED
  BY <1>1, <1>2

\* The executor alone moves: it leaves the store, and everyone else, as they are.
LEMMA LonelyStepsAreGood ==
  ASSUME IInv, NEW t \in DOMAIN threads,
         \/ prepare_run_account(t) \/ StartupEnds(t) \/ await_run_startup(t)
         \/ drain_run_events(t) \/ run_workflow_action(t) \/ Panics(t)
  PROVE  GoodStep
<1>0. threads[t] \in Thread
  BY DEF IInv, Types, ThreadsOK
<1>1. UNCHANGED <<store, up, running, executions, tick, cancel, counters>>
  BY DEF prepare_run_account, StartupEnds, await_run_startup, drain_run_events, run_workflow_action,
         Panics, inside
<1>2. \A status \in Status : Ends(t, status) \in Run /\ Ends(t, status).n = threads[t].run.n
  BY <1>0 DEF Ends, Thread, Run
<1>3. ErrorStatus(t) \in Status
  BY DEF ErrorStatus, Status, Terminal
<1>4. ASSUME NEW moved \in Thread, threads' = [threads EXCEPT ![t] = moved],
             moved.run.n = threads[t].run.n,
             moved.pc \in {"releasing", "expiring"} => moved.pc = threads[t].pc
      PROVE  GoodStep
  BY <1>1, <1>4, QuietThreadStep
\* The thread goes to another place, or its conversation to another state.
<1>5. ASSUME NEW pc \in {"starting", "working", "deregistering"}, Goes(t, pc)
      PROVE  GoodStep
  <2>1. [threads[t] EXCEPT !.pc = pc] \in Thread
    BY <1>0 DEF Thread
  <2> QED
    BY <1>0, <1>4, <1>5, <2>1 DEF Goes, Thread
<1>6. ASSUME NEW status \in Status, Outcome(t, status) PROVE GoodStep
  <2> DEFINE moved == [threads[t] EXCEPT !.pc = "recording", !.chat = "none", !.run = Ends(t, status)]
  <2>1. moved \in Thread /\ moved.run = Ends(t, status) /\ moved.pc = "recording"
    BY <1>0, <1>2 DEF Thread
  <2>2. threads' = [threads EXCEPT ![t] = moved]
    BY <1>6 DEF Outcome
  <2> QED
    BY <1>2, <1>4, <2>1, <2>2
<1>7. ASSUME ResumeFails(t) PROVE GoodStep
  <2>1. CASE threads' = [threads EXCEPT ![t] =
               [@ EXCEPT !.pc = "recording", !.chat = "none", !.enabled = FALSE, !.run = Ends(t, ErrorStatus(t))]]
    <3> DEFINE moved == [threads[t] EXCEPT !.pc = "recording", !.chat = "none", !.enabled = FALSE,
                                           !.run = Ends(t, ErrorStatus(t))]
    <3>1. moved \in Thread /\ moved.run = Ends(t, ErrorStatus(t)) /\ moved.pc = "recording"
      BY <1>0, <1>2, <1>3 DEF Thread
    <3> QED
      BY <1>2, <1>3, <1>4, <2>1, <3>1
  <2>2. ASSUME NEW attempt \in {"retry", "fresh"},
               threads' = [threads EXCEPT ![t] =
                 [@ EXCEPT !.pc = "launching", !.chat = "starting", !.attempt = attempt]]
        PROVE  GoodStep
    <3> DEFINE moved == [threads[t] EXCEPT !.pc = "launching", !.chat = "starting", !.attempt = attempt]
    <3>1. moved \in Thread /\ moved.run = threads[t].run /\ moved.pc = "launching"
      BY <1>0 DEF Thread
    <3> QED
      BY <1>4, <2>2, <3>1
  <2> QED
    BY <1>7, <2>1, <2>2 DEF ResumeFails
<1>8. CASE prepare_run_account(t)
  <2>1. ASSUME NEW status \in Status,
               threads' = [threads EXCEPT ![t] = [@ EXCEPT !.pc = "recording", !.run = Ends(t, status)]]
        PROVE  GoodStep
    <3> DEFINE moved == [threads[t] EXCEPT !.pc = "recording", !.run = Ends(t, status)]
    <3>1. moved \in Thread /\ moved.run = Ends(t, status) /\ moved.pc = "recording"
      BY <1>0, <1>2 DEF Thread
    <3> QED
      BY <1>2, <1>4, <2>1, <3>1
  <2> QED
    BY <1>5, <1>8, <2>1 DEF prepare_run_account, Status, Waiting, Terminal
<1>9. CASE StartupEnds(t)
  <2>1. PICK chat \in {"up", "failed", "unresumed"} : threads' = [threads EXCEPT ![t] = [@ EXCEPT !.chat = chat]]
    BY <1>9 DEF StartupEnds
  <2> DEFINE moved == [threads[t] EXCEPT !.chat = chat]
  <2>2. moved \in Thread /\ moved.run = threads[t].run /\ moved.pc = threads[t].pc
    BY <1>0 DEF Thread
  <2> QED
    BY <1>4, <2>1, <2>2
<1>10. CASE await_run_startup(t)
  <2>1. CASE Outcome(t, "cancelled") \/ Outcome(t, ErrorStatus(t))
    BY <1>3, <1>6, <2>1 DEF Status, Terminal
  <2>2. CASE threads' = [threads EXCEPT ![t] =
               [@ EXCEPT !.cancelled = TRUE, !.pc = "recording", !.chat = "none", !.run = Ends(t, "cancelled")]]
    <3> DEFINE moved == [threads[t] EXCEPT !.cancelled = TRUE, !.pc = "recording", !.chat = "none",
                                           !.run = Ends(t, "cancelled")]
    <3>1. moved \in Thread /\ moved.run = Ends(t, "cancelled") /\ moved.pc = "recording"
      BY <1>0, <1>2 DEF Thread, Status, Terminal
    <3> QED
      BY <1>2, <1>4, <2>2, <3>1 DEF Status, Terminal
  <2> QED
    BY <1>5, <1>7, <1>10, <2>1, <2>2 DEF await_run_startup
<1>11. CASE drain_run_events(t)
  BY <1>3, <1>6, <1>7, <1>11 DEF drain_run_events, Status, Waiting, Terminal
<1>12. CASE run_workflow_action(t)
  <2>1. ASSUME NEW enabled \in {threads[t].enabled, FALSE},
               threads' = [threads EXCEPT ![t] =
                 [@ EXCEPT !.pc = "recording", !.enabled = enabled, !.run = Ends(t, "failed")]]
        PROVE  GoodStep
    <3> DEFINE moved == [threads[t] EXCEPT !.pc = "recording", !.enabled = enabled, !.run = Ends(t, "failed")]
    <3>1. moved \in Thread /\ moved.run = Ends(t, "failed") /\ moved.pc = "recording"
      BY <1>0, <1>2 DEF Thread, Status, Terminal
    <3> QED
      BY <1>2, <1>4, <2>1, <3>1 DEF Status, Terminal
  <2> QED
    BY <1>6, <1>12, <2>1 DEF run_workflow_action, Status, Terminal
<1>13. CASE Panics(t)
  <2> DEFINE moved == [threads[t] EXCEPT !.pc = "deregistering", !.chat = "none"]
  <2>1. moved \in Thread /\ moved.run = threads[t].run /\ moved.pc = "deregistering"
    BY <1>0 DEF Thread
  <2>2. threads' = [threads EXCEPT ![t] = moved]
    BY <1>13 DEF Panics
  <2> QED
    BY <1>4, <2>1, <2>2
<1> QED
  BY <1>8, <1>9, <1>10, <1>11, <1>12, <1>13

\* The executor writes its copy back and goes on.
LEMMA FinishingStepsAreGood ==
  ASSUME IInv, NEW t \in DOMAIN threads,
         start_run(t) \/ Reference(t) \/ finish_and_emit(t)
  PROVE  GoodStep
<1>0. threads[t] \in Thread /\ threads[t].run \in Run /\ t[1] \in Schedule
  BY DEF IInv, Types, ThreadsOK, Thread
<1>1. UNCHANGED <<up, running, executions, tick, cancel, made, claims>>
  BY DEF start_run, Reference, finish_and_emit, inside, counters
<1>2. ASSUME NEW run \in Run, run.n = threads[t].run.n, finish_run(t, run),
             NEW moved \in Thread, threads' = [threads EXCEPT ![t] = moved],
             moved.run.n = threads[t].run.n, moved.pc \notin {"releasing", "expiring"}
      PROVE  GoodStep
  <2>1. StoreOK' /\ Rewrites
    BY <1>2, FinishedStore
  <2> QED
    BY <1>1, <1>2, <2>1, ThreadStep
<1>3. CASE start_run(t)
  <2> DEFINE saved == Saved(t, Started(t))
             pc == IF t[1] \in Workflow THEN "working" ELSE "referencing"
             enabled == SavedSchedules(t)[t[1]].enabled
             document == IF t[1] \in Kept THEN None ELSE threads[t].document
             ends == [threads[t] EXCEPT !.pc = "deregistering"]
             goes == [threads[t] EXCEPT !.pc = pc, !.run = saved, !.enabled = enabled, !.document = document]
  <2>1. Started(t) \in Run /\ Started(t).n = threads[t].run.n
    BY <1>0 DEF Started, Run, Status
  <2>2. saved \in Run /\ saved.n = threads[t].run.n
    BY <2>1, SavedIsRun
  <2>3. enabled \in BOOLEAN
    <3>1. finish_run(t, Started(t))
      BY <1>3 DEF start_run
    <3>2. SavedSchedules(t) = schedules' /\ StoreOK'
      BY <2>1, <3>1, FinishedStore DEF finish_run
    <3> QED
      BY <1>0, <3>2 DEF StoreOK
  <2>4. document \in Event \cup {None} /\ pc \in {"working", "referencing"}
    BY <1>0 DEF Thread
  <2>5. ends \in Thread /\ ends.run = threads[t].run /\ ends.pc = "deregistering"
    BY <1>0 DEF Thread
  <2>6. threads' = [threads EXCEPT ![t] = IF saved.status # "running" THEN ends ELSE goes]
    BY <1>3, Zenon DEF start_run
  <2>7. finish_run(t, Started(t))
    BY <1>3 DEF start_run
  <2> HIDE DEF saved, pc, enabled, document
  <2>8. goes \in Thread /\ goes.run = saved /\ goes.pc = pc
    BY <1>0, <2>2, <2>3, <2>4 DEF Thread
  <2> HIDE DEF ends, goes
  <2>9. CASE saved.status # "running"
    BY <1>2, <2>1, <2>5, <2>6, <2>7, <2>9
  <2>10. CASE saved.status = "running"
    BY <1>2, <2>1, <2>2, <2>4, <2>6, <2>7, <2>8, <2>10
  <2> QED
    BY <2>9, <2>10
<1>4. CASE Reference(t)
  <2>1. PICK attempt \in {"resume", "fresh"} :
          threads' = [threads EXCEPT ![t] =
            [@ EXCEPT !.pc = "launching", !.chat = "starting", !.attempt = attempt]]
    BY <1>4 DEF Reference
  <2> DEFINE moved == [threads[t] EXCEPT !.pc = "launching", !.chat = "starting", !.attempt = attempt]
  <2>2. moved \in Thread /\ moved.run = threads[t].run /\ moved.pc = "launching"
    BY <1>0 DEF Thread
  <2> QED
    BY <1>0, <1>2, <1>4, <2>1, <2>2 DEF Reference
<1>5. CASE finish_and_emit(t)
  <2> DEFINE moved == [threads[t] EXCEPT !.pc = "deregistering"]
  <2>1. moved \in Thread /\ moved.run = threads[t].run /\ moved.pc = "deregistering"
    BY <1>0 DEF Thread
  <2>2. threads' = [threads EXCEPT ![t] = moved] /\ finish_run(t, threads[t].run)
    BY <1>5 DEF finish_and_emit, Goes
  <2> QED
    BY <1>0, <1>2, <2>1, <2>2
<1> QED
  BY <1>3, <1>4, <1>5

\* touch_run_heartbeat.
LEMMA HeartbeatIsGood ==
  ASSUME IInv, NEW t \in DOMAIN threads, touch_run_heartbeat(t)
  PROVE  GoodStep
<1> DEFINE n == threads[t].run.n
           list == [i \in DOMAIN runs[t[1]] |->
                      IF runs[t[1]][i].n = n THEN [runs[t[1]][i] EXCEPT !.late = FALSE] ELSE runs[t[1]][i]]
<1>0. Types /\ StoreOK /\ t[1] \in Schedule
  BY DEF IInv, Types, ThreadsOK
<1>1. runs' = [runs EXCEPT ![t[1]] = list]
  BY <1>0 DEF touch_run_heartbeat, StoreOK
<1>2. ASSUME NEW i \in DOMAIN runs[t[1]] PROVE list[i] \in Run /\ Follows(t[1], runs[t[1]][i], list[i])
  <2>1. runs[t[1]][i] \in Run
    BY <1>0, RunsTyped
  <2> QED
    BY <2>1 DEF Run, Follows
<1>3. RewriteOf(t[1], list)
  BY <1>0, <1>2, RunByRun
<1>4. Rewrites
  BY <1>0, <1>1, <1>3, OneRewritten
<1>5. UNCHANGED <<schedules, pending, paused, up, running, executions, threads, tick, cancel, made, claims>>
  BY DEF touch_run_heartbeat, inside, counters
<1>6. StoreOK'
  BY <1>0, <1>4, <1>5, RewritesTyped DEF StoreOK
<1>7. ThreadsOK' /\ ExecutionsOK' /\ StillBacked
  BY <1>0, <1>5, SameMemory
<1>8. LoopOK' /\ CountersOK'
  BY <1>0, <1>5 DEF Types, LoopOK, CountersOK
<1> QED
  BY <1>4, <1>5, <1>6, <1>7, <1>8 DEF GoodStep, Types

\* Coming and going: the entry of a thread, its claim on the schedule, and the thread itself.
LEMMA BookkeepingIsGood ==
  ASSUME IInv, NEW t \in DOMAIN threads,
         Register(t) \/ Deregister(t) \/ Release(t) \/ Expire(t)
  PROVE  GoodStep
<1>0. /\ Types /\ StoreOK /\ ThreadsOK /\ ExecutionsOK
      /\ threads[t] \in Thread /\ threads[t].run.n \in Nat /\ t[1] \in Schedule
  BY DEF IInv, Types, ThreadsOK, Thread, Run
<1>1. UNCHANGED <<up, tick, cancel, made, claims>>
  BY DEF Register, Deregister, Release, Expire, inside, counters
<1>2. LoopOK' /\ CountersOK'
  BY <1>0, <1>1 DEF Types, LoopOK, CountersOK
\* What the thread becomes has no say in what its run is.
<1>3. ASSUME NEW pc \in {"preparing", "starting", "releasing", "expiring"}, Goes(t, pc)
      PROVE  /\ DOMAIN threads' = DOMAIN threads
             /\ \A u \in DOMAIN threads : Id(u)' = Id(u) /\ (u # t => threads'[u] = threads[u])
             /\ threads' \in [DOMAIN threads' -> Thread]
             /\ threads'[t].pc = pc
             /\ StillBacked
  <2> DEFINE moved == [threads[t] EXCEPT !.pc = pc]
  <2>1. moved \in Thread /\ moved.run = threads[t].run /\ moved.pc = pc
    BY <1>0, <1>3 DEF Thread
  <2>2. threads' = [threads EXCEPT ![t] = moved]
    BY <1>3 DEF Goes
  <2> HIDE DEF moved
  <2>3. /\ DOMAIN threads' = DOMAIN threads
        /\ \A u \in DOMAIN threads : threads'[u] = IF u = t THEN moved ELSE threads[u]
    BY <1>0, <2>2 DEF ThreadsOK
  <2>4. threads' \in [DOMAIN threads' -> Thread]
    BY <1>0, <2>1, <2>2, <2>3 DEF ThreadsOK
  <2>5. \A u \in DOMAIN threads : Id(u)' = Id(u)
    BY <2>1, <2>3 DEF Id
  <2>6. StillBacked
    BY <2>3, <2>5 DEF StillBacked, Backed
  <2> QED
    BY <2>1, <2>3, <2>4, <2>5, <2>6
<1>4. ASSUME UNCHANGED store PROVE StoreOK' /\ Rewrites
  BY <1>0, <1>4, SameStore DEF store
<1>5. CASE Register(t)
  <2> DEFINE pc == IF t[1] \in Workflow THEN "starting" ELSE "preparing"
  <2>1. Goes(t, pc) /\ pc \in {"preparing", "starting"}
    BY <1>5 DEF Register
  <2>2. executions' = With(executions, Id(t), t) /\ UNCHANGED <<store, running>>
    BY <1>5 DEF Register, inside
  <2> HIDE DEF pc
  <2>3. /\ DOMAIN executions' = DOMAIN executions \cup {Id(t)}
        /\ \A id \in DOMAIN executions' : executions'[id] = IF id = Id(t) THEN t ELSE executions[id]
        /\ executions' = [id \in DOMAIN executions' |-> executions'[id]]
    BY <2>2 DEF With
  <2>4. ThreadsOK' /\ StillBacked
    BY <1>0, <1>1, <1>3, <2>1, <2>2 DEF ThreadsOK
  <2>5. ExecutionsOK'
    <3>1. ASSUME NEW id \in DOMAIN executions'
          PROVE  /\ executions'[id] \in DOMAIN threads
                 /\ Id(executions'[id]) = id
                 /\ threads'[executions'[id]].pc \notin {"releasing", "expiring"}
      BY <1>0, <1>3, <2>1, <2>3 DEF ExecutionsOK
    <3>2. executions' \in [DOMAIN executions' -> DOMAIN threads']
      BY <1>3, <2>1, <2>3, <3>1
    <3>3. \A id \in DOMAIN executions' : Id(executions[id])' = id
      BY <1>3, <2>1, <3>1 DEF Id
    <3> QED
      BY <3>1, <3>2, <3>3 DEF ExecutionsOK
  <2> QED
    BY <1>1, <1>2, <1>4, <2>2, <2>4, <2>5 DEF GoodStep, Types
<1>6. CASE Deregister(t)
  <2>1. Goes(t, "releasing") /\ executions' = Without(executions, Id(t)) /\ UNCHANGED <<store, running>>
    BY <1>6 DEF Deregister, inside
  <2>2. /\ DOMAIN executions' = DOMAIN executions \ {Id(t)}
        /\ \A id \in DOMAIN executions' : executions'[id] = executions[id]
        /\ executions' = [id \in DOMAIN executions' |-> executions'[id]]
    BY <2>1 DEF Without, Restrict
  <2>3. ThreadsOK' /\ StillBacked
    BY <1>0, <1>1, <1>3, <2>1 DEF ThreadsOK
  <2>4. ExecutionsOK'
    <3>1. ASSUME NEW id \in DOMAIN executions'
          PROVE  /\ executions'[id] \in DOMAIN threads /\ executions'[id] # t
                 /\ Id(executions'[id]) = id
                 /\ threads'[executions'[id]].pc \notin {"releasing", "expiring"}
      BY <1>0, <1>3, <2>1, <2>2 DEF ExecutionsOK
    <3>2. executions' \in [DOMAIN executions' -> DOMAIN threads']
      BY <1>3, <2>1, <2>2, <3>1
    <3>3. \A id \in DOMAIN executions' : Id(executions[id])' = id
      BY <1>3, <2>1, <3>1 DEF Id
    <3> QED
      BY <3>1, <3>2, <3>3 DEF ExecutionsOK
  <2> QED
    BY <1>1, <1>2, <1>4, <2>1, <2>3, <2>4 DEF GoodStep, Types
<1>7. CASE Release(t)
  <2>1. /\ Goes(t, "expiring") /\ threads[t].pc = "releasing"
        /\ running' = running \ {t[1]} /\ UNCHANGED <<store, executions>>
    BY <1>7 DEF Release, At
  <2>2. ThreadsOK' /\ StillBacked
    BY <1>0, <1>1, <1>3, <2>1 DEF ThreadsOK
  <2>3. ExecutionsOK'
    <3>1. ASSUME NEW id \in DOMAIN executions
          PROVE  /\ executions[id] \in DOMAIN threads /\ executions[id] # t
                 /\ Id(executions[id]) = id
                 /\ threads'[executions[id]].pc \notin {"releasing", "expiring"}
      BY <1>0, <1>3, <2>1 DEF ExecutionsOK
    <3>2. executions \in [DOMAIN executions -> DOMAIN threads']
      BY <1>0, <1>3, <2>1 DEF ExecutionsOK
    <3>3. \A id \in DOMAIN executions : Id(executions[id])' = id
      BY <1>3, <2>1, <3>1 DEF Id
    <3> QED
      BY <2>1, <3>1, <3>2, <3>3 DEF ExecutionsOK
  <2> QED
    BY <1>1, <1>2, <1>4, <2>1, <2>2, <2>3 DEF GoodStep, Types
<1>8. CASE Expire(t)
  <2>1. /\ threads[t].pc = "expiring" /\ runs' = expire_running(Id(t)) /\ threads' = Without(threads, t)
        /\ UNCHANGED <<schedules, pending, paused, running, executions>>
    BY <1>8 DEF Expire, At, inside
  <2>2. Id(t) \in Schedule \X Nat /\ Id(t)[1] = t[1]
    BY <1>0 DEF Id
  <2>3. Rewrites
    BY <1>0, <2>1, <2>2, ExpiredRuns
  <2>4. StoreOK'
    BY <1>0, <2>1, <2>3, RewritesTyped DEF StoreOK
  <2>5. /\ DOMAIN threads' = DOMAIN threads \ {t}
        /\ \A u \in DOMAIN threads' : threads'[u] = threads[u]
        /\ threads' = [u \in DOMAIN threads' |-> threads'[u]]
    BY <2>1 DEF Without, Restrict
  <2>6. ThreadsOK'
    BY <1>0, <1>1, <2>1, <2>5 DEF ThreadsOK
  <2>7. \A u \in DOMAIN threads' : Id(u)' = Id(u)
    BY <2>5 DEF Id
  <2>8. ExecutionsOK'
    <3>1. \A id \in DOMAIN executions : executions[id] \in DOMAIN threads'
      BY <1>0, <2>1, <2>5 DEF ExecutionsOK
    <3> QED
      BY <1>0, <2>1, <2>5, <2>7, <3>1 DEF ExecutionsOK, Id
  <2>9. RunningIsOwned'
    <3> SUFFICES ASSUME up', NEW s \in Schedule, NEW i \in DOMAIN runs'[s], runs'[s][i].status = "running"
                 PROVE  \E u \in DOMAIN threads' : Id(u)' = <<s, runs'[s][i].n>>
      BY DEF RunningIsOwned, ToSet
    <3>1. /\ i \in DOMAIN runs[s] /\ runs[s][i] \in Run
          /\ runs'[s][i].n = runs[s][i].n /\ runs[s][i].n \in Nat
      BY <1>0, <2>3, RunsTyped DEF Rewrites, RewriteOf, Follows
    <3>2. runs[s][i] \in ToSet(runs[s])
      BY <3>1 DEF ToSet
    <3>3. runs'[s] = IF s = t[1] THEN Settled(s, {run \in Stored(Id(t)) : run.status = "running"}, "failed")
                     ELSE runs[s]
      BY <1>0, <2>1, <2>2 DEF expire_running, StoreOK
    <3>4. runs[s][i].status = "running" /\ <<s, runs[s][i].n>> # Id(t)
      <4>1. CASE s = t[1]
        <5>1. runs'[s][i] = IF runs[s][i] \in {run \in Stored(Id(t)) : run.status = "running"}
                            THEN [runs[s][i] EXCEPT !.status = "failed", !.late = FALSE] ELSE runs[s][i]
          BY <3>1, <3>3, <4>1 DEF Settled
        <5>2. runs[s][i].status = "running" /\ runs[s][i] \notin Stored(Id(t))
          BY <3>1, <5>1 DEF Run
        <5> QED
          BY <2>2, <3>2, <4>1, <5>2 DEF Stored, Id
      <4>2. CASE s # t[1]
        BY <3>3, <4>2 DEF Id
      <4> QED
        BY <4>1, <4>2
    <3>5. PICK u \in DOMAIN threads : Id(u) = <<s, runs[s][i].n>>
      BY <1>1, <3>2, <3>4 DEF IInv, RunningIsOwned
    <3>6. u \in DOMAIN threads'
      BY <2>5, <3>4, <3>5
    <3> QED
      BY <2>7, <3>1, <3>5, <3>6
  <2> QED
    BY <1>1, <1>2, <2>3, <2>4, <2>6, <2>8, <2>9 DEF GoodStep, Types
<1> QED
  BY <1>5, <1>6, <1>7, <1>8

\* The process and the machine.
LEMMA MishapsAreGood ==
  ASSUME IInv, Sleeps \/ Crashes \/ Restarts
  PROVE  GoodStep
<1>0. Types /\ StoreOK /\ ThreadsOK /\ ExecutionsOK /\ LoopOK /\ CountersOK
  BY DEF IInv, Types
<1>1. CASE Sleeps
  <2>1. /\ UNCHANGED <<schedules, pending, paused, up, running, executions, threads, cancel, made, claims>>
        /\ tick' = [tick EXCEPT !.gap = TRUE]
        /\ runs' = [s \in Schedule |-> [i \in DOMAIN runs[s] |->
                      [runs[s][i] EXCEPT !.late = @ \/ runs[s][i].status = "running"]]]
    BY <1>1, Zenon DEF Sleeps, memory, counters
  <2>2. ASSUME NEW s \in Schedule PROVE RewriteOf(s, runs'[s])
    <3>1. runs'[s] = [i \in DOMAIN runs[s] |->
                        [runs[s][i] EXCEPT !.late = runs[s][i].late \/ runs[s][i].status = "running"]]
      BY <2>1
    <3>2. ASSUME NEW i \in DOMAIN runs[s]
          PROVE  runs'[s][i] \in Run /\ Follows(s, runs[s][i], runs'[s][i])
      <4> DEFINE late == runs[s][i].late \/ runs[s][i].status = "running"
      <4>1. runs[s][i] \in Run
        BY <1>0, RunsTyped
      <4>2. runs'[s][i] = [runs[s][i] EXCEPT !.late = late]
        BY <3>1
      <4>3. late \in BOOLEAN
        BY Zenon
      <4> HIDE DEF late
      <4> QED
        BY <4>1, <4>2, <4>3 DEF Run, Follows
    <3> QED
      BY <1>0, <3>1, <3>2, RunByRun
  <2>3. Rewrites
    BY <2>1, <2>2 DEF Rewrites, RewriteOf
  <2>4. StoreOK'
    BY <1>0, <2>1, <2>3, RewritesTyped DEF StoreOK
  <2>5. ThreadsOK' /\ ExecutionsOK' /\ StillBacked
    BY <1>0, <2>1, SameMemory
  <2>6. LoopOK' /\ CountersOK'
    BY <1>0, <2>1 DEF LoopOK, CountersOK
  <2> QED
    BY <2>1, <2>3, <2>4, <2>5, <2>6 DEF GoodStep, Types
<1>2. CASE Crashes
  <2>1. UNCHANGED <<schedules, runs, pending, paused, made, claims>> /\ up' = FALSE
    BY <1>2 DEF Crashes, store, counters
  <2>2. StoreOK' /\ Rewrites
    BY <1>0, <2>1, SameStore
  <2>3. threads' = << >> /\ executions' = << >> /\ running' = {}
    BY <1>2 DEF Crashes
  <2>4. ThreadsOK' /\ ExecutionsOK'
    <3>1. DOMAIN threads' = {} /\ DOMAIN executions' = {}
      BY <2>3
    <3>2. threads' \in [DOMAIN threads' -> Thread] /\ executions' \in [DOMAIN executions' -> DOMAIN threads']
      BY <2>3, <3>1
    <3>3. up' \in BOOLEAN /\ running' \subseteq Schedule
      BY <2>1, <2>3
    <3>4. ThreadsOK'
      BY <3>1, <3>2, <3>3 DEF ThreadsOK
    <3>5. ExecutionsOK'
      BY <3>1, <3>2 DEF ExecutionsOK
    <3> QED
      BY <3>4, <3>5
  <2>5. LoopOK' /\ CountersOK'
    BY <1>0, <1>2, <2>1 DEF Crashes, LoopOK, CountersOK
  <2> QED
    BY <2>1, <2>2, <2>4, <2>5 DEF GoodStep, Types
<1>3. CASE Restarts
  <2>1. /\ UNCHANGED <<schedules, pending, paused, running, executions, threads, tick, cancel, made, claims>>
        /\ up' = TRUE
        /\ runs' = [s \in Schedule |-> Settled(s, RunsIn(s, {"running"}), "failed")]
    BY <1>3 DEF Restarts, memory, counters
  <2>2. ASSUME NEW s \in Schedule PROVE RewriteOf(s, runs'[s])
    BY <1>0, <2>1, SettledRuns DEF RunsIn, Status, Terminal
  <2>3. Rewrites
    BY <2>1, <2>2 DEF Rewrites, RewriteOf
  <2>4. StoreOK'
    BY <1>0, <2>1, <2>3, RewritesTyped DEF StoreOK
  <2>5. ThreadsOK' /\ ExecutionsOK' /\ LoopOK' /\ CountersOK'
    BY <1>0, <2>1 DEF ThreadsOK, ExecutionsOK, LoopOK, CountersOK, Id
  <2>6. RunningIsOwned'
    <3>1. ASSUME NEW s \in Schedule, NEW i \in DOMAIN runs'[s], runs'[s][i].status = "running" PROVE FALSE
      <4>1. i \in DOMAIN runs[s] /\ runs[s][i] \in Run /\ runs[s][i] \in ToSet(runs[s])
        BY <1>0, <2>2, <3>1, RunsTyped DEF RewriteOf, ToSet
      <4>2. runs'[s][i] = IF runs[s][i] \in RunsIn(s, {"running"})
                          THEN [runs[s][i] EXCEPT !.status = "failed", !.late = FALSE] ELSE runs[s][i]
        BY <2>1, <4>1 DEF Settled
      <4> QED
        BY <3>1, <4>1, <4>2 DEF RunsIn, Run
    <3> QED
      BY <3>1 DEF RunningIsOwned, ToSet
  <2> QED
    BY <2>1, <2>3, <2>4, <2>5, <2>6 DEF GoodStep, Types
<1> QED
  BY <1>1, <1>2, <1>3

-----------------------------------------------------------------------------
(* A claim.                                                                *)

\* What stays of a list is its end.
LEMMA Trimmed ==
  ASSUME NEW list \in Seq(Run)
  PROVE  /\ trim_runs(list) \in Seq(Run) /\ Len(trim_runs(list)) <= MAX_RUNS_PER_SCHEDULE
         /\ \E k \in Nat : \A i \in DOMAIN trim_runs(list) :
              k + i \in DOMAIN list /\ trim_runs(list)[i] = list[k + i]
<1>0. MAX_RUNS_PER_SCHEDULE \in Nat \ {0} /\ Len(list) \in Nat /\ DOMAIN list = 1 .. Len(list)
  BY SchedulerAssumption
<1>1. CASE Len(list) <= MAX_RUNS_PER_SCHEDULE
  <2>1. trim_runs(list) = list
    BY <1>1 DEF trim_runs
  <2>2. \A i \in DOMAIN list : 0 + i \in DOMAIN list /\ list[i] = list[0 + i]
    BY <1>0
  <2> QED
    BY <1>1, <2>1, <2>2
<1>2. CASE ~(Len(list) <= MAX_RUNS_PER_SCHEDULE)
  <2> DEFINE k == Len(list) - MAX_RUNS_PER_SCHEDULE
             last == trim_runs(list)
  <2>1. k \in Nat /\ k + 1 \in Int /\ k + 1 <= Len(list) /\ Len(list) - (k + 1) + 1 = MAX_RUNS_PER_SCHEDULE
    BY <1>0, <1>2
  <2>2. last = SubSeq(list, k + 1, Len(list))
    BY <1>2 DEF trim_runs
  <2>3. \A i \in (k + 1) .. Len(list) : list[i] \in Run
    BY <1>0, <2>1
  <2>4. \A i \in 1 .. MAX_RUNS_PER_SCHEDULE : k + 1 + i - 1 = k + i /\ k + i \in DOMAIN list
    BY <1>0, <2>1
  <2> HIDE DEF k, last
  <2>5. /\ last \in Seq(Run) /\ Len(last) = IF k + 1 <= Len(list) THEN Len(list) - (k + 1) + 1 ELSE 0
        /\ \A i \in 1 .. Len(list) - (k + 1) + 1 : last[i] = list[k + 1 + i - 1]
    BY <1>0, <2>1, <2>2, <2>3, SubSeqProperties
  <2>6. DOMAIN last = 1 .. MAX_RUNS_PER_SCHEDULE /\ Len(last) = MAX_RUNS_PER_SCHEDULE
    BY <2>1, <2>5
  <2>7. \A i \in DOMAIN last : k + i \in DOMAIN list /\ last[i] = list[k + i]
    BY <2>1, <2>4, <2>5, <2>6
  <2> QED
    BY <1>0, <2>1, <2>5, <2>6, <2>7 DEF last
<1> QED
  BY <1>1, <1>2

\* The run a claim makes.
LEMMA NewRunTyped ==
  ASSUME IInv, NEW s \in Schedule
  PROVE  /\ new_scheduled_run(s) \in Run /\ new_scheduled_run(s).n = made[s] + 1
         /\ new_scheduled_run(s).status # "running"
         /\ FirstEvent(s) \in Event \cup {None}
<1>1. made[s] + 1 \in Nat
  BY DEF IInv, Types, CountersOK
<1>2. Asked(s) \in BOOLEAN
  BY Zenon DEF Asked
<1>3. FirstEvent(s) \in Event \cup {None}
  BY DEF FirstEvent, IInv, Types, StoreOK
<1>4. {"skipped", "waitingForAccount"} \subseteq Status
  BY DEF Status, Waiting, Terminal
<1> QED
  BY <1>1, <1>2, <1>3, <1>4 DEF new_scheduled_run, Run

\* A demand that is merged into a waiting run changes no number and no status.
LEMMA MergedRunsTyped ==
  ASSUME IInv, NEW s \in Schedule
  PROVE  /\ MergedRuns(s) \in Seq(Run) /\ DOMAIN MergedRuns(s) = DOMAIN runs[s]
         /\ Len(MergedRuns(s)) <= MAX_RUNS_PER_SCHEDULE
         /\ \A i \in DOMAIN runs[s] : /\ MergedRuns(s)[i].n = runs[s][i].n
                                     /\ MergedRuns(s)[i].status = runs[s][i].status
<1>0. StoreOK /\ runs[s] \in Seq(Run) /\ Len(runs[s]) <= MAX_RUNS_PER_SCHEDULE
  BY DEF IInv, Types, StoreOK
<1>1. ASSUME NEW i \in DOMAIN runs[s]
      PROVE  /\ MergedRuns(s)[i] \in Run /\ MergedRuns(s)[i].n = runs[s][i].n
             /\ MergedRuns(s)[i].status = runs[s][i].status
  <2> DEFINE run == runs[s][i]
             manual == run.manual \/ Asked(s)
             event == IF pending[s] = << >> THEN run.event ELSE FirstEvent(s)
  <2>1. run \in Run
    BY <1>0
  <2>2. manual \in BOOLEAN
    BY Zenon
  <2>3. event \in Event \cup {None}
    BY <2>1, NewRunTyped DEF Run
  <2>4. MergedRuns(s)[i] = IF run.status \in Waiting THEN [run EXCEPT !.manual = manual, !.event = event] ELSE run
    BY DEF MergedRuns, Merged
  <2> HIDE DEF run, manual, event
  <2>5. MergedRuns(s)[i] \in Run /\ MergedRuns(s)[i].n = run.n /\ MergedRuns(s)[i].status = run.status
    BY <2>1, <2>2, <2>3, <2>4 DEF Run
  <2> QED
    BY <2>5 DEF run
<1>2. MergedRuns(s) = [i \in DOMAIN runs[s] |-> MergedRuns(s)[i]]
  BY DEF MergedRuns
<1> QED
  BY <1>0, <1>1, <1>2, OneByOne

\* The run a merge finds waiting.
LEMMA WaitingRunTyped ==
  ASSUME IInv, NEW s \in Schedule, Merges(s)
  PROVE  WaitingRun(s) \in Run
<1>1. PICK i \in DOMAIN runs[s] : runs[s][i].status \in Waiting
  BY DEF Merges, ToSet
<1>2. /\ MergedRuns(s)[i] \in ToSet(MergedRuns(s)) /\ MergedRuns(s)[i].status \in Waiting
      /\ ToSet(MergedRuns(s)) \subseteq Run
  BY <1>1, MergedRunsTyped DEF ToSet
<1> QED
  BY <1>2 DEF WaitingRun

\* What a claim may make of the runs of a schedule: the end of what was, each with its number and
\* status, and perhaps one that is new and does not run yet.
Claimed(s) ==
  \E k \in Nat : \A i \in DOMAIN runs'[s] :
    \/ /\ k + i \in DOMAIN runs[s]
       /\ runs'[s][i].n = runs[s][k + i].n /\ runs'[s][i].status = runs[s][k + i].status
    \/ /\ k + i = Len(runs[s]) + 1
       /\ runs'[s][i].n = made[s] + 1 /\ made'[s] = made[s] + 1 /\ runs'[s][i].status # "running"

\* What a claim makes of every list.
LEMMA ClaimRewrites ==
  ASSUME IInv, claim_due
  PROVE  /\ runs' \in [Schedule -> Seq(Run)] /\ \A s \in Schedule : Len(runs'[s]) <= MAX_RUNS_PER_SCHEDULE
         /\ made' \in [Schedule -> Nat] /\ \A s \in Schedule : made'[s] >= made[s]
         /\ \A s \in Schedule : Claimed(s)
<1>0. runs \in [Schedule -> Seq(Run)] /\ made \in [Schedule -> Nat] /\ StoreOK
  BY DEF IInv, Types, StoreOK, CountersOK
<1>1. PICK closed : 
        LET fresh == {s \in Kept : ~Merges(s) /\ (Asked(s) \/ RegularDue(s, closed))} IN
        /\ runs' = [s \in Schedule |->
                      IF s \in fresh THEN trim_runs(Append(runs[s], new_scheduled_run(s)))
                      ELSE IF s \in Kept THEN MergedRuns(s) ELSE runs[s]]
        /\ made' = [s \in Schedule |-> made[s] + IF s \in fresh THEN 1 ELSE 0]
  BY Zenon DEF claim_due
<1> DEFINE fresh == {s \in Kept : ~Merges(s) /\ (Asked(s) \/ RegularDue(s, closed))}
<1>2. /\ \A s \in Schedule : runs'[s] = IF s \in fresh THEN trim_runs(Append(runs[s], new_scheduled_run(s)))
                                      ELSE IF s \in Kept THEN MergedRuns(s) ELSE runs[s]
      /\ \A s \in Schedule : made'[s] = made[s] + IF s \in fresh THEN 1 ELSE 0
      /\ runs' = [s \in Schedule |-> runs'[s]] /\ made' = [s \in Schedule |-> made'[s]]
  BY <1>1
<1> HIDE DEF fresh
<1>3. ASSUME NEW s \in Schedule
      PROVE  /\ runs'[s] \in Seq(Run) /\ Len(runs'[s]) <= MAX_RUNS_PER_SCHEDULE
             /\ made'[s] \in Nat /\ made'[s] >= made[s] /\ Claimed(s)
  <2>0. runs[s] \in Seq(Run) /\ Len(runs[s]) <= MAX_RUNS_PER_SCHEDULE /\ made[s] \in Nat
    BY <1>0 DEF StoreOK
  <2>1. made'[s] \in Nat /\ made'[s] >= made[s]
    BY <1>2, <2>0
  <2>2. CASE s \in fresh
    <3> DEFINE new == new_scheduled_run(s)
               list == Append(runs[s], new)
    <3>1. new \in Run /\ new.n = made[s] + 1 /\ new.status # "running"
      BY NewRunTyped
    <3>2. runs'[s] = trim_runs(list) /\ made'[s] = made[s] + 1
      BY <1>2, <2>2
    <3> HIDE DEF new
    <3>3. /\ list \in Seq(Run) /\ DOMAIN list = 1 .. Len(runs[s]) + 1
          /\ \A j \in DOMAIN list : list[j] = IF j = Len(runs[s]) + 1 THEN new ELSE runs[s][j]
      BY <2>0, <3>1
    <3> HIDE DEF list
    <3>4. /\ trim_runs(list) \in Seq(Run) /\ Len(trim_runs(list)) <= MAX_RUNS_PER_SCHEDULE
          /\ \E k \in Nat : \A i \in DOMAIN trim_runs(list) :
               k + i \in DOMAIN list /\ trim_runs(list)[i] = list[k + i]
      BY <3>3, Trimmed, Zenon
    <3>5. PICK k \in Nat : \A i \in DOMAIN runs'[s] : k + i \in DOMAIN list /\ runs'[s][i] = list[k + i]
      BY <3>2, <3>4, Zenon
    <3>6. ASSUME NEW i \in DOMAIN runs'[s]
          PROVE  \/ k + i \in DOMAIN runs[s] /\ runs'[s][i] = runs[s][k + i]
                 \/ k + i = Len(runs[s]) + 1 /\ runs'[s][i] = new
      <4>1. k + i \in 1 .. Len(runs[s]) + 1 /\ runs'[s][i] = list[k + i]
        BY <3>3, <3>5
      <4>2. DOMAIN runs[s] = 1 .. Len(runs[s]) /\ Len(runs[s]) \in Nat
        BY <2>0
      <4>3. k + i = Len(runs[s]) + 1 \/ k + i \in 1 .. Len(runs[s])
        BY <4>1, <4>2
      <4> QED
        BY <3>3, <4>1, <4>2, <4>3
    <3>7. Claimed(s)
      BY <3>1, <3>2, <3>6 DEF Claimed
    <3> QED
      BY <2>1, <3>2, <3>4, <3>7
  <2>3. CASE s \notin fresh
    <3>1. /\ runs'[s] \in Seq(Run) /\ Len(runs'[s]) <= MAX_RUNS_PER_SCHEDULE
          /\ DOMAIN runs'[s] = DOMAIN runs[s]
          /\ \A i \in DOMAIN runs[s] : runs'[s][i].n = runs[s][i].n /\ runs'[s][i].status = runs[s][i].status
      <4>1. CASE s \in Kept
        <5>1. runs'[s] = MergedRuns(s)
          BY <1>2, <2>3, <4>1
        <5> QED
          BY <5>1, MergedRunsTyped
      <4>2. CASE s \notin Kept
        BY <1>2, <2>0, <2>3, <4>2
      <4> QED
        BY <4>1, <4>2
    <3>2. \A i \in DOMAIN runs'[s] : 0 + i = i
      BY <2>0, <3>1
    <3>3. Claimed(s)
      BY <3>1, <3>2 DEF Claimed
    <3> QED
      BY <2>1, <3>1, <3>3
  <2> QED
    BY <2>2, <2>3
<1> QED
  BY <1>2, <1>3

\* Numbers stay apart and results stay.
LEMMA ClaimKeepsRuns ==
  ASSUME IInv, \A s \in Schedule : Claimed(s), made' \in [Schedule -> Nat],
         \A s \in Schedule : made'[s] >= made[s], runs' \in [Schedule -> Seq(Run)]
  PROVE  Distinct' /\ EndedKeep
<1>0. StoreOK /\ runs \in [Schedule -> Seq(Run)] /\ made \in [Schedule -> Nat]
  BY DEF IInv, Types, StoreOK, CountersOK
<1>1. ASSUME NEW s \in Schedule, NEW i \in DOMAIN runs'[s]
      PROVE  /\ runs'[s][i].n <= made'[s]
             /\ \A j \in DOMAIN runs'[s] : runs'[s][i].n = runs'[s][j].n => i = j
             /\ \A j \in DOMAIN runs[s] : runs[s][j].n = runs'[s][i].n => runs'[s][i].status = runs[s][j].status
  <2>1. PICK k \in Nat : \A j \in DOMAIN runs'[s] :
          \/ /\ k + j \in DOMAIN runs[s]
             /\ runs'[s][j].n = runs[s][k + j].n /\ runs'[s][j].status = runs[s][k + j].status
          \/ /\ k + j = Len(runs[s]) + 1
             /\ runs'[s][j].n = made[s] + 1 /\ made'[s] = made[s] + 1 /\ runs'[s][j].status # "running"
    BY DEF Claimed
  <2>2. \A j \in DOMAIN runs'[s] : j \in Nat
    OBVIOUS
  <2>3. ASSUME NEW j \in DOMAIN runs[s]
        PROVE  /\ runs[s][j].n \in Nat /\ runs[s][j].n <= made[s]
               /\ \A l \in DOMAIN runs[s] : runs[s][j].n = runs[s][l].n => j = l
    BY <1>0, RunsTyped DEF IInv, Distinct
  <2>4. made[s] \in Nat /\ made'[s] \in Nat /\ made'[s] >= made[s]
    BY <1>0
  <2>5. \A j \in DOMAIN runs'[s] : k + i = k + j => i = j
    BY <1>1, <2>2
  <2>6. CASE k + i \in DOMAIN runs[s] /\ runs'[s][i].n = runs[s][k + i].n /\ runs'[s][i].status = runs[s][k + i].status
    <3>1. runs'[s][i].n \in Nat /\ runs'[s][i].n <= made[s]
      BY <2>3, <2>6
    <3>2. ASSUME NEW j \in DOMAIN runs'[s], runs'[s][i].n = runs'[s][j].n PROVE i = j
      <4>1. k + j \in DOMAIN runs[s] /\ runs'[s][j].n = runs[s][k + j].n
        BY <2>1, <2>4, <3>1, <3>2
      <4>2. k + i = k + j
        BY <2>3, <2>6, <3>2, <4>1
      <4> QED
        BY <2>5, <4>2
    <3>3. ASSUME NEW j \in DOMAIN runs[s], runs[s][j].n = runs'[s][i].n
          PROVE  runs'[s][i].status = runs[s][j].status
      <4>1. j = k + i
        BY <2>3, <2>6, <3>3
      <4> QED
        BY <2>6, <4>1
    <3> QED
      BY <2>4, <3>1, <3>2, <3>3
  <2>7. CASE k + i = Len(runs[s]) + 1 /\ runs'[s][i].n = made[s] + 1 /\ made'[s] = made[s] + 1
    <3>1. ASSUME NEW j \in DOMAIN runs'[s], runs'[s][i].n = runs'[s][j].n PROVE i = j
      <4>1. k + j = Len(runs[s]) + 1
        <5>1. ASSUME k + j \in DOMAIN runs[s], runs'[s][j].n = runs[s][k + j].n PROVE FALSE
          BY <2>3, <2>4, <2>7, <3>1, <5>1
        <5> QED
          BY <2>1, <5>1
      <4> QED
        BY <2>5, <2>7, <4>1
    <3> QED
      BY <2>3, <2>4, <2>7, <3>1
  <2> QED
    BY <1>1, <2>1, <2>6, <2>7
<1>2. Distinct'
  BY <1>1 DEF Distinct
<1>3. EndedKeep
  <2> SUFFICES ASSUME NEW s \in Schedule, NEW j \in DOMAIN runs[s], NEW i \in DOMAIN runs'[s],
                      runs[s][j].n = runs'[s][i].n
               PROVE  runs'[s][i].status = runs[s][j].status
    BY DEF EndedKeep, ToSet
  <2> QED
    BY <1>1
<1> QED
  BY <1>2, <1>3

\* A claim as a whole.
LEMMA ClaimKeeps == IInv /\ claim_due => IInv' /\ EndedKeep /\ Descends
<1> SUFFICES ASSUME IInv, claim_due PROVE IInv' /\ EndedKeep /\ Descends
  OBVIOUS
<1>0. Types /\ StoreOK /\ ThreadsOK /\ ExecutionsOK /\ LoopOK /\ CountersOK
  BY DEF IInv, Types
<1>1. /\ runs' \in [Schedule -> Seq(Run)] /\ \A s \in Schedule : Len(runs'[s]) <= MAX_RUNS_PER_SCHEDULE
      /\ made' \in [Schedule -> Nat] /\ \A s \in Schedule : made'[s] >= made[s]
      /\ \A s \in Schedule : Claimed(s)
  BY ClaimRewrites
<1>2. Distinct' /\ EndedKeep
  BY <1>1, ClaimKeepsRuns
<1>3. UNCHANGED <<paused, up, executions, cancel>> /\ tick' = [tick EXCEPT !.pc = "idle", !.busy = {}]
  BY DEF claim_due
<1>4. StoreOK'
  <2>1. PICK closed :
          schedules' = [s \in Schedule |->
                          IF s \notin Kept THEN schedules[s]
                          ELSE [schedules[s] EXCEPT !.manual = FALSE,
                                  !.due = @ /\ ~RegularDue(s, closed) /\ s \notin closed]]
    BY Zenon DEF claim_due
  <2>2. schedules' \in [Schedule -> [life : {"unborn", "kept", "deleted"}, enabled : BOOLEAN,
                                     due : BOOLEAN, manual : BOOLEAN]]
    <3>1. ASSUME NEW s \in Schedule
          PROVE  (IF s \notin Kept THEN schedules[s]
                  ELSE [schedules[s] EXCEPT !.manual = FALSE,
                          !.due = schedules[s].due /\ ~RegularDue(s, closed) /\ s \notin closed])
                 \in [life : {"unborn", "kept", "deleted"}, enabled : BOOLEAN, due : BOOLEAN, manual : BOOLEAN]
      <4> DEFINE due == schedules[s].due /\ ~RegularDue(s, closed) /\ s \notin closed
      <4>1. due \in BOOLEAN
        BY Zenon
      <4> HIDE DEF due
      <4>2. [schedules[s] EXCEPT !.manual = FALSE, !.due = due]
              \in [life : {"unborn", "kept", "deleted"}, enabled : BOOLEAN, due : BOOLEAN, manual : BOOLEAN]
        BY <1>0, <4>1 DEF StoreOK
      <4> QED
        BY <1>0, <4>2 DEF StoreOK, due
    <3> QED
      BY <2>1, <3>1
  <2>3. pending' = [s \in Schedule |-> IF pending[s] = << >> THEN << >> ELSE Tail(pending[s])]
    BY DEF claim_due
  <2>4. pending' \in [Schedule -> Seq(Event)]
    BY <1>0, <2>3 DEF StoreOK
  <2> QED
    BY <1>0, <1>1, <1>3, <2>2, <2>4 DEF StoreOK
<1>5. /\ running' \subseteq Schedule
      /\ claims' \in [Schedule -> Nat]
      /\ \A t \in DOMAIN threads : t \in DOMAIN threads' /\ threads'[t] = threads[t]
      /\ threads' \in [DOMAIN threads' -> Thread] /\ DOMAIN threads' \subseteq Schedule \X Nat
  <2>1. PICK claimed \in SUBSET Schedule :
          /\ claims' = [s \in Schedule |-> claims[s] + IF s \in claimed THEN 1 ELSE 0]
          /\ threads' = [t \in DOMAIN threads \cup {<<s, claims'[s]>> : s \in claimed} |->
               IF t \in DOMAIN threads THEN threads[t]
               ELSE Spawned(t[1], IF Merges(t[1]) THEN WaitingRun(t[1]) ELSE new_scheduled_run(t[1]))]
          /\ running' = running \cup claimed
    <3>1. PICK closed :
            LET fresh == {s \in Kept : ~Merges(s) /\ (Asked(s) \/ RegularDue(s, closed))}
                claimed == {s \in fresh : s \notin tick.busy} \cup {s \in Kept : Merges(s) /\ GoesOn(s)}
                claim(s) == Spawned(s, IF Merges(s) THEN WaitingRun(s) ELSE new_scheduled_run(s))
            IN /\ claims' = [s \in Schedule |-> claims[s] + IF s \in claimed THEN 1 ELSE 0]
               /\ threads' = [t \in DOMAIN threads \cup {<<s, claims'[s]>> : s \in claimed} |->
                               IF t \in DOMAIN threads THEN threads[t] ELSE claim(t[1])]
               /\ running' = running \cup claimed
      BY Zenon DEF claim_due
    <3> DEFINE fresh == {s \in Kept : ~Merges(s) /\ (Asked(s) \/ RegularDue(s, closed))}
               claimed == {s \in fresh : s \notin tick.busy} \cup {s \in Kept : Merges(s) /\ GoesOn(s)}
    <3>2. claimed \in SUBSET Schedule
      BY DEF Kept
    <3> HIDE DEF claimed, fresh
    <3> QED
      BY <3>1, <3>2, Zenon DEF claimed, fresh
  <2>2. claims' \in [Schedule -> Nat]
    BY <1>0, <2>1 DEF CountersOK
  <2>3. /\ DOMAIN threads' = DOMAIN threads \cup {<<s, claims'[s]>> : s \in claimed}
        /\ \A t \in DOMAIN threads' :
             threads'[t] = IF t \in DOMAIN threads THEN threads[t]
               ELSE Spawned(t[1], IF Merges(t[1]) THEN WaitingRun(t[1]) ELSE new_scheduled_run(t[1]))
        /\ threads' = [t \in DOMAIN threads' |-> threads'[t]]
    BY <2>1
  <2>4. DOMAIN threads' \subseteq Schedule \X Nat
    BY <1>0, <2>2, <2>3 DEF ThreadsOK
  <2>5. ASSUME NEW s \in Schedule
        PROVE  Spawned(s, IF Merges(s) THEN WaitingRun(s) ELSE new_scheduled_run(s)) \in Thread
    <3> DEFINE run == IF Merges(s) THEN WaitingRun(s) ELSE new_scheduled_run(s)
    <3>1. run \in Run /\ FirstEvent(s) \in Event \cup {None}
      BY NewRunTyped, WaitingRunTyped
    <3>2. schedules[s].enabled \in BOOLEAN
      BY <1>0 DEF StoreOK
    <3> HIDE DEF run
    <3>3. Spawned(s, run) \in Thread
      BY <3>1, <3>2 DEF Spawned, Thread
    <3> QED
      BY <3>3 DEF run
  <2>6. \A t \in DOMAIN threads' : threads'[t] \in Thread
    BY <1>0, <2>3, <2>4, <2>5 DEF ThreadsOK
  <2> QED
    BY <1>0, <2>1, <2>2, <2>3, <2>4, <2>6 DEF ThreadsOK
<1>6. ThreadsOK'
  BY <1>0, <1>3, <1>5 DEF ThreadsOK
<1>7. \A t \in DOMAIN threads : Id(t)' = Id(t)
  BY <1>5 DEF Id
<1>8. ExecutionsOK'
  <2>1. executions \in [DOMAIN executions -> DOMAIN threads']
    BY <1>0, <1>5 DEF ExecutionsOK
  <2>2. ASSUME NEW id \in DOMAIN executions
        PROVE  Id(executions[id])' = id /\ threads'[executions[id]].pc \notin {"releasing", "expiring"}
    <3>1. executions[id] \in DOMAIN threads /\ Id(executions[id]) = id
      BY <1>0 DEF ExecutionsOK
    <3> QED
      BY <1>0, <1>3, <1>5, <3>1 DEF ExecutionsOK, Id
  <2> QED
    BY <1>3, <2>1, <2>2 DEF ExecutionsOK
<1>9. LoopOK' /\ CountersOK'
  BY <1>0, <1>1, <1>3, <1>5 DEF LoopOK, CountersOK
<1>10. RunningIsOwned'
  <2> SUFFICES ASSUME up', NEW s \in Schedule, NEW i \in DOMAIN runs'[s], runs'[s][i].status = "running"
               PROVE  \E t \in DOMAIN threads' : Id(t)' = <<s, runs'[s][i].n>>
    BY DEF RunningIsOwned, ToSet
  <2>1. PICK j \in DOMAIN runs[s] : runs'[s][i].n = runs[s][j].n /\ runs[s][j].status = "running"
    BY <1>1 DEF Claimed
  <2>2. PICK t \in DOMAIN threads : Id(t) = <<s, runs[s][j].n>>
    BY <1>3, <2>1 DEF IInv, RunningIsOwned, ToSet
  <2> QED
    BY <1>5, <1>7, <2>1, <2>2
<1>11. Descends
  <2> SUFFICES ASSUME NEW s \in Schedule, NEW i \in DOMAIN runs'[s], runs'[s][i].n <= made[s]
               PROVE  \E j \in DOMAIN runs[s] : runs[s][j].n = runs'[s][i].n
    BY <1>1 DEF Descends, ToSet
  <2>1. made[s] \in Nat
    BY <1>0 DEF CountersOK
  <2> QED
    BY <1>1, <2>1 DEF Claimed
<1> QED
  BY <1>2, <1>4, <1>6, <1>8, <1>9, <1>10, <1>11 DEF IInv, Types

-----------------------------------------------------------------------------
\* Every step.
LEMMA NextKeeps == IInv /\ [Next]_vars => IInv' /\ EndedKeep /\ Descends
<1> SUFFICES ASSUME IInv, [Next]_vars PROVE IInv' /\ EndedKeep /\ Descends
  OBVIOUS
<1>1. ASSUME GoodStep PROVE IInv' /\ EndedKeep /\ Descends
  BY <1>1, GoodStepKeeps
<1>2. CASE Calls
  BY <1>1, <1>2, CallsAreGood
<1>3. CASE Ticks
  BY <1>1, <1>3, TicksAreGood, ClaimKeeps
<1>4. CASE Cancels
  BY <1>1, <1>4, CancelsAreGood
<1>5. ASSUME NEW t \in DOMAIN threads, Executes(t) PROVE IInv' /\ EndedKeep /\ Descends
  BY <1>1, <1>5, LonelyStepsAreGood, FinishingStepsAreGood, HeartbeatIsGood, BookkeepingIsGood DEF Executes
<1>6. CASE Mishaps
  BY <1>1, <1>6, MishapsAreGood, LonelyStepsAreGood DEF Mishaps
<1>7. CASE UNCHANGED vars
  <2>1. UNCHANGED <<schedules, runs, pending, paused, up, running, executions, threads, tick, cancel, made, claims>>
    BY <1>7 DEF vars, store, memory, counters
  <2>2. Types'
    BY <2>1 DEF IInv, Types, StoreOK, ThreadsOK, ExecutionsOK, LoopOK, CountersOK, Id
  <2>3. Rewrites /\ StillBacked
    BY <2>1, SameStore, SameMemory DEF IInv
  <2> QED
    BY <1>1, <2>1, <2>2, <2>3 DEF GoodStep
<1> QED
  BY <1>2, <1>3, <1>4, <1>5, <1>6, <1>7 DEF Next, Executions

\* The invariant holds in every reachable state.
THEOREM Invariance == Spec => []IInv
<1>1. Init => IInv
  BY InitIInv
<1>2. IInv /\ [Next]_vars => IInv'
  BY NextKeeps
<1> QED
  BY <1>1, <1>2, PTL DEF Spec

\* Every variable of the scheduler keeps its type: the store never holds more runs of a schedule
\* than it may (trim_runs), and the executions name threads that exist.
THEOREM SchedulerTypeOK == Spec => []TypeOK
<1>1. IInv => TypeOK
  BY TypesGiveTypeOK DEF IInv
<1> QED
  BY <1>1, Invariance, PTL

\* A run that the store says is running has a thread behind it for as long as the process runs,
\* whatever panics, expired leases, cancels, deletions and restarts happen: an executor leaves the
\* run expired when it goes, and a process that starts closes what the last one left.
THEOREM RunningRunHasThread == Spec => []RunningIsOwned
<1>1. IInv => RunningIsOwned
  BY DEF IInv
<1> QED
  BY <1>1, Invariance, PTL

\* A run that has ended keeps its result: neither an executor that writes an older copy back nor
\* a cancel, an expired lease, a merge of a new demand or a restart changes it.
THEOREM EndedRunStays == Spec => EndedStays
<1>1. IInv /\ [Next]_vars =>
        [\A s \in Schedule : \A run \in ToSet(runs[s]) : \A later \in ToSet(runs'[s]) :
           run.n = later.n /\ run.status \in Terminal => later.status = run.status]_vars
  BY NextKeeps DEF EndedKeep
<1> QED
  BY <1>1, Invariance, PTL DEF Spec, EndedStays

-----------------------------------------------------------------------------
(* What is announced.                                                      *)

\* The executor has announced what it had to, or never will.
Over(t) == threads[t].pc \in {"deregistering", "releasing", "expiring"}

\* What was announced is the end of a run: the store keeps it, or has lost the run.
Announced ==
  \A id \in DOMAIN told :
    /\ id \in Schedule \X Nat /\ id[2] <= made[id[1]]
    /\ Len(told[id]) = 1 /\ told[id][1] \in Terminal
    /\ \A run \in Stored(id) : run.status = told[id][1]
\* A run that an executor still works on has not been announced.
Unannounced == \A t \in DOMAIN threads : ~Over(t) => Id(t) \notin DOMAIN told
Given == \A t \in DOMAIN threads : threads[t].run.n <= made[t[1]]
\* What an executor records has ended, or waits.
Ending ==
  \A t \in DOMAIN threads : threads[t].pc = "recording" => threads[t].run.status \in Waiting \cup Terminal

ToldInv == Announced /\ Unannounced /\ Given /\ Ending

\* Nothing was announced at first.
LEMMA InitTold == Init => ToldInv
BY DEF Init, ToldInv, Announced, Unannounced, Given, Ending

\* What the store says of a run that was announced stays.
LEMMA AnnouncedStays ==
  ASSUME IInv, IInv', EndedKeep, Descends, Announced, NEW id \in DOMAIN told
  PROVE  /\ id \in Schedule \X Nat /\ id[2] <= made'[id[1]]
         /\ \A run \in Stored(id)' : run.status = told[id][1]
<1>1. id \in Schedule \X Nat /\ id[2] <= made[id[1]] /\ made[id[1]] \in Nat /\ made'[id[1]] >= made[id[1]]
  BY DEF Announced, Descends, IInv, Types, CountersOK
<1>2. ASSUME NEW later \in ToSet(runs'[id[1]]), later.n = id[2] PROVE later.status = told[id][1]
  <2>1. PICK run \in ToSet(runs[id[1]]) : run.n = later.n
    BY <1>1, <1>2 DEF Descends
  <2>2. run.status = told[id][1] /\ told[id][1] \in Terminal
    BY <1>1, <1>2, <2>1 DEF Announced, Stored
  <2> QED
    BY <1>1, <2>1, <2>2 DEF EndedKeep
<1>3. id[2] <= made'[id[1]]
  <2>1. id[2] \in Nat /\ made'[id[1]] \in Nat
    BY <1>1 DEF IInv, Types, CountersOK
  <2> QED
    BY <1>1, <2>1
<1> QED
  BY <1>1, <1>2, <1>3 DEF Stored

\* A thread goes on with its run, and does not come back to it.
ThreadKept(t) ==
  /\ threads'[t].run.n = threads[t].run.n
  /\ Over(t) => Over(t)'
  /\ threads'[t].pc = "recording" => threads'[t].run.status \in Waiting \cup Terminal
ThreadsKept == \A t \in DOMAIN threads' : t \in DOMAIN threads /\ ThreadKept(t)

\* A step that announces nothing.
LEMMA SilentStep ==
  ASSUME IInv, IInv', EndedKeep, Descends, ToldInv, told' = told, ThreadsKept
  PROVE  ToldInv'
<1>1. Announced'
  BY AnnouncedStays DEF ToldInv, Announced
<1>2. Unannounced'
  <2> SUFFICES ASSUME NEW t \in DOMAIN threads', ~Over(t)' PROVE Id(t)' \notin DOMAIN told
    BY DEF Unannounced
  <2>1. t \in DOMAIN threads /\ ~Over(t) /\ Id(t)' = Id(t)
    BY DEF ThreadsKept, ThreadKept, Id
  <2> QED
    BY <2>1 DEF ToldInv, Unannounced
<1>3. Given'
  <2> SUFFICES ASSUME NEW t \in DOMAIN threads' PROVE threads'[t].run.n <= made'[t[1]]
    BY DEF Given
  <2>1. t \in DOMAIN threads /\ threads'[t].run.n = threads[t].run.n
    BY DEF ThreadsKept, ThreadKept
  <2>2. t[1] \in Schedule /\ threads[t].run.n \in Nat
    BY <2>1 DEF IInv, Types, ThreadsOK, Thread, Run
  <2>3. made[t[1]] \in Nat /\ made'[t[1]] \in Nat /\ made'[t[1]] >= made[t[1]]
    BY <2>2 DEF IInv, Types, CountersOK, Descends
  <2> QED
    BY <2>1, <2>2, <2>3 DEF ToldInv, Given
<1>4. Ending'
  BY DEF Ending, ThreadsKept, ThreadKept
<1> QED
  BY <1>1, <1>2, <1>3, <1>4 DEF ToldInv

\* The threads are left alone, told to stop, or gone.
LEMMA StillKept == ToldInv /\ UNCHANGED threads => ThreadsKept
BY DEF ToldInv, Ending, ThreadsKept, ThreadKept, Over

LEMMA SignalledKept ==
  ASSUME IInv, ToldInv, NEW t \in DOMAIN threads, threads' = Signalled(t)
  PROVE  ThreadsKept
<1>1. DOMAIN threads' = DOMAIN threads
  BY DEF Signalled
<1>2. ASSUME NEW u \in DOMAIN threads PROVE threads'[u].run = threads[u].run /\ threads'[u].pc = threads[u].pc
  <2>1. threads[u] \in Thread /\ threads \in [DOMAIN threads -> Thread]
    BY DEF IInv, Types, ThreadsOK
  <2> QED
    BY <2>1 DEF Signalled, Thread
<1> QED
  BY <1>1, <1>2 DEF ToldInv, Ending, ThreadsKept, ThreadKept, Over

\* One thread moves.
LEMMA OneMoves ==
  ASSUME IInv, ToldInv, NEW t \in DOMAIN threads, NEW moved,
         threads' = [threads EXCEPT ![t] = moved], moved.run.n = threads[t].run.n,
         Over(t) => moved.pc \in {"deregistering", "releasing", "expiring"},
         moved.pc = "recording" => moved.run.status \in Waiting \cup Terminal
  PROVE  ThreadsKept
<1>1. DOMAIN threads' = DOMAIN threads
  OBVIOUS
<1>2. \A u \in DOMAIN threads : threads'[u] = IF u = t THEN moved ELSE threads[u]
  OBVIOUS
<1> QED
  BY <1>1, <1>2 DEF ToldInv, Ending, ThreadsKept, ThreadKept, Over


\* An executor goes from one state to the next.
LEMMA ExecutorKept ==
  ASSUME IInv, ToldInv, NEW t \in DOMAIN threads, Executes(t) \/ Panics(t), ~finish_and_emit(t)
  PROVE  ThreadsKept /\ told' = told
<1>0. threads[t] \in Thread /\ threads[t].run \in Run
  BY DEF IInv, Types, ThreadsOK, Thread
<1>1. \A status \in Status : Ends(t, status).n = threads[t].run.n /\ Ends(t, status).status = status
  BY <1>0 DEF Ends, Run
<1>2. ErrorStatus(t) \in Terminal /\ Waiting \cup Terminal \subseteq Status
  BY DEF ErrorStatus, Terminal, Status
<1>3. told' = told
  BY DEF Executes, Register, prepare_run_account, start_run, Reference, StartupEnds, await_run_startup,
         drain_run_events, run_workflow_action, touch_run_heartbeat, Deregister, Release, Expire, Panics
<1> SUFFICES ThreadsKept
  BY <1>3
<1>4. ASSUME NEW moved, threads' = [threads EXCEPT ![t] = moved], moved.run.n = threads[t].run.n,
             ~Over(t) \/ moved.pc \in {"deregistering", "releasing", "expiring"},
             moved.pc = "recording" => moved.run.status \in Waiting \cup Terminal
      PROVE  ThreadsKept
  BY <1>4, OneMoves
\* The end of the run, or the end of an attempt.
<1>5. ASSUME NEW status \in Waiting \cup Terminal, Outcome(t, status), ~Over(t) PROVE ThreadsKept
  <2> DEFINE moved == [threads[t] EXCEPT !.pc = "recording", !.chat = "none", !.run = Ends(t, status)]
  <2>1. threads' = [threads EXCEPT ![t] = moved]
    BY <1>5 DEF Outcome
  <2>2. moved.run = Ends(t, status) /\ moved.pc = "recording"
    BY <1>0 DEF Thread
  <2> HIDE DEF moved
  <2> QED
    BY <1>1, <1>2, <1>4, <1>5, <2>1, <2>2
<1>6. ASSUME ResumeFails(t), ~Over(t) PROVE ThreadsKept
  <2>1. CASE threads' = [threads EXCEPT ![t] =
               [@ EXCEPT !.pc = "recording", !.chat = "none", !.enabled = FALSE, !.run = Ends(t, ErrorStatus(t))]]
    <3> DEFINE moved == [threads[t] EXCEPT !.pc = "recording", !.chat = "none", !.enabled = FALSE,
                                           !.run = Ends(t, ErrorStatus(t))]
    <3>1. moved.run = Ends(t, ErrorStatus(t)) /\ moved.pc = "recording"
      BY <1>0 DEF Thread
    <3>2. threads' = [threads EXCEPT ![t] = moved]
      BY <2>1
    <3> HIDE DEF moved
    <3> QED
      BY <1>1, <1>2, <1>4, <1>6, <3>1, <3>2
  <2>2. ASSUME NEW attempt \in {"retry", "fresh"},
               threads' = [threads EXCEPT ![t] =
                 [@ EXCEPT !.pc = "launching", !.chat = "starting", !.attempt = attempt]]
        PROVE  ThreadsKept
    <3> DEFINE moved == [threads[t] EXCEPT !.pc = "launching", !.chat = "starting", !.attempt = attempt]
    <3>1. moved.run = threads[t].run /\ moved.pc = "launching"
      BY <1>0 DEF Thread
    <3>2. threads' = [threads EXCEPT ![t] = moved]
      BY <2>2
    <3> HIDE DEF moved
    <3> QED
      BY <1>4, <1>6, <3>1, <3>2
  <2> QED
    BY <1>6, <2>1, <2>2 DEF ResumeFails
\* The thread goes to another place.
<1>7. ASSUME NEW pc, Goes(t, pc), pc # "recording",
             ~Over(t) \/ pc \in {"deregistering", "releasing", "expiring"}
      PROVE  ThreadsKept
  <2> DEFINE moved == [threads[t] EXCEPT !.pc = pc]
  <2>1. moved.run = threads[t].run /\ moved.pc = pc
    BY <1>0 DEF Thread
  <2>2. threads' = [threads EXCEPT ![t] = moved]
    BY <1>7 DEF Goes
  <2> HIDE DEF moved
  <2> QED
    BY <1>4, <1>7, <2>1, <2>2
<1>8. CASE Register(t)
  BY <1>7, <1>8 DEF Register, At, Over
<1>9. CASE prepare_run_account(t)
  <2>0. ~Over(t)
    BY <1>9 DEF prepare_run_account, At, Over
  <2>1. ASSUME NEW status \in Waiting \cup Terminal,
               threads' = [threads EXCEPT ![t] = [@ EXCEPT !.pc = "recording", !.run = Ends(t, status)]]
        PROVE  ThreadsKept
    <3> DEFINE moved == [threads[t] EXCEPT !.pc = "recording", !.run = Ends(t, status)]
    <3>1. moved.run = Ends(t, status) /\ moved.pc = "recording"
      BY <1>0 DEF Thread
    <3>2. threads' = [threads EXCEPT ![t] = moved]
      BY <2>1
    <3> HIDE DEF moved
    <3> QED
      BY <1>1, <1>2, <1>4, <2>0, <3>1, <3>2
  <2> QED
    BY <1>7, <1>9, <2>0, <2>1 DEF prepare_run_account, Waiting, Terminal
<1>10. CASE start_run(t)
  <2> DEFINE saved == Saved(t, Started(t))
             pc == IF t[1] \in Workflow THEN "working" ELSE "referencing"
             enabled == SavedSchedules(t)[t[1]].enabled
             document == IF t[1] \in Kept THEN None ELSE threads[t].document
             ends == [threads[t] EXCEPT !.pc = "deregistering"]
             goes == [threads[t] EXCEPT !.pc = pc, !.run = saved, !.enabled = enabled, !.document = document]
  <2>1. Started(t) \in Run /\ Started(t).n = threads[t].run.n
    BY <1>0 DEF Started, Run, Status
  <2>2. saved.n = threads[t].run.n
    BY <2>1, SavedIsRun
  <2>3. threads' = [threads EXCEPT ![t] = IF saved.status # "running" THEN ends ELSE goes] /\ ~Over(t)
    BY <1>10, Zenon DEF start_run, At, Over
  <2>4. ends.run = threads[t].run /\ ends.pc = "deregistering"
    BY <1>0 DEF Thread
  <2> HIDE DEF saved, enabled, document
  <2>5. goes.run = saved /\ goes.pc # "recording"
    BY <1>0 DEF Thread
  <2> HIDE DEF ends, goes
  <2> QED
    BY <1>4, <2>2, <2>3, <2>4, <2>5
<1>11. CASE Reference(t)
  <2>1. PICK attempt \in {"resume", "fresh"} :
          threads' = [threads EXCEPT ![t] =
            [@ EXCEPT !.pc = "launching", !.chat = "starting", !.attempt = attempt]]
    BY <1>11 DEF Reference
  <2> DEFINE moved == [threads[t] EXCEPT !.pc = "launching", !.chat = "starting", !.attempt = attempt]
  <2>2. moved.run = threads[t].run /\ moved.pc = "launching"
    BY <1>0 DEF Thread
  <2>3. threads' = [threads EXCEPT ![t] = moved] /\ ~Over(t)
    BY <1>11, <2>1 DEF Reference, At, Over
  <2> HIDE DEF moved
  <2> QED
    BY <1>4, <2>2, <2>3
<1>12. CASE StartupEnds(t)
  <2>1. PICK chat \in {"up", "failed", "unresumed"} : threads' = [threads EXCEPT ![t] = [@ EXCEPT !.chat = chat]]
    BY <1>12 DEF StartupEnds
  <2> DEFINE moved == [threads[t] EXCEPT !.chat = chat]
  <2>2. moved.run = threads[t].run /\ moved.pc = threads[t].pc
    BY <1>0 DEF Thread
  <2>3. threads' = [threads EXCEPT ![t] = moved]
    BY <2>1
  <2> HIDE DEF moved
  <2> QED
    BY <1>4, <2>2, <2>3 DEF ToldInv, Ending, Over
<1>13. CASE await_run_startup(t)
  <2>0. ~Over(t)
    BY <1>13 DEF await_run_startup, At, Over
  <2>1. CASE Outcome(t, "cancelled") \/ Outcome(t, ErrorStatus(t))
    BY <1>2, <1>5, <2>0, <2>1 DEF Terminal
  <2>2. CASE threads' = [threads EXCEPT ![t] =
               [@ EXCEPT !.cancelled = TRUE, !.pc = "recording", !.chat = "none", !.run = Ends(t, "cancelled")]]
    <3> DEFINE moved == [threads[t] EXCEPT !.cancelled = TRUE, !.pc = "recording", !.chat = "none",
                                           !.run = Ends(t, "cancelled")]
    <3>1. moved.run = Ends(t, "cancelled") /\ moved.pc = "recording"
      BY <1>0 DEF Thread
    <3>2. threads' = [threads EXCEPT ![t] = moved]
      BY <2>2
    <3> HIDE DEF moved
    <3> QED
      BY <1>1, <1>2, <1>4, <2>0, <3>1, <3>2 DEF Terminal
  <2>3. CASE Goes(t, "working") \/ ResumeFails(t)
    BY <1>6, <1>7, <2>0, <2>3
  <2> QED
    BY <1>13, <2>1, <2>2, <2>3 DEF await_run_startup
<1>14. CASE drain_run_events(t)
  <2>0. ~Over(t)
    BY <1>14 DEF drain_run_events, At, Over
  <2> QED
    BY <1>2, <1>5, <1>6, <1>14, <2>0 DEF drain_run_events, Waiting, Terminal
<1>15. CASE run_workflow_action(t)
  <2>0. ~Over(t)
    BY <1>15 DEF run_workflow_action, At, Over
  <2>1. ASSUME NEW enabled \in {threads[t].enabled, FALSE},
               threads' = [threads EXCEPT ![t] =
                 [@ EXCEPT !.pc = "recording", !.enabled = enabled, !.run = Ends(t, "failed")]]
        PROVE  ThreadsKept
    <3> DEFINE moved == [threads[t] EXCEPT !.pc = "recording", !.enabled = enabled, !.run = Ends(t, "failed")]
    <3>1. moved.run = Ends(t, "failed") /\ moved.pc = "recording"
      BY <1>0 DEF Thread
    <3>2. threads' = [threads EXCEPT ![t] = moved]
      BY <2>1
    <3> HIDE DEF moved
    <3> QED
      BY <1>1, <1>2, <1>4, <2>0, <3>1, <3>2 DEF Terminal
  <2> QED
    BY <1>5, <1>15, <2>0, <2>1 DEF run_workflow_action, Terminal
<1>16. CASE touch_run_heartbeat(t)
  <2>1. UNCHANGED threads
    BY <1>16 DEF touch_run_heartbeat
  <2> QED
    BY <2>1, StillKept
<1>17. CASE Deregister(t) \/ Release(t)
  BY <1>7, <1>17 DEF Deregister, Release
<1>18. CASE Expire(t)
  <2>1. DOMAIN threads' \subseteq DOMAIN threads /\ \A u \in DOMAIN threads' : threads'[u] = threads[u]
    BY <1>18 DEF Expire, Without, Restrict
  <2> QED
    BY <2>1 DEF ToldInv, Ending, ThreadsKept, ThreadKept, Over
<1>19. CASE Panics(t)
  <2> DEFINE moved == [threads[t] EXCEPT !.pc = "deregistering", !.chat = "none"]
  <2>1. moved.run = threads[t].run /\ moved.pc = "deregistering"
    BY <1>0 DEF Thread
  <2>2. threads' = [threads EXCEPT ![t] = moved]
    BY <1>19 DEF Panics
  <2> HIDE DEF moved
  <2> QED
    BY <1>4, <2>1, <2>2
<1> QED
  BY <1>8, <1>9, <1>10, <1>11, <1>12, <1>13, <1>14, <1>15, <1>16, <1>17, <1>18, <1>19 DEF Executes

\* What a claim starts is a thread on a run that is new, or that the store says waits.
LEMMA ClaimedThreads ==
  ASSUME IInv, claim_due, NEW t \in DOMAIN threads'
  PROVE  \/ t \in DOMAIN threads /\ threads'[t] = threads[t]
         \/ /\ t[1] \in Schedule /\ threads'[t].pc = "spawned"
            /\ \/ threads'[t].run.n = made[t[1]] + 1 /\ made'[t[1]] = made[t[1]] + 1
               \/ \E run \in ToSet(runs[t[1]]) : run.n = threads'[t].run.n /\ run.status \in Waiting
<1>1. PICK closed :
        LET fresh == {s \in Kept : ~Merges(s) /\ (Asked(s) \/ RegularDue(s, closed))}
            claimed == {s \in fresh : s \notin tick.busy} \cup {s \in Kept : Merges(s) /\ GoesOn(s)}
            claim(s) == Spawned(s, IF Merges(s) THEN WaitingRun(s) ELSE new_scheduled_run(s))
        IN /\ made' = [s \in Schedule |-> made[s] + IF s \in fresh THEN 1 ELSE 0]
           /\ threads' = [u \in DOMAIN threads \cup {<<s, claims'[s]>> : s \in claimed} |->
                           IF u \in DOMAIN threads THEN threads[u] ELSE claim(u[1])]
  BY Zenon DEF claim_due
<1> DEFINE fresh == {s \in Kept : ~Merges(s) /\ (Asked(s) \/ RegularDue(s, closed))}
           claimed == {s \in fresh : s \notin tick.busy} \cup {s \in Kept : Merges(s) /\ GoesOn(s)}
           claim(s) == Spawned(s, IF Merges(s) THEN WaitingRun(s) ELSE new_scheduled_run(s))
<1>2. \A s \in claimed : s \in Schedule /\ (Merges(s) \/ s \in fresh)
  BY DEF Kept
<1>3. \A s \in fresh : s \in Schedule /\ ~Merges(s)
  BY DEF Kept
<1>4. \A s : /\ claim(s).pc = "spawned"
             /\ claim(s).run = IF Merges(s) THEN WaitingRun(s) ELSE new_scheduled_run(s)
  BY DEF Spawned
<1> HIDE DEF fresh, claimed, claim
<1>5. made' = [s \in Schedule |-> made[s] + IF s \in fresh THEN 1 ELSE 0]
  BY <1>1, Zenon DEF fresh
<1>6. threads' = [u \in DOMAIN threads \cup {<<s, claims'[s]>> : s \in claimed} |->
                    IF u \in DOMAIN threads THEN threads[u] ELSE claim(u[1])]
  BY <1>1, Zenon DEF fresh, claimed, claim
<1>7. CASE t \notin DOMAIN threads
  <2>1. PICK s \in claimed : t = <<s, claims'[s]>>
    BY <1>6, <1>7
  <2>2. threads'[t] = claim(s) /\ t[1] = s /\ s \in Schedule
    BY <1>2, <1>6, <1>7, <2>1
  <2>3. CASE Merges(s)
    <3>1. PICK i \in DOMAIN runs[s] : runs[s][i].status \in Waiting
      BY <2>3 DEF Merges, ToSet
    <3>2. MergedRuns(s)[i] \in ToSet(MergedRuns(s)) /\ MergedRuns(s)[i].status \in Waiting
      BY <2>2, <3>1, MergedRunsTyped DEF ToSet
    <3>3. WaitingRun(s) \in ToSet(MergedRuns(s)) /\ WaitingRun(s).status \in Waiting
      BY <3>2 DEF WaitingRun
    <3>4. PICK j \in DOMAIN runs[s] : MergedRuns(s)[j] = WaitingRun(s)
      BY <2>2, <3>3, MergedRunsTyped DEF ToSet
    <3>5. runs[s][j] \in ToSet(runs[s]) /\ runs[s][j].n = WaitingRun(s).n /\ runs[s][j].status \in Waiting
      BY <2>2, <3>3, <3>4, MergedRunsTyped DEF ToSet
    <3> QED
      BY <1>4, <2>2, <2>3, <3>5
  <2>4. CASE ~Merges(s)
    <3>1. s \in fresh /\ threads'[t].run = new_scheduled_run(s)
      BY <1>2, <1>4, <2>2, <2>4
    <3>2. made'[s] = made[s] + 1
      BY <1>5, <2>2, <3>1
    <3> QED
      BY <1>4, <2>2, <3>1, <3>2, NewRunTyped
  <2> QED
    BY <2>3, <2>4
<1>8. CASE t \in DOMAIN threads
  BY <1>6, <1>8
<1> QED
  BY <1>7, <1>8

\* Neither of them has been announced.
LEMMA ClaimKeepsTold ==
  ASSUME IInv, IInv', EndedKeep, Descends, ToldInv, claim_due
  PROVE  ToldInv'
<1>0. told' = told
  BY DEF claim_due
<1>1. Announced'
  BY <1>0, AnnouncedStays DEF ToldInv, Announced
<1>2. ASSUME NEW t \in DOMAIN threads', t \in DOMAIN threads, threads'[t] = threads[t]
      PROVE  /\ ~Over(t)' => Id(t)' \notin DOMAIN told
             /\ threads'[t].run.n <= made'[t[1]]
             /\ threads'[t].pc = "recording" => threads'[t].run.status \in Waiting \cup Terminal
  <2>1. t[1] \in Schedule /\ threads[t].run.n \in Nat
    BY <1>2 DEF IInv, Types, ThreadsOK, Thread, Run
  <2>2. made[t[1]] \in Nat /\ made'[t[1]] \in Nat /\ made'[t[1]] >= made[t[1]]
    BY <2>1 DEF IInv, Types, CountersOK, Descends
  <2> QED
    BY <1>2, <2>1, <2>2 DEF ToldInv, Unannounced, Given, Ending, Over, Id
<1>3. ASSUME NEW t \in DOMAIN threads', t[1] \in Schedule, threads'[t].pc = "spawned",
             \/ threads'[t].run.n = made[t[1]] + 1 /\ made'[t[1]] = made[t[1]] + 1
             \/ \E run \in ToSet(runs[t[1]]) : run.n = threads'[t].run.n /\ run.status \in Waiting
      PROVE  Id(t)' \notin DOMAIN told /\ threads'[t].run.n <= made'[t[1]]
  <2>1. made[t[1]] \in Nat /\ made'[t[1]] \in Nat /\ made'[t[1]] >= made[t[1]]
    BY <1>3 DEF IInv, Types, CountersOK, Descends
  <2>2. Id(t)' = <<t[1], threads'[t].run.n>>
    BY DEF Id
  <2>3. CASE threads'[t].run.n = made[t[1]] + 1 /\ made'[t[1]] = made[t[1]] + 1
    BY <2>1, <2>2, <2>3 DEF ToldInv, Announced
  <2>4. ASSUME NEW i \in DOMAIN runs[t[1]], runs[t[1]][i].n = threads'[t].run.n,
               runs[t[1]][i].status \in Waiting
        PROVE  Id(t)' \notin DOMAIN told /\ threads'[t].run.n <= made'[t[1]]
    <3>1. runs[t[1]][i].n \in Nat /\ runs[t[1]][i].n <= made[t[1]]
      BY <1>3, RunsTyped DEF IInv, Types, Distinct
    <3>2. runs[t[1]][i] \in Stored(Id(t)')
      BY <2>2, <2>4 DEF Stored, ToSet
    <3>3. runs[t[1]][i].status \notin Terminal
      BY <2>4 DEF Waiting, Terminal
    <3>4. Id(t)' \notin DOMAIN told
      BY <3>2, <3>3 DEF ToldInv, Announced
    <3> QED
      BY <2>1, <2>4, <3>1, <3>4
  <2> QED
    BY <1>3, <2>3, <2>4 DEF ToSet
<1>4. Unannounced' /\ Given' /\ Ending'
  BY <1>0, <1>2, <1>3, ClaimedThreads DEF Unannounced, Given, Ending
<1> QED
  BY <1>1, <1>4 DEF ToldInv

-----------------------------------------------------------------------------
\* What finish_run gives back is what the store then says, and has not gone back to running.
LEMMA SavedIsStored ==
  ASSUME IInv, Distinct', NEW t \in DOMAIN threads, NEW run \in Run, run.n = threads[t].run.n,
         run.status \in Waiting \cup Terminal, runs' = SavedRuns(t, run)
  PROVE  /\ Saved(t, run).status \in Waiting \cup Terminal
         /\ \A stored \in ToSet(runs'[t[1]]) : stored.n = run.n => stored = Saved(t, run)
<1> DEFINE s == t[1]
           list == SavedRuns(t, run)[s]
<1>0. s \in Schedule /\ StoreOK
  BY DEF IInv, Types, ThreadsOK
<1>1. list = [i \in DOMAIN runs[s] |-> IF runs[s][i].n = run.n /\ runs[s][i].status \notin Terminal
                                     THEN run ELSE runs[s][i]]
  BY <1>0 DEF SavedRuns, StoreOK
<1>2. \A i \in DOMAIN list : /\ i \in DOMAIN runs[s] /\ list[i].n = runs[s][i].n
                             /\ list[i].n = run.n => list[i].status \in Waiting \cup Terminal
  BY <1>1
<1>3. \A i, j \in DOMAIN list : list[i].n = list[j].n => i = j
  BY <1>0 DEF Distinct
<1>4. CASE Stored(Id(t)) = {}
  <2>1. \A i \in DOMAIN list : list[i].n # run.n
    BY <1>2, <1>4 DEF Stored, Id, ToSet
  <2> QED
    BY <1>4, <2>1 DEF Saved, ToSet
<1>5. CASE Stored(Id(t)) # {}
  <2>1. Saved(t, run) = CHOOSE saved \in ToSet(list) : saved.n = run.n
    BY <1>5 DEF Saved
  <2>2. PICK i \in DOMAIN runs[s] : runs[s][i].n = run.n
    BY <1>5 DEF Stored, Id, ToSet
  <2>3. i \in DOMAIN list /\ list[i].n = run.n
    BY <1>1, <2>2
  <2>4. Saved(t, run) \in ToSet(list) /\ Saved(t, run).n = run.n
    BY <2>1, <2>3 DEF ToSet
  <2>5. PICK k \in DOMAIN list : list[k] = Saved(t, run)
    BY <2>4 DEF ToSet
  <2>6. ASSUME NEW j \in DOMAIN list, list[j].n = run.n PROVE list[j] = Saved(t, run)
    BY <1>3, <2>4, <2>5, <2>6
  <2>7. Saved(t, run).status \in Waiting \cup Terminal
    BY <1>2, <2>4, <2>5
  <2> QED
    BY <2>6, <2>7 DEF ToSet
<1> QED
  BY <1>4, <1>5

\* The one executor of a run announces what the store keeps, and does not come back to it.
LEMMA FinishKeepsTold ==
  ASSUME IInv, IInv', EndedKeep, Descends, OneExecutor, ToldInv, NEW t \in DOMAIN threads, finish_and_emit(t)
  PROVE  ToldInv'
<1> DEFINE run == threads[t].run
           saved == Saved(t, run)
           moved == [threads[t] EXCEPT !.pc = "deregistering"]
<1>0. threads[t] \in Thread /\ run \in Run /\ t[1] \in Schedule /\ run.n \in Nat /\ threads[t].pc = "recording"
  BY DEF IInv, Types, ThreadsOK, Thread, Run, finish_and_emit, At
<1>1. ~Over(t) /\ Id(t) \notin DOMAIN told /\ Id(t) = <<t[1], run.n>> /\ Told(Id(t)) = << >>
  BY <1>0 DEF ToldInv, Unannounced, Over, Told, Id
<1>2. runs' = SavedRuns(t, run) /\ run.status \in Waiting \cup Terminal
  BY <1>0 DEF finish_and_emit, finish_run, ToldInv, Ending
<1>3. /\ saved.status \in Waiting \cup Terminal
      /\ \A stored \in ToSet(runs'[t[1]]) : stored.n = run.n => stored = saved
  BY <1>0, <1>2, SavedIsStored DEF IInv
<1>4. told' = IF saved.status \in Waiting THEN told ELSE With(told, Id(t), <<saved.status>>)
  <2>1. Append(<< >>, saved.status) = <<saved.status>>
    OBVIOUS
  <2> QED
    BY <1>1, <2>1 DEF finish_and_emit, emit_result
<1>5. threads' = [threads EXCEPT ![t] = moved] /\ moved.run = run /\ moved.pc = "deregistering"
  BY <1>0 DEF finish_and_emit, Goes, Thread
<1> HIDE DEF saved, moved
<1>6. ThreadsKept
  BY <1>1, <1>5, OneMoves
<1>7. CASE saved.status \in Waiting
  BY <1>4, <1>6, <1>7, SilentStep
<1>8. CASE saved.status \in Terminal
  <2>1. /\ DOMAIN told' = DOMAIN told \cup {Id(t)} /\ told'[Id(t)] = <<saved.status>>
        /\ \A id \in DOMAIN told : told'[id] = told[id]
    BY <1>1, <1>4, <1>8 DEF With, Waiting, Terminal
  <2>2. made[t[1]] \in Nat /\ made'[t[1]] \in Nat /\ made'[t[1]] >= made[t[1]] /\ run.n <= made[t[1]]
    BY <1>0 DEF IInv, Types, CountersOK, Descends, ToldInv, Given
  <2>3. run.n <= made'[t[1]]
    BY <1>0, <2>2
  <2>4. Announced'
    <3>1. ASSUME NEW id \in DOMAIN told
          PROVE  /\ id \in Schedule \X Nat /\ id[2] <= made'[id[1]]
                 /\ Len(told'[id]) = 1 /\ told'[id][1] \in Terminal
                 /\ \A stored \in Stored(id)' : stored.status = told'[id][1]
      BY <2>1, AnnouncedStays DEF ToldInv, Announced
    <3>2. /\ Id(t) \in Schedule \X Nat /\ Id(t)[1] = t[1] /\ Id(t)[2] = run.n
          /\ Len(told'[Id(t)]) = 1 /\ told'[Id(t)][1] = saved.status
      BY <1>0, <1>1, <2>1
    <3>3. ASSUME NEW id, id = Id(t)
          PROVE  /\ id \in Schedule \X Nat /\ id[2] <= made'[id[1]]
                 /\ Len(told'[id]) = 1 /\ told'[id][1] \in Terminal
                 /\ \A stored \in Stored(id)' : stored.status = told'[id][1]
      BY <1>3, <1>8, <2>3, <3>2, <3>3 DEF Stored
    <3> QED
      BY <2>1, <3>1, <3>3 DEF Announced
  <2>5. Unannounced'
    <3> SUFFICES ASSUME NEW u \in DOMAIN threads', ~Over(u)' PROVE Id(u)' \notin DOMAIN told'
      BY DEF Unannounced
    <3>1. u \in DOMAIN threads /\ u # t /\ threads'[u] = threads[u]
      BY <1>5 DEF Over
    <3>2. ~Over(u) /\ Id(u)' = Id(u) /\ Id(u) \notin DOMAIN told
      BY <3>1 DEF Over, Id, ToldInv, Unannounced
    <3>3. Id(u) # Id(t)
      BY <1>0, <3>1, <3>2 DEF OneExecutor, Over, Id
    <3> QED
      BY <2>1, <3>2, <3>3
  <2>6. Given' /\ Ending'
    <3>1. ASSUME NEW u \in DOMAIN threads'
          PROVE  threads'[u].run.n <= made'[u[1]]
      <4>1. u \in DOMAIN threads /\ threads'[u].run.n = threads[u].run.n
        BY <1>6 DEF ThreadsKept, ThreadKept
      <4>2. u[1] \in Schedule /\ threads[u].run.n \in Nat
        BY <4>1 DEF IInv, Types, ThreadsOK, Thread, Run
      <4>3. made[u[1]] \in Nat /\ made'[u[1]] \in Nat /\ made'[u[1]] >= made[u[1]]
        BY <4>2 DEF IInv, Types, CountersOK, Descends
      <4> QED
        BY <4>1, <4>2, <4>3 DEF ToldInv, Given
    <3> QED
      BY <1>6, <3>1 DEF Given, Ending, ThreadsKept, ThreadKept
  <2> QED
    BY <2>4, <2>5, <2>6 DEF ToldInv
<1> QED
  BY <1>3, <1>7, <1>8

\* Every step.
LEMMA NextKeepsTold ==
  ASSUME IInv, OneExecutor, ToldInv, [Next]_vars
  PROVE  ToldInv'
<1>0. IInv' /\ EndedKeep /\ Descends
  BY NextKeeps
<1>1. ASSUME ThreadsKept, told' = told PROVE ToldInv'
  BY <1>0, <1>1, SilentStep
<1>2. CASE UNCHANGED <<threads, told>>
  BY <1>1, <1>2, StillKept
<1>3. CASE Calls
  BY <1>2, <1>3 DEF Calls, set_paused, create, update, delete, run_now, FallsDue, CancelReads, set_enabled,
         run_now_from_document_trigger, outside, memory
<1>4. CASE Ticks
  <2>1. CASE SignalExpired
    <3>1. PICK id : threads' = IF id \in DOMAIN executions THEN Signalled(executions[id]) ELSE threads
      BY <2>1 DEF SignalExpired
    <3>2. \A x \in DOMAIN executions : executions[x] \in DOMAIN threads
      BY DEF IInv, Types, ExecutionsOK
    <3> QED
      BY <1>1, <2>1, <3>1, <3>2, StillKept, SignalledKept DEF SignalExpired
  <2>2. CASE claim_due
    BY <1>0, <2>2, ClaimKeepsTold
  <2> QED
    BY <1>2, <1>4, <2>1, <2>2 DEF Ticks, skip_missed, ReadExpired, WriteExpired, CopyRunning, memory
<1>5. CASE Cancels
  <2>1. \A x \in DOMAIN executions : executions[x] \in DOMAIN threads
    BY DEF IInv, Types, ExecutionsOK
  <2> QED
    BY <1>1, <1>2, <1>5, <2>1, SignalledKept DEF Cancels, CancelLooks, CancelWrites, memory
<1>6. ASSUME NEW t \in DOMAIN threads, Executes(t) \/ Panics(t) PROVE ToldInv'
  BY <1>0, <1>1, <1>6, FinishKeepsTold, ExecutorKept
<1>7. CASE Crashes
  <2>1. DOMAIN threads' = {} /\ told' = told
    BY <1>7 DEF Crashes
  <2> QED
    BY <1>1, <2>1 DEF ThreadsKept
<1>8. CASE Sleeps \/ Restarts \/ UNCHANGED vars
  BY <1>2, <1>8 DEF Sleeps, Restarts, vars, memory
<1> QED
  BY <1>3, <1>4, <1>5, <1>6, <1>7, <1>8 DEF Next, Executions, Mishaps

\* The result of a run is announced at most once, and as the store has it for as long as the store
\* keeps the run, whatever cancels and expired leases race with the executor and whatever panics
\* and restarts follow (finish_and_emit: what is announced is what finish_run gave back).
THEOREM ResultIsAnnouncedOnce == Spec => []ToldAsRecorded
<1>1. IInv /\ OneExecutor /\ ToldInv /\ [Next]_vars => ToldInv'
  BY NextKeepsTold
<1>2. ToldInv => ToldAsRecorded
  BY DEF ToldInv, Announced, ToldAsRecorded
<1> QED
  BY <1>1, <1>2, InitTold, Invariance, ScheduleHasOneExecutor, PTL DEF Spec

=============================================================================
