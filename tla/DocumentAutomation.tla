------------------------- MODULE DocumentAutomation -------------------------
(***************************************************************************)
(* Document automation (document_automation.rs): watched folders, the      *)
(* recorded state of each, changes that wait for a folder to be quiet,     *)
(* batches that wait for their trigger, and the threads that run a         *)
(* trigger's action.                                                       *)
(*                                                                         *)
(* Four stores: the triggers (a file behind a lock), the recorded folders  *)
(* (SQLite, one transaction), the waiting and launched batches (memory     *)
(* behind one mutex and its copy on disk, saved before the mutex is let    *)
(* go) and the offline report (SQLite).  One use of one store is one step; *)
(* the poller, the executors and the user interleave between them, and a   *)
(* crash may fall there.                                                   *)
(*                                                                         *)
(* The content of a file is a number, 0 if there is no such file.  Times   *)
(* are what they make happen: a folder is quiet, a cooldown is over.       *)
(* Patterns and kinds a trigger watches for are taken to match everything. *)
(***************************************************************************)
EXTENDS Integers

CONSTANTS
  Trigger, Root, File,
  HomeRoot,           \* the folder each trigger watches
  Present,            \* the files that every folder has at the start
  CIRCUIT_MAX_RUNS,
  None,               \* no record: no trigger, no batch
  Budgets             \* bounds of the model: how often each kind of event may happen

Kind == {"edit", "remove", "create", "update", "delete", "disable", "enable", "test", "drift",
         "vanish", "restrict", "move", "fail", "crash"}
AnyKind == "any"      \* events of all these kinds together

VARIABLES  \* on disk
  triggers,      \* the trigger store
  baseline,      \* the recorded state of each folder
  pendingRoots,  \* changes of a folder that is not yet quiet
  pending,       \* the batch that waits for each trigger
  inflight       \* the batch of each trigger that was launched

VARIABLES  \* the world
  roots,         \* the registered folders
  disk,          \* what is in them
  valid,         \* triggers whose approved action is still what it was
  heard,         \* events the other side has answered
  quiet,         \* folders that have been quiet for their debounce time
  cool,          \* triggers whose cooldown is over
  recent         \* runs of each trigger within the circuit's window

VARIABLES  \* the process
  poller,        \* the thread that records and polls
  execs,         \* threads that run a trigger
  user           \* a call of a user that is not over

VARIABLES
  known,         \* history: the contents of each file its trigger's action last learnt of
  waived,        \* history: changes that are dropped on purpose, per trigger
  off,           \* history: triggers that a finished call has disabled or deleted, see OffIsOff
  fresh,         \* the next content and the next event id
  events         \* the budget of this behaviour and what has happened

store == <<triggers, baseline, pendingRoots, pending, inflight>>
world == <<roots, disk, valid, heard, quiet, cool, recent>>
ghosts == <<known, waived, off>>
vars == <<store, world, poller, execs, user, ghosts, fresh, events>>

ChangeKind == {"created", "modified", "deleted"}
Status == {"active", "paused", "needsReview", "degraded", "restricted"}
UnderReview == {"needsReview", "degraded", "restricted"}

Change == [kind : ChangeKind, content : Nat]
Changes == [File -> Change \cup {None}]
Batch == [id : Nat, changes : Changes]
TriggerRecord == [enabled : BOOLEAN, status : Status]
Recorded == [path : Nat, files : [File -> Nat]]

\* The poller: what is still to be scanned, the folder that was scanned, the copy of the
\* triggers it works with, the changes that were found while nobody looked.
Folders == SUBSET [id : Root, path : Nat]
Copy == [Trigger -> TriggerRecord \cup {None}]
PollerState ==
  [pc : {"idle", "readying", "reporting", "down"}]
  \cup [pc : {"scanning"}, roots : Folders]
  \cup [pc : {"advancing"}, roots : Folders, root : Root, path : Nat, files : [File -> Nat]]
  \cup [pc : {"maturing"}, triggers : Copy]
  \cup [pc : {"dispatching"}, triggers : Copy, ids : SUBSET Trigger]
  \cup [pc : {"breaking"}, triggers : Copy, ids : SUBSET Trigger, trigger : Trigger]
  \cup [pc : {"recording"}, roots : Folders, report : SUBSET (Root \X File)]
Thread == [trigger : Trigger, batch : Batch, pc : {"start", "act", "mark", "settle"}]
Call == [op : {"disable", "delete", "test"}, trigger : Trigger]

\* What the code does wrong, see NothingElseForgotten.
Exceptions == {"overlaid", "approvedMeanwhile", "unreported", "recounted", "unrecorded"}

ASSUME DocumentAssumption ==
  /\ HomeRoot \in [Trigger -> Root]
  /\ CIRCUIT_MAX_RUNS \in Nat \ {0}
  /\ None \notin Change \cup Batch \cup TriggerRecord \cup Recorded \cup Changes \cup Call
  /\ \A budget \in Budgets : budget \in [Kind \cup {AnyKind} -> Nat]

StoreOK ==
  /\ triggers \in Copy
  /\ baseline \in [Root -> Recorded \cup {None}]
  /\ pendingRoots \in [Root -> Changes \cup {None}]
  /\ pending \in [Trigger -> Batch \cup {None}] /\ inflight \in [Trigger -> Batch \cup {None}]
WorldOK ==
  /\ roots \in [Root -> [state : {"fine", "missing", "restricted"}, path : Nat]]
  /\ disk \in [Root -> [File -> Nat]]
  /\ valid \in [Trigger -> BOOLEAN] /\ cool \in [Trigger -> BOOLEAN]
  /\ recent \in [Trigger -> 0 .. CIRCUIT_MAX_RUNS]
  /\ heard \subseteq Trigger \X Nat /\ quiet \subseteq Root
ProcessOK == poller \in PollerState /\ execs \subseteq Thread /\ user \in Call \cup {None}
HistoryOK ==
  /\ known \in [Trigger -> [File -> SUBSET Nat]] /\ waived \in [Trigger -> SUBSET File]
  /\ off \subseteq Trigger
  /\ fresh \in [content : Nat, id : Nat]
  /\ events \in [left : [Kind \cup {AnyKind} -> Nat], past : SUBSET Exceptions]

TypeOK == StoreOK /\ WorldOK /\ ProcessOK /\ HistoryOK

Init ==
  /\ triggers \in [Trigger -> {None, [enabled |-> TRUE, status |-> "active"]}]
  /\ roots = [r \in Root |-> [state |-> "fine", path |-> 0]]
  /\ disk = [r \in Root |-> [f \in File |-> IF f \in Present THEN 1 ELSE 0]]
  /\ baseline = [r \in Root |-> [path |-> 0, files |-> disk[r]]]
  /\ pendingRoots = [r \in Root |-> None]
  /\ pending = [t \in Trigger |-> None] /\ inflight = pending
  /\ valid = [t \in Trigger |-> TRUE] /\ cool = valid
  /\ recent = [t \in Trigger |-> 0]
  /\ heard = {} /\ quiet = {}
  /\ poller = [pc |-> "idle"] /\ execs = {} /\ user = None
  /\ known = [t \in Trigger |-> [f \in File |-> {disk[HomeRoot[t]][f]}]]
  /\ waived = [t \in Trigger |-> {}] /\ off = {}
  /\ fresh = [content |-> 2, id |-> 1]
  /\ events \in {[left |-> budget, past |-> {}] : budget \in Budgets}

HappensWith(kind, marks) ==
  /\ events.left[AnyKind] > 0 /\ events.left[kind] > 0
  /\ events' = [left |-> [events.left EXCEPT ![AnyKind] = @ - 1, ![kind] = @ - 1],
                past |-> events.past \cup marks]

Happens(kind) == HappensWith(kind, {})

Marked(marks) == events' = [events EXCEPT !.past = @ \cup marks]

-----------------------------------------------------------------------------
(* Changes *)

NoChanges == [f \in File |-> None]
FilesOf(changes) == IF changes = None THEN {} ELSE {f \in File : changes[f] # None}
BatchFiles(batch) == IF batch = None THEN {} ELSE FilesOf(batch.changes)

\* What a scan finds: the difference between the recorded and the present content.
Difference(before, now) ==
  IF before = now THEN None
  ELSE [kind |-> IF before = 0 THEN "created" ELSE IF now = 0 THEN "deleted" ELSE "modified",
        content |-> now]
compare_snapshots(previous, current) == [f \in File |-> Difference(previous[f], current[f])]

Vanishes(old, new) == old.kind = "created" /\ new.kind = "deleted"

Merged(old, new) ==
  [new EXCEPT !.kind = IF old.kind = "created" THEN "created"
                       ELSE IF old.kind = "deleted" /\ @ = "created" THEN "modified" ELSE @]

\* The next change of a file on top of an old one; what was created and deleted never was.
merge_change(old, next) ==
  IF next = None THEN old
  ELSE IF old = None THEN next
  ELSE IF Vanishes(old, next) THEN None ELSE Merged(old, next)
merge_changes(changes, next) == [f \in File |-> merge_change(changes[f], next[f])]

Creates(batch) == \E f \in BatchFiles(batch) : batch.changes[f].kind = "created"

\* The incoming batch on top of the waiting one, whose event id it replaces.
merge_action_batch(existing, incoming) ==
  IF existing = None THEN incoming
  ELSE [id |-> incoming.id, changes |-> merge_changes(existing.changes, incoming.changes)]

Watching(r) == {t \in Trigger : HomeRoot[t] = r}
Waive(T, F) == waived' = [t \in Trigger |-> IF t \in T THEN waived[t] \cup F ELSE waived[t]]

-----------------------------------------------------------------------------
(* The world *)

\* Somebody writes or removes a file of a folder.
Edit(r, f) ==
  /\ roots[r].state = "fine"
  /\ \/ Happens("edit") /\ disk' = [disk EXCEPT ![r][f] = fresh.content]
     \/ disk[r][f] # 0 /\ Happens("remove") /\ disk' = [disk EXCEPT ![r][f] = 0]
  /\ fresh' = [fresh EXCEPT !.content = @ + 1]
  /\ UNCHANGED <<store, roots, valid, heard, quiet, cool, recent, poller, execs, user, ghosts>>

\* A folder disappears and comes back, or is protected and no longer so.
Condition(r, state, kind) ==
  /\ \/ roots[r].state = "fine" /\ state # "fine" /\ Happens(kind)
     \/ roots[r].state # "fine" /\ state = "fine" /\ UNCHANGED events
  /\ roots' = [roots EXCEPT ![r].state = state]
  /\ UNCHANGED <<store, disk, valid, heard, quiet, cool, recent, poller, execs, user, ghosts, fresh>>

\* The path of a registered folder is changed: other files are there.
MoveRoot(r) ==
  /\ Happens("move")
  /\ roots' = [roots EXCEPT ![r].path = @ + 1]
  /\ disk' = [disk EXCEPT ![r] = [f \in File |-> fresh.content]]
  /\ fresh' = [fresh EXCEPT !.content = @ + 1]
  /\ UNCHANGED <<store, valid, heard, quiet, cool, recent, poller, execs, user, ghosts>>

\* The workflow or skill a trigger was approved for changes.
Drift(t) ==
  /\ valid[t] /\ Happens("drift")
  /\ valid' = [valid EXCEPT ![t] = FALSE]
  /\ UNCHANGED <<store, roots, disk, heard, quiet, cool, recent, poller, execs, user, ghosts, fresh>>

\* Time passes: a folder has been quiet, a cooldown or the circuit's window is over.
FallsQuiet(r) ==
  /\ r \notin quiet /\ pendingRoots[r] # None
  /\ quiet' = quiet \cup {r}
  /\ UNCHANGED <<store, roots, disk, valid, heard, cool, recent, poller, execs, user, ghosts, fresh, events>>

CoolsDown(t) ==
  /\ ~cool[t]
  /\ cool' = [cool EXCEPT ![t] = TRUE]
  /\ UNCHANGED <<store, roots, disk, valid, heard, quiet, recent, poller, execs, user, ghosts, fresh, events>>

WindowPasses(t) ==
  /\ recent[t] > 0 /\ cool[t]
  /\ recent' = [recent EXCEPT ![t] = 0]
  /\ UNCHANGED <<store, roots, disk, valid, heard, quiet, cool, poller, execs, user, ghosts, fresh, events>>

-----------------------------------------------------------------------------
(* The poller *)

Polls(step) == poller' = step
NotWorld == UNCHANGED <<world, user, fresh, events>>

\* What the state of its folder makes of a trigger.
desired_root_status(t) ==
  IF roots[HomeRoot[t]].state = "restricted" THEN "restricted"
  ELSE IF roots[HomeRoot[t]].state = "missing" THEN "degraded"
  ELSE IF ~triggers[t].enabled THEN "paused"
  ELSE IF triggers[t].status \in {"restricted", "degraded"} THEN "active"
  ELSE triggers[t].status

refresh_trigger_root_statuses ==
  triggers' = [t \in Trigger |->
    IF triggers[t] = None THEN None ELSE [triggers[t] EXCEPT !.status = desired_root_status(t)]]

Eligible == {[id |-> r, path |-> roots[r].path] : r \in {x \in Root : roots[x].state = "fine"}}

\* A poll begins: the statuses first, then the list of folders to scan.
PollBegins ==
  /\ poller.pc = "idle"
  /\ refresh_trigger_root_statuses
  /\ Polls([pc |-> "scanning", roots |-> Eligible])
  /\ UNCHANGED <<baseline, pendingRoots, pending, inflight, execs, ghosts>> /\ NotWorld

\* The record of r was made at this path.
RecordedAt(r, path) == IF baseline[r] = None THEN FALSE ELSE baseline[r].path = path

Scanned(root) ==
  Polls([pc |-> "advancing", root |-> root.id, path |-> root.path, files |-> disk[root.id],
         roots |-> poller.roots \ {root}])

\* A folder of which nothing is recorded, or whose path was changed, is only recorded.
Rerecord(root) ==
  LET r == root.id
  IN /\ poller.pc = "scanning" /\ ~RecordedAt(r, root.path)
     /\ pendingRoots' = [pendingRoots EXCEPT ![r] = IF baseline[r] = None THEN @ ELSE None]
     /\ Scanned(root)
     /\ Waive(Watching(r), File)
     /\ UNCHANGED <<triggers, baseline, pending, inflight, execs, known, off>> /\ NotWorld

\* The changes of a folder are saved before it is recorded.
Notice(root) ==
  LET r == root.id
      changes == compare_snapshots(baseline[r].files, disk[r])
      waiting == IF pendingRoots[r] = None THEN NoChanges ELSE pendingRoots[r]
  IN /\ poller.pc = "scanning" /\ RecordedAt(r, root.path)
     /\ \/ /\ changes = NoChanges
           /\ Polls([pc |-> "scanning", roots |-> poller.roots \ {root}])
           /\ UNCHANGED <<pendingRoots, quiet>>
        \/ /\ changes # NoChanges
           /\ pendingRoots' = [pendingRoots EXCEPT ![r] = merge_changes(waiting, changes)]
           /\ quiet' = quiet \ {r}
           /\ Scanned(root)
     /\ UNCHANGED <<triggers, baseline, pending, inflight, execs, ghosts, roots, disk, valid, heard, cool, recent, user, fresh, events>>

\* Mutant: a failed scan ends the loop.
ScanEndsTheLoop ==
  /\ poller.pc = "scanning" /\ poller.roots # {}
  /\ Happens("fail") /\ Polls([pc |-> "ended"])
  /\ UNCHANGED <<store, world, execs, user, ghosts, fresh>>

\* The scan of a folder fails: the poll is over, for every folder.
ScanFails ==
  /\ poller.pc = "scanning" /\ poller.roots # {}
  /\ Happens("fail") /\ Polls([pc |-> "idle"])
  /\ UNCHANGED <<store, world, execs, user, ghosts, fresh>>

replace_root_snapshot ==
  /\ poller.pc = "advancing"
  /\ baseline' = [baseline EXCEPT ![poller.root] = [path |-> poller.path, files |-> poller.files]]
  /\ Polls([pc |-> "scanning", roots |-> poller.roots])
  /\ UNCHANGED <<triggers, pendingRoots, pending, inflight, execs, ghosts>> /\ NotWorld

\* The triggers are read before the mutex is taken.
LoadTriggers ==
  /\ poller.pc = "scanning" /\ poller.roots = {}
  /\ Polls([pc |-> "maturing", triggers |-> triggers])
  /\ UNCHANGED <<store, execs, ghosts>> /\ NotWorld

Live(copy, t) == copy[t] # None /\ copy[t].enabled /\ copy[t].status = "active"

\* A batch whose event was answered waits again, and creates a file: a removal merged onto it
\* is dropped, as if nobody had been told of the file.
CountsAgain(t, batch) == batch # None /\ Creates(batch) /\ <<t, batch.id>> \in heard

\* Folders that are quiet hand their changes to the triggers that are live; nobody keeps them
\* for the others.
dispatch_mature_batches ==
  /\ poller.pc = "maturing"
  /\ LET mature == {r \in quiet : pendingRoots[r] # None}
         taking == {t \in Trigger : HomeRoot[t] \in mature /\ Live(poller.triggers, t)
                                    /\ pendingRoots[HomeRoot[t]] # NoChanges}
         batch(r) == [id |-> fresh.id, changes |-> pendingRoots[r]]
     IN /\ pendingRoots' = [r \in Root |-> IF r \in mature THEN None ELSE pendingRoots[r]]
        /\ pending' = [t \in Trigger |->
             IF t \in taking
             THEN merge_action_batch(pending[t], batch(HomeRoot[t]))
             ELSE pending[t]]
        /\ waived' = [t \in Trigger |-> IF t \in taking \/ HomeRoot[t] \notin mature THEN waived[t]
                                        ELSE waived[t] \cup FilesOf(pendingRoots[HomeRoot[t]])]
        /\ fresh' = IF taking = {} THEN fresh ELSE [fresh EXCEPT !.id = @ + 1]
        /\ quiet' = quiet \ mature
        /\ Marked(IF \E t \in taking : CountsAgain(t, pending[t]) THEN {"recounted"} ELSE {})
  /\ Polls([pc |-> "readying"])
  /\ UNCHANGED <<triggers, baseline, inflight, roots, disk, valid, heard, cool, recent, execs, user, known, off>>

running == {e.trigger : e \in execs}


\* Mutant: a trigger that is running is not left out.
cooldown_ready_running_too ==
  /\ poller.pc = "readying"
  /\ Polls([pc |-> "dispatching", triggers |-> triggers,
            ids |-> {t \in Trigger : pending[t] # None /\ triggers[t] # None /\ cool[t]}])
  /\ UNCHANGED <<store, execs, ghosts>> /\ NotWorld

\* The waiting batches of known triggers that are not running and have cooled down.
cooldown_ready_action_ids ==
  /\ poller.pc = "readying"
  /\ Polls([pc |-> "dispatching", triggers |-> triggers,
            ids |-> {t \in Trigger : pending[t] # None /\ t \notin running /\ triggers[t] # None /\ cool[t]}])
  /\ UNCHANGED <<store, execs, ghosts>> /\ NotWorld

DoneWith(t) == [poller EXCEPT !.ids = @ \ {t}]
Dispatching(t) == poller.pc = "dispatching" /\ t \in poller.ids
Stopped(t) == ~poller.triggers[t].enabled \/ poller.triggers[t].status = "paused"

\* Mutant: one run too many before the circuit breaks.
BrokenLate(t) == recent[t] > CIRCUIT_MAX_RUNS

Broken(t) == recent[t] >= CIRCUIT_MAX_RUNS

\* A batch of a trigger that is switched off is dropped.
drop_pending_action(t) ==
  /\ Dispatching(t)
  /\ \/ Stopped(t) /\ Polls(DoneWith(t))
     \/ /\ Live(poller.triggers, t) /\ Broken(t)
        /\ Polls([pc |-> "breaking", trigger |-> t, triggers |-> poller.triggers, ids |-> poller.ids \ {t}])
  /\ pending' = [pending EXCEPT ![t] = None]
  /\ Waive({t}, BatchFiles(pending[t]))
  /\ UNCHANGED <<triggers, baseline, pendingRoots, inflight, execs, known, off>> /\ NotWorld

pause_for_circuit_breaker ==
  /\ poller.pc = "breaking"
  /\ LET t == poller.trigger
     IN triggers' = [triggers EXCEPT ![t] = IF @ = None THEN None ELSE [enabled |-> FALSE, status |-> "paused"]]
  /\ Polls([pc |-> "dispatching", triggers |-> poller.triggers, ids |-> poller.ids])
  /\ UNCHANGED <<baseline, pendingRoots, pending, inflight, execs, ghosts>> /\ NotWorld

\* A batch of a trigger that waits for a review is kept.
Hold(t) ==
  /\ Dispatching(t) /\ ~Stopped(t) /\ ~Live(poller.triggers, t)
  /\ Polls(DoneWith(t))
  /\ UNCHANGED <<store, execs, ghosts>> /\ NotWorld

Enabled(t) == triggers[t] # None /\ triggers[t].enabled

\* A batch is moved to the launched ones and gets a thread, unless it is gone.
claim_pending_batch(t) ==
  /\ Dispatching(t) /\ Live(poller.triggers, t) /\ ~Broken(t)
  /\ Polls(DoneWith(t))
  /\ IF pending[t] = None THEN UNCHANGED <<pending, inflight, execs>>
     ELSE /\ inflight' = [inflight EXCEPT ![t] = pending[t]]
          /\ pending' = [pending EXCEPT ![t] = None]
          /\ execs' = execs \cup {[trigger |-> t, batch |-> pending[t], pc |-> "start"]}
  /\ off' = IF Enabled(t) THEN off ELSE off \cup {t}
  /\ UNCHANGED <<triggers, baseline, pendingRoots, known, waived>> /\ NotWorld

PollEnds ==
  /\ poller.pc = "dispatching" /\ poller.ids = {}
  /\ Polls([pc |-> "idle"])
  /\ UNCHANGED <<store, execs, ghosts>> /\ NotWorld

-----------------------------------------------------------------------------
(* The thread of a trigger *)

Becomes(e, pc) == execs' = (execs \ {e}) \cup {[e EXCEPT !.pc = pc]}

\* The run is recorded, which starts the cooldown and counts for the circuit.
save_run(e) ==
  /\ e.pc = "start"
  /\ cool' = [cool EXCEPT ![e.trigger] = FALSE]
  /\ recent' = [recent EXCEPT ![e.trigger] = @ + 1]
  /\ Becomes(e, "act")
  /\ UNCHANGED <<store, roots, disk, valid, heard, quiet, poller, user, ghosts, fresh, events>>

\* What the other side knows an event of a trigger by.
idempotency_key(e) == <<e.trigger, e.batch.id>>

\* The action: the other side takes an event once and answers it again with what it did then.
\* It learns of the event's content, or of a newer one if it looks at the file.
\* An action that is no longer what was approved, or that fails, does nothing.
execute_action(e) ==
  LET t == e.trigger
      F == BatchFiles(e.batch)
  IN /\ e.pc = "act"
     /\ \/ /\ valid[t]
           /\ heard' = heard \cup {idempotency_key(e)}
           /\ known' = [known EXCEPT ![t] =
                [f \in File |-> IF f \in F /\ idempotency_key(e) \notin heard
                                THEN {e.batch.changes[f].content, disk[HomeRoot[t]][f]} ELSE @[f]]]
           /\ Becomes(e, "settle") /\ UNCHANGED <<waived, events>>
        \/ /\ Happens("fail")
           /\ Waive({t}, F) /\ Becomes(e, "settle") /\ UNCHANGED <<heard, known>>
        \/ /\ ~valid[t]
           /\ Becomes(e, "mark") /\ UNCHANGED <<heard, known, waived, events>>
     /\ UNCHANGED <<store, roots, disk, valid, quiet, cool, recent, poller, user, off, fresh>>

NeedsReview(t) ==
  triggers' = [triggers EXCEPT ![t] = IF @ = None THEN None ELSE [@ EXCEPT !.status = "needsReview"]]

update_trigger_failure_status(e) ==
  /\ e.pc = "mark" /\ NeedsReview(e.trigger) /\ Becomes(e, "settle")
  /\ UNCHANGED <<baseline, pendingRoots, pending, inflight, world, poller, user, ghosts, fresh, events>>

\* The thread ends: the batch of a trigger under review goes back to the waiting ones, on top
\* of a newer one.
launch_trigger_ends(e) ==
  LET t == e.trigger
      retained == triggers[t] # None /\ triggers[t].status \in UnderReview
  IN /\ e.pc = "settle"
     /\ execs' = execs \ {e}
     /\ inflight' = [inflight EXCEPT ![t] = None]
     /\ pending' = [pending EXCEPT ![t] = IF retained THEN merge_action_batch(@, e.batch) ELSE @]
     /\ Waive(IF triggers[t] = None \/ triggers[t].status = "paused" THEN {t} ELSE {}, BatchFiles(e.batch))
     /\ Marked((IF retained /\ pending[t] # None THEN {"overlaid"} ELSE {})
               \cup (IF Live(triggers, t) /\ idempotency_key(e) \notin heard THEN {"approvedMeanwhile"} ELSE {}))
     /\ UNCHANGED <<triggers, baseline, pendingRoots, world, poller, user, known, off, fresh>>

-----------------------------------------------------------------------------
(* Calls of the user *)

NotDisk == UNCHANGED <<baseline, pendingRoots, world, poller, execs, fresh>>

\* The poller has chosen t, in a copy of the triggers in which it is live.
Chosen(t) ==
  /\ poller.pc \in {"dispatching", "breaking"} /\ t \in poller.ids
  /\ Live(poller.triggers, t)

from_enabled(enabled) == [enabled |-> enabled, status |-> IF enabled THEN "active" ELSE "paused"]

\* A trigger is saved as it was sent, enabled or not.
SaveInput(t, enabled) ==
  /\ triggers' = [triggers EXCEPT ![t] = from_enabled(enabled)]
  /\ off' = IF enabled THEN off \ {t} ELSE IF Chosen(t) THEN off ELSE off \cup {t}

\* What is already on its way when a trigger is made is none of its business.
create_trigger(t) ==
  LET r == HomeRoot[t]
      stale == {f \in File : baseline[r] = None \/ baseline[r].files[f] # disk[r][f]}
  IN /\ user = None /\ triggers[t] = None /\ t \notin off /\ roots[r].state = "fine" /\ Happens("create")
     /\ \E enabled \in BOOLEAN : SaveInput(t, enabled)
     /\ known' = [known EXCEPT ![t] = [f \in File |-> {disk[r][f]}]]
     /\ Waive({t}, stale \cup FilesOf(pendingRoots[r]))
     /\ UNCHANGED <<pending, inflight, user>> /\ NotDisk

\* Saving a trigger again approves its action as it is now.  What waits for it goes on waiting,
\* also if it is saved as disabled.
update_trigger(t) ==
  /\ user = None /\ triggers[t] # None /\ roots[HomeRoot[t]].state = "fine" /\ Happens("update")
  /\ \E enabled \in BOOLEAN : SaveInput(t, enabled)
  /\ valid' = [valid EXCEPT ![t] = TRUE]
  /\ UNCHANGED <<baseline, pendingRoots, pending, inflight, roots, disk, heard, quiet, cool, recent, poller, execs, user, known, waived, fresh>>

enable_trigger(t) ==
  /\ user = None /\ triggers[t] # None /\ valid[t] /\ Happens("enable")
  /\ triggers' = [triggers EXCEPT ![t] = [enabled |-> TRUE, status |-> "active"]]
  /\ off' = off \ {t}
  /\ UNCHANGED <<pending, inflight, user, known, waived>> /\ NotDisk

\* Disabling and deleting write the trigger store and then, in a second step, the batches.
disable_trigger(t) ==
  /\ user = None /\ triggers[t] # None /\ Happens("disable")
  /\ triggers' = [triggers EXCEPT ![t] = [enabled |-> FALSE, status |-> "paused"]]
  /\ user' = [op |-> "disable", trigger |-> t]
  /\ UNCHANGED <<pending, inflight, ghosts>> /\ NotDisk

delete_trigger(t) ==
  /\ user = None /\ triggers[t] # None /\ Happens("delete")
  /\ triggers' = [triggers EXCEPT ![t] = None]
  /\ user' = [op |-> "delete", trigger |-> t]
  /\ UNCHANGED <<pending, inflight, ghosts>> /\ NotDisk


\* Mutant: the store is written and the waiting batch is left to the gate.
ForgetNothing ==
  /\ user # None /\ user.op \in {"disable", "delete"}
  /\ off' = off \cup {user.trigger} /\ user' = None
  /\ UNCHANGED <<triggers, pending, inflight, known, waived, events>> /\ NotDisk

ForgetBatch ==
  /\ user # None /\ user.op \in {"disable", "delete"}
  /\ LET t == user.trigger
     IN /\ pending' = [pending EXCEPT ![t] = None]
        /\ inflight' = [inflight EXCEPT ![t] = IF user.op = "delete" THEN None ELSE @]
        /\ off' = off \cup {t}
        /\ Waive({t}, BatchFiles(pending[t]))
  /\ user' = None
  /\ UNCHANGED <<triggers, known, events>> /\ NotDisk

\* A test runs the action of a valid trigger with a batch of no changes.
test_trigger(t) ==
  /\ user = None /\ triggers[t] # None /\ roots[HomeRoot[t]].state = "fine" /\ valid[t] /\ Happens("test")
  /\ user' = [op |-> "test", trigger |-> t]
  /\ UNCHANGED <<triggers, pending, inflight, ghosts>> /\ NotDisk

TestEnds ==
  /\ user # None /\ user.op = "test"
  /\ IF valid[user.trigger] THEN UNCHANGED triggers ELSE NeedsReview(user.trigger)
  /\ user' = None
  /\ UNCHANGED <<pending, inflight, ghosts, events>> /\ NotDisk

-----------------------------------------------------------------------------
(* Crash and restart *)

\* A new file has been saved for the triggers, and the folder is not yet recorded with it.
Unrecorded ==
  /\ poller.pc = "advancing" /\ baseline[poller.root] # None
  /\ \E f \in File : baseline[poller.root].files[f] = 0 /\ poller.files[f] # 0

\* The process ends: threads and memory are gone, the stores stay. The id of a trigger that
\* was deleted is never used again.
Crash ==
  /\ poller.pc # "down"
  /\ HappensWith("crash", (IF poller.pc = "recording" /\ poller.report # {} THEN {"unreported"} ELSE {})
                          \cup (IF Unrecorded THEN {"unrecorded"} ELSE {}))
  /\ off' = IF user = None THEN off ELSE IF user.op = "delete" THEN off \cup {user.trigger} ELSE off
  /\ Polls([pc |-> "down"]) /\ execs' = {} /\ user' = None
  /\ UNCHANGED <<store, world, known, waived, fresh>>


\* Mutant: what was launched when the process ended is taken as done.
RestartWithoutLaunched ==
  /\ poller.pc = "down"
  /\ inflight' = [t \in Trigger |-> None]
  /\ Polls([pc |-> "recording", roots |-> Eligible, report |-> {}])
  /\ UNCHANGED <<triggers, baseline, pendingRoots, pending, execs, ghosts>> /\ NotWorld

\* The launched batches are the older ones: what waits is merged on top of them.
Restart ==
  /\ poller.pc = "down"
  /\ pending' = [t \in Trigger |-> IF pending[t] = None THEN inflight[t]
                                   ELSE merge_action_batch(inflight[t], pending[t])]
  /\ inflight' = [t \in Trigger |-> None]
  /\ baseline' = [r \in Root |-> IF roots[r].state = "restricted" THEN None ELSE baseline[r]]
  /\ waived' = [t \in Trigger |-> IF roots[HomeRoot[t]].state = "restricted" THEN File ELSE waived[t]]
  /\ Marked(IF \E t \in Trigger : pending[t] # None /\ CountsAgain(t, inflight[t]) THEN {"recounted"} ELSE {})
  /\ Polls([pc |-> "recording", roots |-> Eligible, report |-> {}])
  /\ UNCHANGED <<triggers, pendingRoots, execs, known, off, world, user, fresh>>

\* Before anything is polled each folder is recorded; what changed while nobody looked is for
\* the report, not for the triggers.
initialize_baseline(root) ==
  LET r == root.id
      found == IF ~RecordedAt(r, root.path) THEN {}
               ELSE {<<r, f>> : f \in FilesOf(compare_snapshots(baseline[r].files, disk[r]))}
  IN /\ poller.pc = "recording"
     /\ Polls([pc |-> "recording", roots |-> poller.roots \ {root}, report |-> poller.report \cup found])
     /\ baseline' = [baseline EXCEPT ![r] = [path |-> root.path, files |-> disk[r]]]
     /\ IF ~RecordedAt(r, root.path) THEN Waive(Watching(r), File) ELSE UNCHANGED waived
     /\ UNCHANGED <<triggers, pendingRoots, pending, inflight, execs, known, off>> /\ NotWorld

\* What the report names is for its reader.
save_offline_report ==
  /\ poller.pc = "recording" /\ poller.roots = {}
  /\ Polls([pc |-> "reporting"])
  /\ waived' = [t \in Trigger |-> waived[t] \cup {f \in File : <<HomeRoot[t], f>> \in poller.report}]
  /\ UNCHANGED <<store, execs, known, off>> /\ NotWorld

RefreshAfterReport ==
  /\ poller.pc = "reporting" /\ refresh_trigger_root_statuses /\ Polls([pc |-> "idle"])
  /\ UNCHANGED <<baseline, pendingRoots, pending, inflight, execs, ghosts>> /\ NotWorld

-----------------------------------------------------------------------------
World ==
  \/ \E r \in Root :
       \/ MoveRoot(r) \/ FallsQuiet(r)
       \/ \E f \in File : Edit(r, f)
       \/ Condition(r, "missing", "vanish") \/ Condition(r, "restricted", "restrict")
       \/ Condition(r, "fine", "vanish")
  \/ \E t \in Trigger : Drift(t) \/ CoolsDown(t) \/ WindowPasses(t)

Poller ==
  \/ PollBegins \/ ScanFails \/ replace_root_snapshot \/ LoadTriggers \/ dispatch_mature_batches
  \/ cooldown_ready_action_ids \/ pause_for_circuit_breaker \/ PollEnds
  \/ Restart \/ save_offline_report \/ RefreshAfterReport
  \/ /\ poller.pc \in {"scanning", "recording"}
     /\ \E root \in poller.roots : Rerecord(root) \/ Notice(root) \/ initialize_baseline(root)
  \/ \E t \in Trigger : drop_pending_action(t) \/ Hold(t) \/ claim_pending_batch(t)

Executors ==
  \E e \in execs :
    save_run(e) \/ execute_action(e) \/ update_trigger_failure_status(e) \/ launch_trigger_ends(e)

Calls ==
  /\ poller.pc # "down"
  /\ \/ ForgetBatch \/ TestEnds
     \/ \E t \in Trigger :
          create_trigger(t) \/ update_trigger(t) \/ enable_trigger(t) \/ disable_trigger(t)
          \/ delete_trigger(t) \/ test_trigger(t)

Next == World \/ Poller \/ Executors \/ Calls \/ Crash

Spec == Init /\ [][Next]_vars


\* The poll loop never ends, a thread that was launched ends its action, calls return, and times pass.
FairSpec ==
  /\ Spec /\ WF_vars(Poller) /\ WF_vars(Executors) /\ WF_vars(ForgetBatch \/ TestEnds)
  /\ \A r \in Root : WF_vars(FallsQuiet(r))
  /\ \A t \in Trigger : WF_vars(CoolsDown(t))

-----------------------------------------------------------------------------
(* Properties *)

\* Trigger t watches f, whose content its action has not learnt of.
Untold(t, f) ==
  /\ triggers[t] # None /\ f \notin waived[t]
  /\ disk[HomeRoot[t]][f] \notin known[t][f]

\* What will still find the change of f or carry it to t, in this process or after a restart.
OnItsWay(t, f) ==
  LET r == HomeRoot[t]
  IN \/ ~RecordedAt(r, roots[r].path) \/ baseline[r].files[f] # disk[r][f]
     \/ poller.pc = "advancing" /\ poller.root = r /\ poller.files[f] # disk[r][f]
     \/ f \in FilesOf(pendingRoots[r]) \cup BatchFiles(pending[t]) \cup BatchFiles(inflight[t])
     \/ poller.pc = "recording" /\ <<r, f>> \in poller.report

\* No change of a watched file is forgotten, whatever polls, launches, reviews, calls and
\* crashes interleave: it is told, dropped on purpose, or still found on disk
\* (poll_once saves before it records, claim_pending_batch, new).
NothingForgotten == \A t \in Trigger, f \in File : Untold(t, f) => OnItsWay(t, f)

\* The same, except after the five things the code does wrong: a reviewed batch put on top
\* of a newer one, a trigger approved again before its thread has ended, a crash between
\* the recording of a folder and the report, a removal merged onto an answered creation,
\* and a crash between the saving of a creation and the recording of its folder.
Excepted == Exceptions \cap events.past # {}

NothingElseForgotten == Excepted \/ NothingForgotten

\* A batch that waits under an event id which the other side has answered holds nothing that
\* was not told: its replay would swallow it (new, launch_trigger).
AnsweredIsNotReused ==
  \A t \in Trigger :
    pending[t] # None /\ <<t, pending[t].id>> \in heard
      => \A f \in BatchFiles(pending[t]) : ~Untold(t, f) \/ baseline[HomeRoot[t]].files[f] # disk[HomeRoot[t]][f]

\* A trigger runs in one thread at a time, and what it runs is on disk for a restart.
LaunchedIsSaved ==
  \A e \in execs :
    /\ \A other \in execs : other.trigger = e.trigger => other = e
    /\ triggers[e.trigger] # None => inflight[e.trigger] = e.batch

\* A trigger that a finished call has switched off or deleted is not launched any more, however
\* old the poller's copy of the triggers is (ForgetBatch after the store, gate_pending_action).
\* One that was only saved as disabled keeps its waiting batch: a poller that had chosen it
\* before may launch it after the call, once (update_trigger).
OffIsOff == [][\A e \in execs' \ execs : e.pc = "start" => e.trigger \notin off]_vars

\* A change that a live trigger watches is told in the end, or dropped on purpose.
EveryChangeArrives ==
  \A t \in Trigger, f \in File :
    Untold(t, f) ~> (~Untold(t, f) \/ ~Live(triggers, t) \/ roots[HomeRoot[t]].state # "fine"
                     \/ Excepted)
=============================================================================
