----------------------- MODULE DocumentAutomationProofs -----------------------
(***************************************************************************)
(* Theorems about DocumentAutomation, for any triggers, folders, files,    *)
(* limits and budgets: types, what is launched is saved, off is off, and   *)
(* no change is forgotten but for the five things the code does wrong.     *)
(*                                                                         *)
(* Each file of a trigger lies under layers: the launched batch, the       *)
(* waiting one, the changes of the folder.  What the top layer says of the *)
(* file, or what the action knows if there is none, is what the folder is  *)
(* recorded with.  A merge or a launch changes the layers, not the top.    *)
(***************************************************************************)
EXTENDS DocumentAutomation, TLAPS

\* The poller has chosen the triggers it looks at, or holds a copy of all of them.
Choosing == poller.pc \in {"dispatching", "breaking"}
Copying == poller.pc \in {"maturing", "dispatching", "breaking"}

Deleting(t) == user # None /\ user.op = "delete" /\ user.trigger = t
Unborn(t) == triggers[t] = None /\ t \notin off /\ ~Deleting(t)

Threads ==
  /\ \A e \in execs : e.pc = "start" => recent[e.trigger] < CIRCUIT_MAX_RUNS
  /\ poller.pc = "down" => execs = {} /\ user = None
  /\ poller.pc # "down" => \A t \in Trigger : inflight[t] # None => t \in running
  /\ Choosing => poller.ids \cap running = {}
Statuses ==
  \A t \in Trigger : triggers[t] # None /\ triggers[t].status = "active" => triggers[t].enabled
HalfDone ==
  user # None => /\ user.op = "delete" => triggers[user.trigger] = None
                 /\ user.op = "disable" => triggers[user.trigger] = None \/ ~triggers[user.trigger].enabled
UnbornIsUnknown ==
  \A t \in Trigger : Unborn(t) =>
    /\ pending[t] = None /\ inflight[t] = None /\ t \notin running
    /\ Copying => poller.triggers[t] = None
OffStays ==
  \A t \in off :
    /\ triggers[t] = None \/ ~triggers[t].enabled
    /\ Choosing /\ t \in poller.ids /\ Live(poller.triggers, t) => pending[t] = None
Launching == LaunchedIsSaved /\ Threads /\ Statuses /\ HalfDone /\ UnbornIsUnknown /\ OffStays
LaunchInv == TypeOK /\ Launching

-----------------------------------------------------------------------------
(* Types *)

\* What an event leaves of the budget, and what it marks.
LEMMA HappensTyped ==
  ASSUME HistoryOK, NEW kind \in Kind, NEW marks \in SUBSET Exceptions, HappensWith(kind, marks)
  PROVE  events' \in [left : [Kind \cup {AnyKind} -> Nat], past : SUBSET Exceptions]
<1> DEFINE Kinds == Kind \cup {AnyKind}
<1>1. events.left \in [Kinds -> Nat] /\ events.past \in SUBSET Exceptions
  BY DEF HistoryOK
<1>2. kind # AnyKind /\ kind \in Kinds /\ AnyKind \in Kinds
  BY DEF Kind, AnyKind
<1> HIDE DEF Kinds
<1>3. [events.left EXCEPT ![AnyKind] = @ - 1, ![kind] = @ - 1] \in [Kinds -> Nat]
  BY <1>1, <1>2 DEF HappensWith
<1> QED
  BY <1>1, <1>3 DEF HappensWith, Kinds

LEMMA MarkedTyped ==
  ASSUME HistoryOK, NEW marks \in SUBSET Exceptions, Marked(marks)
  PROVE  events' \in [left : [Kind \cup {AnyKind} -> Nat], past : SUBSET Exceptions]
BY DEF HistoryOK, Marked

\* What a scan finds, and what merging makes of changes and batches.
LEMMA ComparedTyped ==
  ASSUME NEW previous \in [File -> Nat], NEW current \in [File -> Nat]
  PROVE  compare_snapshots(previous, current) \in Changes
BY DEF compare_snapshots, Difference, Changes, Change, ChangeKind

LEMMA MergedTyped ==
  ASSUME NEW changes \in Changes, NEW next \in Changes
  PROVE  merge_changes(changes, next) \in Changes
<1>1. ASSUME NEW f \in File PROVE merge_change(changes[f], next[f]) \in Change \cup {None}
  <2>1. changes[f] \in Change \cup {None} /\ next[f] \in Change \cup {None}
    BY DEF Changes
  <2>2. next[f] \in Change /\ changes[f] \in Change => Merged(changes[f], next[f]) \in Change
    BY DEF Merged, Change, ChangeKind
  <2> QED
    BY <2>1, <2>2 DEF merge_change
<1> QED
  BY <1>1 DEF merge_changes, Changes

LEMMA BatchMergeTyped ==
  ASSUME NEW existing \in Batch \cup {None}, NEW incoming \in Batch
  PROVE  merge_action_batch(existing, incoming) \in Batch
<1>1. CASE existing = None
  BY <1>1 DEF merge_action_batch
<1>2. CASE existing # None
  BY <1>2, MergedTyped DEF merge_action_batch, Batch
<1> QED
  BY <1>1, <1>2

\* What the poller holds in each of its states.
LEMMA PollerTyped ==
  ASSUME ProcessOK
  PROVE  /\ poller.pc \in {"scanning", "advancing", "recording"} => poller.roots \in Folders
         /\ poller.pc = "advancing" => poller.root \in Root /\ poller.path \in Nat /\ poller.files \in [File -> Nat]
         /\ poller.pc \in {"maturing", "dispatching", "breaking"} => poller.triggers \in Copy
         /\ poller.pc \in {"dispatching", "breaking"} => poller.ids \in SUBSET Trigger
         /\ poller.pc = "breaking" => poller.trigger \in Trigger
         /\ poller.pc = "recording" => poller.report \in SUBSET (Root \X File)
BY DEF ProcessOK, PollerState

\* The world leaves the stores and the process alone.
LEMMA WorldTyped == TypeOK /\ World => TypeOK'
<1> SUFFICES ASSUME TypeOK, World PROVE TypeOK'
  OBVIOUS
<1> USE DEF TypeOK
<1>1. StoreOK' /\ ProcessOK'
  BY DEF World, MoveRoot, FallsQuiet, Edit, Condition, Drift, CoolsDown, WindowPasses,
         StoreOK, ProcessOK, store
<1>2. ASSUME NEW r \in Root, NEW f \in File, Edit(r, f) PROVE WorldOK' /\ HistoryOK'
  <2>1. events' \in [left : [Kind \cup {AnyKind} -> Nat], past : SUBSET Exceptions]
    BY <1>2, HappensTyped DEF Edit, Happens, Kind
  <2>2. fresh.content \in Nat /\ fresh' \in [content : Nat, id : Nat]
    BY <1>2 DEF Edit, HistoryOK
  <2>3. disk' \in [Root -> [File -> Nat]]
    <3>1. PICK v \in Nat : disk' = [disk EXCEPT ![r][f] = v]
      BY ONLY <1>2, <2>2 DEF Edit
    <3>2. disk \in [Root -> [File -> Nat]]
      BY DEF WorldOK
    <3> QED
      BY ONLY <3>1, <3>2
  <2> QED
    BY <1>2, <2>1, <2>2, <2>3 DEF Edit, WorldOK, HistoryOK, ghosts
<1>3. ASSUME NEW r \in Root, MoveRoot(r) PROVE WorldOK' /\ HistoryOK'
  <2>1. events' \in [left : [Kind \cup {AnyKind} -> Nat], past : SUBSET Exceptions]
    BY <1>3, HappensTyped DEF MoveRoot, Happens, Kind
  <2>2. fresh.content \in Nat /\ fresh' \in [content : Nat, id : Nat]
    BY <1>3 DEF MoveRoot, HistoryOK
  <2>3. disk' \in [Root -> [File -> Nat]]
    BY <1>3, <2>2 DEF MoveRoot, WorldOK
  <2>4. roots' \in [Root -> [state : {"fine", "missing", "restricted"}, path : Nat]]
    BY <1>3 DEF MoveRoot, WorldOK
  <2> QED
    BY <1>3, <2>1, <2>2, <2>3, <2>4 DEF MoveRoot, WorldOK, HistoryOK, ghosts
<1>4. ASSUME NEW r \in Root, NEW state \in {"fine", "missing", "restricted"}, NEW kind \in {"vanish", "restrict"},
             Condition(r, state, kind)
      PROVE  WorldOK' /\ HistoryOK'
  <2>1. events' \in [left : [Kind \cup {AnyKind} -> Nat], past : SUBSET Exceptions]
    <3>1. CASE Happens(kind)
      <4>1. HappensWith(kind, {}) /\ kind \in Kind
        BY <3>1 DEF Happens, Kind
      <4> QED
        BY <4>1, HappensTyped
    <3>2. CASE UNCHANGED events
      BY <3>2 DEF HistoryOK
    <3> QED
      BY <1>4, <3>1, <3>2 DEF Condition
  <2>2. roots' \in [Root -> [state : {"fine", "missing", "restricted"}, path : Nat]]
    BY <1>4 DEF Condition, WorldOK
  <2>3. WorldOK'
    BY <1>4, <2>2 DEF Condition, WorldOK
  <2> QED
    BY <1>4, <2>1, <2>3 DEF Condition, HistoryOK, ghosts
<1>5. ASSUME NEW t \in Trigger, Drift(t) PROVE WorldOK' /\ HistoryOK'
  <2>1. events' \in [left : [Kind \cup {AnyKind} -> Nat], past : SUBSET Exceptions]
    BY <1>5, HappensTyped DEF Drift, Happens, Kind
  <2> QED
    BY <1>5, <2>1 DEF Drift, WorldOK, HistoryOK, ghosts
<1>6. ASSUME NEW r \in Root, FallsQuiet(r) PROVE WorldOK' /\ HistoryOK'
  <2>1. quiet' \subseteq Root
    BY <1>6 DEF FallsQuiet, WorldOK
  <2> QED
    BY <1>6, <2>1 DEF FallsQuiet, WorldOK, HistoryOK, ghosts
<1>7. ASSUME NEW t \in Trigger, CoolsDown(t) \/ WindowPasses(t) PROVE WorldOK' /\ HistoryOK'
  <2>1. cool' \in [Trigger -> BOOLEAN]
    BY <1>7 DEF CoolsDown, WindowPasses, WorldOK
  <2>2. recent' \in [Trigger -> 0 .. CIRCUIT_MAX_RUNS]
    BY <1>7, DocumentAssumption DEF CoolsDown, WindowPasses, WorldOK
  <2> QED
    BY <1>7, <2>1, <2>2 DEF CoolsDown, WindowPasses, WorldOK, HistoryOK, ghosts
<1> QED
  BY <1>1, <1>2, <1>3, <1>4, <1>5, <1>6, <1>7 DEF World

\* What the state of its folder makes of a trigger.
LEMMA StatusTyped ==
  ASSUME TypeOK, NEW t \in Trigger, triggers[t] # None
  PROVE  desired_root_status(t) \in Status
<1>1. triggers[t].status \in Status
  BY DEF TypeOK, StoreOK, Copy, TriggerRecord
<1> QED
  BY <1>1 DEF desired_root_status, Status

LEMMA RefreshTyped == TypeOK /\ refresh_trigger_root_statuses => triggers' \in Copy
<1> SUFFICES ASSUME TypeOK, refresh_trigger_root_statuses, NEW t \in Trigger, triggers[t] # None
             PROVE  triggers'[t] \in TriggerRecord
  BY DEF refresh_trigger_root_statuses, Copy
<1>1. triggers[t] \in TriggerRecord
  BY DEF TypeOK, StoreOK, Copy
<1>2. triggers'[t] = [triggers[t] EXCEPT !.status = desired_root_status(t)]
  BY DEF refresh_trigger_root_statuses
<1> QED
  BY <1>1, <1>2, StatusTyped DEF TriggerRecord

LEMMA WaiveTyped ==
  ASSUME TypeOK, NEW T, NEW F \in SUBSET File, Waive(T, F)
  PROVE  waived' \in [Trigger -> SUBSET File]
BY DEF TypeOK, HistoryOK, Waive

LEMMA FilesTyped ==
  /\ \A changes : FilesOf(changes) \in SUBSET File
  /\ \A batch : BatchFiles(batch) \in SUBSET File
BY DEF FilesOf, BatchFiles

\* The steps of the poller.
LEMMA ScanTyped ==
  ASSUME TypeOK, poller.pc \in {"scanning", "recording"}, NEW root \in poller.roots,
         Rerecord(root) \/ Notice(root) \/ initialize_baseline(root)
  PROVE  TypeOK'
<1> USE DEF TypeOK
<1>1. poller.roots \in Folders /\ root.id \in Root /\ root.path \in Nat
  BY PollerTyped DEF Folders
<1>2. disk[root.id] \in [File -> Nat]
  BY <1>1 DEF WorldOK
<1>3. Scanned(root) => poller' \in PollerState
  <2>1. poller.roots \ {root} \in Folders
    BY <1>1 DEF Folders
  <2> QED
    BY <1>1, <1>2, <2>1 DEF Scanned, Polls, PollerState
<1>4. CASE Rerecord(root)
  <2>1. waived' \in [Trigger -> SUBSET File]
    BY <1>4, WaiveTyped DEF Rerecord
  <2> QED
    BY <1>1, <1>3, <1>4, <2>1 DEF Rerecord, NotWorld, world, StoreOK, WorldOK, ProcessOK, HistoryOK
<1>5. CASE Notice(root)
  <2> DEFINE changes == compare_snapshots(baseline[root.id].files, disk[root.id])
             waiting == IF pendingRoots[root.id] = None THEN NoChanges ELSE pendingRoots[root.id]
  <2>1. baseline[root.id] \in Recorded
    BY <1>1, <1>5 DEF Notice, RecordedAt, StoreOK
  <2>2. changes \in Changes
    BY <1>2, <2>1, ComparedTyped DEF Recorded
  <2>3. waiting \in Changes
    BY <1>1 DEF NoChanges, Changes, StoreOK
  <2>4. merge_changes(waiting, changes) \in Changes
    BY <2>2, <2>3, MergedTyped
  <2>5. poller' \in PollerState
    <3>1. poller.roots \ {root} \in Folders
      BY <1>1 DEF Folders
    <3> QED
      BY <1>3, <1>5, <3>1 DEF Notice, Polls, PollerState
  <2>6. pendingRoots' \in [Root -> Changes \cup {None}]
    BY <1>1, <1>5, <2>4 DEF Notice, StoreOK
  <2> QED
    BY <1>5, <2>5, <2>6 DEF Notice, ghosts, StoreOK, WorldOK, ProcessOK, HistoryOK
<1>6. CASE initialize_baseline(root)
  <2>1. waived' \in [Trigger -> SUBSET File]
    BY <1>6, WaiveTyped DEF initialize_baseline, HistoryOK
  <2>2. poller' \in PollerState
    <3>1. poller.roots \ {root} \in Folders
      BY <1>1 DEF Folders
    <3>2. poller.report \in SUBSET (Root \X File)
      BY <1>6, PollerTyped DEF initialize_baseline
    <3> QED
      BY <1>1, <1>6, <3>1, <3>2, FilesTyped DEF initialize_baseline, Polls, PollerState
  <2>3. baseline' \in [Root -> Recorded \cup {None}]
    BY <1>1, <1>2, <1>6 DEF initialize_baseline, StoreOK, Recorded
  <2> QED
    BY <1>6, <2>1, <2>2, <2>3 DEF initialize_baseline, NotWorld, world, StoreOK, WorldOK, ProcessOK, HistoryOK
<1> QED
  BY <1>4, <1>5, <1>6

LEMMA FoldersTyped == TypeOK => Eligible \in Folders
BY DEF TypeOK, WorldOK, Eligible, Folders

\* The other steps of a poll.
LEMMA PollTyped ==
  /\ TypeOK
  /\ \/ PollBegins \/ ScanFails \/ replace_root_snapshot \/ LoadTriggers \/ cooldown_ready_action_ids
     \/ pause_for_circuit_breaker \/ PollEnds \/ RefreshAfterReport
  => TypeOK'
<1> SUFFICES ASSUME TypeOK,
                    \/ PollBegins \/ ScanFails \/ replace_root_snapshot \/ LoadTriggers
                    \/ cooldown_ready_action_ids \/ pause_for_circuit_breaker \/ PollEnds \/ RefreshAfterReport
             PROVE  TypeOK'
  OBVIOUS
<1> USE DEF TypeOK, Polls
<1>1. triggers \in Copy
  BY DEF StoreOK
<1>2. CASE PollBegins \/ RefreshAfterReport
  <2>1. triggers' \in Copy
    BY <1>2, RefreshTyped DEF PollBegins, RefreshAfterReport
  <2>2. poller' \in PollerState
    BY <1>2, FoldersTyped DEF PollBegins, RefreshAfterReport, PollerState
  <2> QED
    BY <1>2, <2>1, <2>2 DEF PollBegins, RefreshAfterReport, NotWorld, world, ghosts, StoreOK, WorldOK, ProcessOK, HistoryOK
<1>3. CASE ScanFails
  <2>1. events' \in [left : [Kind \cup {AnyKind} -> Nat], past : SUBSET Exceptions]
    BY <1>3, HappensTyped DEF ScanFails, Happens, Kind
  <2> QED
    BY <1>3, <2>1 DEF ScanFails, PollerState, store, world, ghosts, StoreOK, WorldOK, ProcessOK, HistoryOK
<1>4. CASE replace_root_snapshot
  <2>1. /\ poller.root \in Root /\ poller.path \in Nat /\ poller.files \in [File -> Nat]
        /\ poller.roots \in Folders
    BY <1>4, PollerTyped DEF replace_root_snapshot
  <2>2. poller' \in PollerState
    BY <1>4, <2>1 DEF replace_root_snapshot, PollerState
  <2>3. baseline' \in [Root -> Recorded \cup {None}]
    BY <1>4, <2>1 DEF replace_root_snapshot, StoreOK, Recorded
  <2> QED
    BY <1>4, <2>2, <2>3 DEF replace_root_snapshot, NotWorld, world, ghosts, StoreOK, WorldOK, ProcessOK, HistoryOK
<1>5. CASE LoadTriggers \/ cooldown_ready_action_ids
  <2>1. poller' \in PollerState
    BY <1>1, <1>5 DEF LoadTriggers, cooldown_ready_action_ids, PollerState
  <2> QED
    BY <1>5, <2>1 DEF LoadTriggers, cooldown_ready_action_ids, NotWorld, store, world, ghosts, StoreOK, WorldOK, ProcessOK, HistoryOK
<1>6. CASE pause_for_circuit_breaker
  <2>1. poller.triggers \in Copy /\ poller.ids \in SUBSET Trigger /\ poller.trigger \in Trigger
    BY <1>6, PollerTyped DEF pause_for_circuit_breaker
  <2>2. poller' \in PollerState
    BY <1>6, <2>1 DEF pause_for_circuit_breaker, PollerState
  <2>3. triggers' \in Copy
    BY <1>1, <1>6, <2>1 DEF pause_for_circuit_breaker, Copy, TriggerRecord, Status
  <2> QED
    BY <1>6, <2>2, <2>3 DEF pause_for_circuit_breaker, NotWorld, world, ghosts, StoreOK, WorldOK, ProcessOK, HistoryOK
<1>7. CASE PollEnds
  BY <1>7 DEF PollEnds, PollerState, NotWorld, store, world, ghosts, StoreOK, WorldOK, ProcessOK, HistoryOK
<1> QED
  BY <1>2, <1>3, <1>4, <1>5, <1>6, <1>7

LEMMA DispatchTyped == TypeOK /\ dispatch_mature_batches => TypeOK'
<1> SUFFICES ASSUME TypeOK, dispatch_mature_batches PROVE TypeOK'
  OBVIOUS
<1> USE DEF TypeOK
<1>1. pendingRoots' \in [Root -> Changes \cup {None}]
  BY DEF dispatch_mature_batches, StoreOK
<1>2. pending' \in [Trigger -> Batch \cup {None}]
  <2> SUFFICES ASSUME NEW t \in Trigger, pendingRoots[HomeRoot[t]] # None
               PROVE  merge_action_batch(pending[t], [id |-> fresh.id, changes |-> pendingRoots[HomeRoot[t]]]) \in Batch
    BY DocumentAssumption DEF dispatch_mature_batches, StoreOK, Live
  <2>1. pendingRoots[HomeRoot[t]] \in Changes
    BY DocumentAssumption DEF StoreOK
  <2>2. [id |-> fresh.id, changes |-> pendingRoots[HomeRoot[t]]] \in Batch
    BY <2>1 DEF Batch, HistoryOK
  <2> QED
    BY <2>2, BatchMergeTyped DEF StoreOK
<1>3. waived' \in [Trigger -> SUBSET File]
  BY FilesTyped DEF dispatch_mature_batches, HistoryOK
<1>4. fresh' \in [content : Nat, id : Nat]
  BY DEF dispatch_mature_batches, HistoryOK
<1>5. events' \in [left : [Kind \cup {AnyKind} -> Nat], past : SUBSET Exceptions]
  BY MarkedTyped DEF dispatch_mature_batches, Exceptions
<1>6. quiet' \subseteq Root
  BY DEF dispatch_mature_batches, WorldOK
<1> QED
  BY <1>1, <1>2, <1>3, <1>4, <1>5, <1>6
  DEF dispatch_mature_batches, Polls, PollerState, StoreOK, WorldOK, ProcessOK, HistoryOK

\* The steps of a dispatch for one trigger.
LEMMA GateTyped ==
  ASSUME TypeOK, NEW t \in Trigger, drop_pending_action(t) \/ Hold(t) \/ claim_pending_batch(t)
  PROVE  TypeOK'
<1> USE DEF TypeOK, Polls
<1>1. poller.pc = "dispatching" /\ poller.triggers \in Copy /\ poller.ids \in SUBSET Trigger
  BY PollerTyped DEF drop_pending_action, Hold, claim_pending_batch, Dispatching
<1>2. DoneWith(t) \in PollerState
  BY <1>1 DEF DoneWith, ProcessOK, PollerState
<1>3. CASE drop_pending_action(t)
  <2>1. poller' \in PollerState
    BY <1>1, <1>2, <1>3 DEF drop_pending_action, PollerState
  <2>2. pending' \in [Trigger -> Batch \cup {None}]
    BY <1>3 DEF drop_pending_action, StoreOK
  <2>3. waived' \in [Trigger -> SUBSET File]
    BY <1>3, WaiveTyped, FilesTyped DEF drop_pending_action
  <2> QED
    BY <1>3, <2>1, <2>2, <2>3 DEF drop_pending_action, NotWorld, world, StoreOK, WorldOK, ProcessOK, HistoryOK
<1>4. CASE Hold(t)
  BY <1>2, <1>4 DEF Hold, NotWorld, store, world, ghosts, StoreOK, WorldOK, ProcessOK, HistoryOK
<1>5. CASE claim_pending_batch(t)
  <2>1. poller' \in PollerState
    BY <1>2, <1>5 DEF claim_pending_batch
  <2>2. pending' \in [Trigger -> Batch \cup {None}] /\ inflight' \in [Trigger -> Batch \cup {None}]
    BY <1>5 DEF claim_pending_batch, StoreOK
  <2>3. execs' \subseteq Thread
    <3>1. pending[t] # None => [trigger |-> t, batch |-> pending[t], pc |-> "start"] \in Thread
      BY DEF StoreOK, Thread
    <3> QED
      BY <1>5, <3>1 DEF claim_pending_batch, ProcessOK
  <2>4. off' \subseteq Trigger
    BY <1>5 DEF claim_pending_batch, HistoryOK
  <2> QED
    BY <1>5, <2>1, <2>2, <2>3, <2>4 DEF claim_pending_batch, NotWorld, world, StoreOK, WorldOK, ProcessOK, HistoryOK
<1> QED
  BY <1>3, <1>4, <1>5

\* The thread of a trigger. A thread that starts has a run left before the circuit breaks.
LEMMA ThreadTyped ==
  ASSUME TypeOK, Threads, NEW e \in execs,
         save_run(e) \/ execute_action(e) \/ update_trigger_failure_status(e) \/ launch_trigger_ends(e)
  PROVE  TypeOK'
<1> USE DEF TypeOK
<1>1. e.trigger \in Trigger /\ e.batch \in Batch /\ e.batch.id \in Nat
  BY DEF ProcessOK, Thread, Batch
<1>2. \A pc \in {"act", "mark", "settle"} : Becomes(e, pc) => execs' \subseteq Thread
  BY DEF Becomes, ProcessOK, Thread
<1>3. CASE save_run(e)
  <2>1. recent[e.trigger] < CIRCUIT_MAX_RUNS
    BY <1>3 DEF save_run, Threads
  <2>2. recent' \in [Trigger -> 0 .. CIRCUIT_MAX_RUNS]
    BY <1>1, <1>3, <2>1, DocumentAssumption DEF save_run, WorldOK
  <2>3. cool' \in [Trigger -> BOOLEAN]
    BY <1>3 DEF save_run, WorldOK
  <2>4. execs' \subseteq Thread
    BY <1>2, <1>3 DEF save_run
  <2> QED
    BY <1>3, <2>2, <2>3, <2>4 DEF save_run, store, ghosts, StoreOK, WorldOK, ProcessOK, HistoryOK
<1>4. CASE execute_action(e)
  <2>1. execs' \subseteq Thread
    BY <1>2, <1>4 DEF execute_action
  <2>2. waived' \in [Trigger -> SUBSET File]
    BY <1>4, WaiveTyped, FilesTyped DEF execute_action, HistoryOK
  <2>3. heard' \subseteq Trigger \X Nat
    BY <1>1, <1>4 DEF execute_action, idempotency_key, WorldOK
  <2>4. events' \in [left : [Kind \cup {AnyKind} -> Nat], past : SUBSET Exceptions]
    BY <1>4, HappensTyped DEF execute_action, Happens, Kind, HistoryOK
  <2>5. known' \in [Trigger -> [File -> SUBSET Nat]]
    <3>1. disk[HomeRoot[e.trigger]] \in [File -> Nat]
      BY <1>1, DocumentAssumption DEF WorldOK
    <3>2. \A f \in BatchFiles(e.batch) : f \in File /\ e.batch.changes[f].content \in Nat
      BY <1>1 DEF BatchFiles, FilesOf, Batch, Changes, Change
    <3>3. [f \in File |-> IF f \in BatchFiles(e.batch) /\ idempotency_key(e) \notin heard
                          THEN {e.batch.changes[f].content, disk[HomeRoot[e.trigger]][f]} ELSE known[e.trigger][f]]
          \in [File -> SUBSET Nat]
      BY <1>1, <3>1, <3>2 DEF HistoryOK
    <3> QED
      BY <1>1, <1>4, <3>3 DEF execute_action, HistoryOK
  <2> QED
    BY <1>4, <2>1, <2>2, <2>3, <2>4, <2>5 DEF execute_action, store, StoreOK, WorldOK, ProcessOK, HistoryOK
<1>5. CASE update_trigger_failure_status(e)
  <2>1. execs' \subseteq Thread
    BY <1>2, <1>5 DEF update_trigger_failure_status
  <2>2. triggers' \in Copy
    <3>1. triggers \in [Trigger -> TriggerRecord \cup {None}] /\ e.trigger \in Trigger
      BY <1>1 DEF StoreOK, Copy
    <3> DEFINE marked == IF triggers[e.trigger] = None THEN None
                         ELSE [triggers[e.trigger] EXCEPT !.status = "needsReview"]
    <3>2. triggers' = [triggers EXCEPT ![e.trigger] = marked]
      BY <1>5 DEF update_trigger_failure_status, NeedsReview
    <3>3. marked \in TriggerRecord \cup {None}
      BY <3>1 DEF TriggerRecord, Status
    <3> HIDE DEF marked
    <3> QED
      BY <3>1, <3>2, <3>3 DEF Copy
  <2> QED
    <3>1. StoreOK' /\ ProcessOK'
      BY <1>5, <2>1, <2>2 DEF update_trigger_failure_status, StoreOK, ProcessOK
    <3>2. WorldOK' /\ HistoryOK'
      BY <1>5 DEF update_trigger_failure_status, world, ghosts, WorldOK, HistoryOK
    <3> QED
      BY <3>1, <3>2
<1>6. CASE launch_trigger_ends(e)
  <2>1. pending' \in [Trigger -> Batch \cup {None}] /\ inflight' \in [Trigger -> Batch \cup {None}]
    <3>1. merge_action_batch(pending[e.trigger], e.batch) \in Batch
      BY <1>1, BatchMergeTyped DEF StoreOK
    <3> QED
      BY <1>1, <1>6, <3>1 DEF launch_trigger_ends, StoreOK
  <2>2. waived' \in [Trigger -> SUBSET File]
    BY <1>6, WaiveTyped, FilesTyped DEF launch_trigger_ends
  <2>3. events' \in [left : [Kind \cup {AnyKind} -> Nat], past : SUBSET Exceptions]
    BY <1>6, MarkedTyped DEF launch_trigger_ends, Exceptions
  <2>4. execs' \subseteq Thread
    BY <1>6 DEF launch_trigger_ends, ProcessOK
  <2> QED
    BY <1>6, <2>1, <2>2, <2>3, <2>4 DEF launch_trigger_ends, world, StoreOK, WorldOK, ProcessOK, HistoryOK
<1> QED
  BY <1>3, <1>4, <1>5, <1>6

\* A trigger that is saved is as enabled as it was sent, and off only if it is not, and was
\* off before or has not been chosen by the poller.
LEMMA SavedInput ==
  ASSUME TypeOK, NEW t \in Trigger, NEW enabled \in BOOLEAN, SaveInput(t, enabled)
  PROVE  /\ triggers' \in Copy /\ off' \subseteq Trigger
         /\ triggers'[t] # None /\ triggers'[t].enabled = enabled
         /\ triggers'[t].status = "active" => enabled
         /\ \A x \in Trigger \ {t} : triggers'[x] = triggers[x] /\ (x \in off' <=> x \in off)
         /\ t \in off' => ~enabled /\ (t \in off \/ ~Chosen(t))
<1>1. from_enabled(enabled) \in TriggerRecord
  BY DEF from_enabled, TriggerRecord, Status
<1>2. /\ from_enabled(enabled).enabled = enabled
      /\ from_enabled(enabled).status = "active" => enabled
  BY DEF from_enabled
<1>3. from_enabled(enabled) # None
  BY <1>1, DocumentAssumption
<1>4. triggers' = [triggers EXCEPT ![t] = from_enabled(enabled)] /\ triggers \in Copy
  BY DEF SaveInput, TypeOK, StoreOK
<1>5. off' = IF enabled THEN off \ {t} ELSE IF Chosen(t) THEN off ELSE off \cup {t}
  BY DEF SaveInput
<1>6. off' \subseteq Trigger
  BY <1>5 DEF TypeOK, HistoryOK
<1>7. triggers' \in Copy /\ triggers'[t] = from_enabled(enabled) /\ \A x \in Trigger \ {t} : triggers'[x] = triggers[x]
  BY <1>1, <1>4 DEF Copy
<1> QED
  BY <1>2, <1>3, <1>5, <1>6, <1>7


\* The calls of the user.
LEMMA CallsTyped == TypeOK /\ Calls => TypeOK'
<1> SUFFICES ASSUME TypeOK, Calls PROVE TypeOK'
  OBVIOUS
<1> USE DEF TypeOK
<1> DEFINE EventsTyped == events' \in [left : [Kind \cup {AnyKind} -> Nat], past : SUBSET Exceptions]
<1>b. triggers \in Copy /\ events \in [left : [Kind \cup {AnyKind} -> Nat], past : SUBSET Exceptions]
  BY DEF StoreOK, HistoryOK
<1>a. /\ [enabled |-> TRUE, status |-> "active"] \in TriggerRecord
      /\ [enabled |-> FALSE, status |-> "paused"] \in TriggerRecord
  BY DEF TriggerRecord, Status
<1>1. CASE ForgetBatch
  <2>1. user \in Call /\ user.trigger \in Trigger
    BY <1>1 DEF ForgetBatch, ProcessOK, Call
  <2>2. pending' \in [Trigger -> Batch \cup {None}] /\ inflight' \in [Trigger -> Batch \cup {None}]
    BY <1>1 DEF ForgetBatch, StoreOK
  <2>3. waived' \in [Trigger -> SUBSET File]
    BY <1>1, WaiveTyped, FilesTyped DEF ForgetBatch
  <2>4. off' \subseteq Trigger
    BY <1>1, <2>1 DEF ForgetBatch, HistoryOK
  <2> QED
    BY <1>1, <2>2, <2>3, <2>4 DEF ForgetBatch, NotDisk, world, StoreOK, WorldOK, ProcessOK, HistoryOK
<1>2. CASE TestEnds
  <2>1. triggers' \in Copy
    BY <1>b, <1>2 DEF TestEnds, NeedsReview, Copy, TriggerRecord, Status
  <2> QED
    BY <1>2, <2>1 DEF TestEnds, NotDisk, world, ghosts, StoreOK, WorldOK, ProcessOK, HistoryOK
<1>3. ASSUME NEW t \in Trigger, create_trigger(t) PROVE TypeOK'
  <2>1. EventsTyped
    BY <1>3, HappensTyped DEF create_trigger, Happens, Kind
  <2>2. triggers' \in Copy /\ off' \subseteq Trigger
    BY <1>3, SavedInput DEF create_trigger
  <2>3. known' \in [Trigger -> [File -> SUBSET Nat]]
    <3>1. disk[HomeRoot[t]] \in [File -> Nat]
      BY DocumentAssumption DEF WorldOK
    <3>2. [f \in File |-> {disk[HomeRoot[t]][f]}] \in [File -> SUBSET Nat]
      BY <3>1
    <3> QED
      BY <1>3, <3>2 DEF create_trigger, HistoryOK
  <2>4. waived' \in [Trigger -> SUBSET File]
    BY <1>3, FilesTyped DEF create_trigger, Waive, HistoryOK
  <2> QED
    BY <1>3, <2>1, <2>2, <2>3, <2>4 DEF create_trigger, NotDisk, world, StoreOK, WorldOK, ProcessOK, HistoryOK
<1>4. ASSUME NEW t \in Trigger, update_trigger(t) \/ enable_trigger(t) PROVE TypeOK'
  <2>1. EventsTyped
    BY <1>4, HappensTyped DEF update_trigger, enable_trigger, Happens, Kind
  <2>2. triggers' \in Copy /\ off' \subseteq Trigger
    <3>1. CASE update_trigger(t)
      BY <3>1, SavedInput DEF update_trigger
    <3>2. CASE enable_trigger(t)
      BY <1>b, <1>a, <3>2 DEF enable_trigger, Copy, HistoryOK
    <3> QED
      BY <1>4, <3>1, <3>2
  <2>3. valid' \in [Trigger -> BOOLEAN]
    BY <1>4 DEF update_trigger, enable_trigger, NotDisk, world, WorldOK
  <2> QED
    BY <1>4, <2>1, <2>2, <2>3 DEF update_trigger, enable_trigger, NotDisk, world, StoreOK, WorldOK, ProcessOK, HistoryOK
<1>5. ASSUME NEW t \in Trigger, disable_trigger(t) \/ delete_trigger(t) \/ test_trigger(t) PROVE TypeOK'
  <2>1. EventsTyped
    BY <1>5, HappensTyped DEF disable_trigger, delete_trigger, test_trigger, Happens, Kind
  <2>2. triggers' \in Copy
    BY <1>b, <1>a, <1>5 DEF disable_trigger, delete_trigger, test_trigger, Copy
  <2>3. user' \in Call
    BY <1>5 DEF disable_trigger, delete_trigger, test_trigger, Call
  <2> QED
    BY <1>5, <2>1, <2>2, <2>3
    DEF disable_trigger, delete_trigger, test_trigger, NotDisk, world, ghosts, StoreOK, WorldOK, ProcessOK, HistoryOK
<1> QED
  BY <1>1, <1>2, <1>3, <1>4, <1>5 DEF Calls

\* The end of the process and what a new one does first.
LEMMA RestartTyped == TypeOK /\ (Crash \/ Restart \/ save_offline_report) => TypeOK'
<1> SUFFICES ASSUME TypeOK, Crash \/ Restart \/ save_offline_report PROVE TypeOK'
  OBVIOUS
<1> USE DEF TypeOK, Polls
<1>1. CASE Crash
  <2>1. events' \in [left : [Kind \cup {AnyKind} -> Nat], past : SUBSET Exceptions]
    BY <1>1, HappensTyped DEF Crash, Kind, Exceptions
  <2>2. off' \subseteq Trigger
    BY <1>1 DEF Crash, HistoryOK, ProcessOK, Call
  <2> QED
    BY <1>1, <2>1, <2>2 DEF Crash, PollerState, store, world, StoreOK, WorldOK, ProcessOK, HistoryOK
<1>2. CASE Restart
  <2>1. events' \in [left : [Kind \cup {AnyKind} -> Nat], past : SUBSET Exceptions]
    BY <1>2, MarkedTyped DEF Restart, Exceptions
  <2>2. pending' \in [Trigger -> Batch \cup {None}] /\ inflight' \in [Trigger -> Batch \cup {None}]
    <3>1. \A t \in Trigger : pending[t] # None => merge_action_batch(inflight[t], pending[t]) \in Batch
      BY BatchMergeTyped DEF StoreOK
    <3> QED
      BY <1>2, <3>1 DEF Restart, StoreOK
  <2>3. baseline' \in [Root -> Recorded \cup {None}]
    BY <1>2 DEF Restart, StoreOK
  <2>4. waived' \in [Trigger -> SUBSET File]
    BY <1>2 DEF Restart, HistoryOK
  <2>5. poller' \in PollerState
    BY <1>2, FoldersTyped DEF Restart, PollerState
  <2> QED
    BY <1>2, <2>1, <2>2, <2>3, <2>4, <2>5 DEF Restart, world, StoreOK, WorldOK, ProcessOK, HistoryOK
<1>3. CASE save_offline_report
  <2>1. waived' \in [Trigger -> SUBSET File]
    BY <1>3 DEF save_offline_report, HistoryOK
  <2> QED
    BY <1>3, <2>1 DEF save_offline_report, PollerState, NotWorld, store, world, StoreOK, WorldOK, ProcessOK, HistoryOK
<1> QED
  BY <1>1, <1>2, <1>3

LEMMA NextTyped == TypeOK /\ Threads /\ [Next]_vars => TypeOK'
<1> SUFFICES ASSUME TypeOK, Threads, [Next]_vars PROVE TypeOK'
  OBVIOUS
<1>1. CASE Poller
  BY <1>1, PollTyped, ScanTyped, DispatchTyped, GateTyped, RestartTyped DEF Poller
<1>2. CASE Executors
  BY <1>2, ThreadTyped DEF Executors
<1>3. CASE UNCHANGED vars
  BY <1>3 DEF vars, store, world, ghosts, TypeOK, StoreOK, WorldOK, ProcessOK, HistoryOK
<1> QED
  BY <1>1, <1>2, <1>3, WorldTyped, CallsTyped, RestartTyped DEF Next

LEMMA InitTyped == Init => TypeOK
<1> SUFFICES ASSUME Init PROVE TypeOK
  OBVIOUS
<1>1. StoreOK
  <2>1. triggers \in Copy
    <3>1. [enabled |-> TRUE, status |-> "active"] \in TriggerRecord
      BY DEF TriggerRecord, Status
    <3> QED
      BY <3>1 DEF Init, Copy
  <2>2. baseline \in [Root -> Recorded \cup {None}]
    BY DEF Init, Recorded
  <2> QED
    BY <2>1, <2>2 DEF Init, StoreOK
<1>2. WorldOK
  BY DocumentAssumption DEF Init, WorldOK
<1>3. ProcessOK
  BY DEF Init, ProcessOK, PollerState
<1>4. HistoryOK
  <2>1. known \in [Trigger -> [File -> SUBSET Nat]]
    BY <1>2, DocumentAssumption DEF Init, WorldOK
  <2>2. events \in [left : [Kind \cup {AnyKind} -> Nat], past : SUBSET Exceptions]
    <3>1. PICK budget \in Budgets : events = [left |-> budget, past |-> {}]
      BY DEF Init
    <3>2. budget \in [Kind \cup {AnyKind} -> Nat]
      BY DocumentAssumption
    <3> QED
      BY <3>1, <3>2
  <2> QED
    BY <2>1, <2>2 DEF Init, HistoryOK
<1> QED
  BY <1>1, <1>2, <1>3, <1>4 DEF TypeOK

-----------------------------------------------------------------------------
(* What is launched *)

launchVars == <<pending, inflight, execs, user, off, recent>>

\* Which triggers there are, and which of them are enabled.
SameTriggers ==
  \A t \in Trigger : /\ triggers'[t] = None <=> triggers[t] = None
                     /\ triggers[t] # None => triggers'[t].enabled = triggers[t].enabled

\* Steps of the poller that launch nothing and choose nothing.
LEMMA NotLaunching ==
  ASSUME LaunchInv, SameTriggers, Statuses', UNCHANGED launchVars, poller.pc # "down",
         poller'.pc \notin {"down", "maturing", "dispatching", "breaking"}
  PROVE  Launching'
<1> USE DEF LaunchInv, Launching, SameTriggers, launchVars
<1>1. user # None => user.trigger \in Trigger
  BY DEF TypeOK, ProcessOK, Call
<1>2. execs \subseteq Thread /\ off \subseteq Trigger
  BY DEF TypeOK, ProcessOK, HistoryOK
<1>3. LaunchedIsSaved'
  BY <1>2 DEF LaunchedIsSaved, Thread
<1>4. Threads'
  BY DEF Threads, Choosing, running
<1>5. HalfDone'
  BY <1>1 DEF HalfDone
<1>6. UnbornIsUnknown'
  BY DEF UnbornIsUnknown, Unborn, Deleting, Copying, running
<1>7. OffStays'
  BY <1>2 DEF OffStays, Choosing
<1> QED
  BY <1>3, <1>4, <1>5, <1>6, <1>7

LEMMA WorldLaunches == LaunchInv /\ World => Launching'
<1> SUFFICES ASSUME LaunchInv, World PROVE Launching'
  OBVIOUS
<1>1. /\ UNCHANGED <<triggers, pending, inflight, execs, user, off, poller>>
      /\ \A t \in Trigger : recent'[t] = recent[t] \/ recent'[t] = 0
  BY DEF World, Edit, MoveRoot, Condition, Drift, FallsQuiet, CoolsDown, WindowPasses, store, ghosts,
         LaunchInv, TypeOK, WorldOK
<1>2. Threads'
  BY <1>1, DocumentAssumption DEF LaunchInv, Launching, Threads, Choosing, running, TypeOK, ProcessOK, Thread
<1> QED
  BY <1>1, <1>2 DEF LaunchInv, Launching, LaunchedIsSaved, Statuses, HalfDone, UnbornIsUnknown, Unborn, Deleting,
     OffStays, Choosing, Copying, running, Live

LEMMA RefreshLaunches == LaunchInv /\ refresh_trigger_root_statuses => SameTriggers /\ Statuses'
<1> SUFFICES ASSUME LaunchInv, refresh_trigger_root_statuses, NEW t \in Trigger
             PROVE  /\ triggers'[t] = None <=> triggers[t] = None
                    /\ triggers[t] # None => triggers'[t].enabled = triggers[t].enabled
                    /\ triggers'[t] # None /\ triggers'[t].status = "active" => triggers'[t].enabled
  BY DEF SameTriggers, Statuses
<1>1. CASE triggers[t] = None
  BY <1>1 DEF refresh_trigger_root_statuses
<1>2. CASE triggers[t] # None
  <2>1. triggers[t] \in TriggerRecord /\ triggers'[t] \in TriggerRecord
    <3>1. triggers \in Copy /\ triggers' \in Copy
      BY RefreshTyped DEF LaunchInv, TypeOK, StoreOK
    <3>2. triggers'[t] = [triggers[t] EXCEPT !.status = desired_root_status(t)]
      BY <1>2 DEF refresh_trigger_root_statuses
    <3>3. triggers[t] \in TriggerRecord /\ desired_root_status(t) \in Status
      BY <1>2, <3>1, StatusTyped DEF Copy, LaunchInv
    <3> QED
      BY <3>2, <3>3 DEF TriggerRecord
  <2>2. triggers'[t] = [triggers[t] EXCEPT !.status = desired_root_status(t)]
    BY <1>2 DEF refresh_trigger_root_statuses
  <2>3. triggers'[t].enabled = triggers[t].enabled /\ triggers'[t].status = desired_root_status(t)
    BY <2>1, <2>2 DEF TriggerRecord
  <2>4. desired_root_status(t) = "active" => triggers[t].enabled
    BY <1>2 DEF desired_root_status, LaunchInv, Launching, Statuses
  <2>5. triggers'[t] # None
    BY <2>1, DocumentAssumption
  <2> QED
    BY <1>2, <2>3, <2>4, <2>5
<1> QED
  BY <1>1, <1>2

LEMMA PollLaunches ==
  /\ LaunchInv
  /\ \/ PollBegins \/ ScanFails \/ replace_root_snapshot \/ PollEnds \/ RefreshAfterReport \/ save_offline_report
     \/ \E root \in poller.roots : Rerecord(root) \/ Notice(root) \/ initialize_baseline(root)
  => Launching'
<1> SUFFICES ASSUME LaunchInv,
                    \/ PollBegins \/ ScanFails \/ replace_root_snapshot \/ PollEnds \/ RefreshAfterReport
                    \/ save_offline_report
                    \/ \E root \in poller.roots : Rerecord(root) \/ Notice(root) \/ initialize_baseline(root)
             PROVE  Launching'
  OBVIOUS
<1>1. /\ UNCHANGED launchVars /\ poller.pc # "down"
      /\ poller'.pc \notin {"down", "maturing", "dispatching", "breaking"}
  <2>1. CASE PollBegins \/ ScanFails \/ replace_root_snapshot
    BY <2>1 DEF PollBegins, ScanFails, replace_root_snapshot, Polls, NotWorld, world, store, ghosts, launchVars
  <2>2. CASE PollEnds \/ RefreshAfterReport \/ save_offline_report
    BY <2>2 DEF PollEnds, RefreshAfterReport, save_offline_report, Polls, NotWorld, world, store, ghosts, launchVars
  <2>3. ASSUME NEW root \in poller.roots, Rerecord(root) \/ initialize_baseline(root)
        PROVE  /\ UNCHANGED launchVars /\ poller.pc # "down"
               /\ poller'.pc \notin {"down", "maturing", "dispatching", "breaking"}
    BY <2>3 DEF Rerecord, initialize_baseline, Scanned, Polls, NotWorld, world, store, ghosts, launchVars
  <2>4. ASSUME NEW root \in poller.roots, Notice(root)
        PROVE  /\ UNCHANGED launchVars /\ poller.pc # "down"
               /\ poller'.pc \notin {"down", "maturing", "dispatching", "breaking"}
    BY <2>4 DEF Notice, Scanned, Polls, store, ghosts, launchVars
  <2> QED
    BY <2>1, <2>2, <2>3, <2>4
<1>2. SameTriggers /\ Statuses'
  <2>1. CASE refresh_trigger_root_statuses
    BY <2>1, RefreshLaunches
  <2>2. CASE UNCHANGED triggers
    BY <2>2 DEF SameTriggers, Statuses, LaunchInv, Launching
  <2> QED
    BY <2>1, <2>2 DEF PollBegins, ScanFails, replace_root_snapshot, PollEnds, RefreshAfterReport, save_offline_report,
       Rerecord, Notice, initialize_baseline, store
<1> QED
  BY <1>1, <1>2, NotLaunching

LEMMA ChoiceLaunches ==
  LaunchInv /\ (LoadTriggers \/ cooldown_ready_action_ids \/ Restart) => Launching'
<1> SUFFICES ASSUME LaunchInv, LoadTriggers \/ cooldown_ready_action_ids \/ Restart PROVE Launching'
  OBVIOUS
<1> USE DEF LaunchInv, Launching
<1>1. CASE LoadTriggers
  <2>1. /\ UNCHANGED <<triggers, launchVars>> /\ poller.pc = "scanning" /\ poller'.pc = "maturing"
        /\ poller'.triggers = triggers
    BY <1>1 DEF LoadTriggers, NotWorld, store, world, ghosts, launchVars, Polls
  <2> QED
    BY <2>1 DEF launchVars, LaunchedIsSaved, Threads, Statuses, HalfDone, UnbornIsUnknown, Unborn, Deleting,
       OffStays, Choosing, Copying, running
<1>2. CASE cooldown_ready_action_ids
  <2>1. /\ UNCHANGED <<triggers, launchVars>> /\ poller.pc = "readying" /\ poller'.pc = "dispatching"
        /\ poller'.triggers = triggers /\ poller'.ids \cap running = {}
    BY <1>2 DEF cooldown_ready_action_ids, NotWorld, store, world, ghosts, launchVars, Polls
  <2>2. OffStays'
    BY <2>1 DEF launchVars, OffStays, Live
  <2> QED
    BY <2>1, <2>2 DEF launchVars, LaunchedIsSaved, Threads, Statuses, HalfDone, UnbornIsUnknown, Unborn, Deleting,
       Choosing, Copying, running
<1>3. CASE Restart
  <2>1. /\ UNCHANGED <<triggers, execs, user, off, recent>> /\ poller.pc = "down" /\ poller'.pc = "recording"
        /\ inflight' = [t \in Trigger |-> None]
        /\ \A t \in Trigger : pending[t] = None /\ inflight[t] = None => pending'[t] = None
    BY <1>3 DEF Restart, world, launchVars, Polls
  <2>2. execs = {} /\ user = None
    BY <2>1 DEF Threads
  <2> QED
    BY <2>1, <2>2 DEF LaunchedIsSaved, Threads, Statuses, HalfDone, UnbornIsUnknown, Unborn, Deleting,
       OffStays, Choosing, Copying, running
<1> QED
  BY <1>1, <1>2, <1>3

LEMMA DispatchLaunches == LaunchInv /\ dispatch_mature_batches => Launching'
<1> SUFFICES ASSUME LaunchInv, dispatch_mature_batches PROVE Launching'
  OBVIOUS
<1>1. /\ UNCHANGED <<triggers, inflight, execs, user, off, recent>> /\ poller.pc = "maturing" /\ poller'.pc = "readying"
      /\ \A t \in Trigger : poller.triggers[t] = None => pending'[t] = pending[t]
  BY DEF dispatch_mature_batches, Polls, Live
<1> QED
  BY <1>1 DEF LaunchInv, Launching, LaunchedIsSaved, Threads, Statuses, HalfDone, UnbornIsUnknown, Unborn, Deleting,
     OffStays, Choosing, Copying, running

LEMMA BreakLaunches == LaunchInv /\ pause_for_circuit_breaker => Launching'
<1> SUFFICES ASSUME LaunchInv, pause_for_circuit_breaker PROVE Launching'
  OBVIOUS
<1> USE DEF LaunchInv, Launching
<1>1. /\ UNCHANGED launchVars /\ poller.pc = "breaking" /\ poller'.pc = "dispatching"
      /\ poller'.triggers = poller.triggers /\ poller'.ids = poller.ids
  BY DEF pause_for_circuit_breaker, NotWorld, world, ghosts, launchVars, Polls
<1>2. triggers \in Copy /\ triggers' \in Copy
  BY PollTyped DEF TypeOK, StoreOK
<1>3. \A t \in Trigger : /\ triggers'[t] = None <=> triggers[t] = None
                         /\ triggers'[t] # None => \/ triggers'[t] = triggers[t]
                                                   \/ ~triggers'[t].enabled /\ triggers'[t].status = "paused"
  <2> SUFFICES ASSUME NEW t \in Trigger
               PROVE  /\ triggers'[t] = None <=> triggers[t] = None
                      /\ triggers'[t] # None => \/ triggers'[t] = triggers[t]
                                                \/ ~triggers'[t].enabled /\ triggers'[t].status = "paused"
    OBVIOUS
  <2>1. [enabled |-> FALSE, status |-> "paused"] # None
    <3>1. [enabled |-> FALSE, status |-> "paused"] \in TriggerRecord
      BY DEF TriggerRecord, Status
    <3> QED
      BY <3>1, DocumentAssumption
  <2> QED
    BY <1>2, <2>1 DEF pause_for_circuit_breaker, Copy
<1>4. execs \subseteq Thread /\ off \subseteq Trigger /\ (user # None => user.trigger \in Trigger)
  BY DEF TypeOK, ProcessOK, HistoryOK, Call
<1>5. LaunchedIsSaved'
  BY <1>1, <1>3, <1>4 DEF launchVars, LaunchedIsSaved, Thread
<1>6. Statuses' /\ HalfDone'
  BY <1>1, <1>3, <1>4 DEF launchVars, Statuses, HalfDone
<1>7. UnbornIsUnknown'
  BY <1>1, <1>3, <1>4 DEF launchVars, UnbornIsUnknown, Unborn, Deleting, Copying, running
<1>8. OffStays' /\ Threads'
  BY <1>1, <1>3, <1>4 DEF launchVars, OffStays, Threads, Choosing, running, Live
<1> QED
  BY <1>5, <1>6, <1>7, <1>8

\* The poller after it is done with a trigger.
LEMMA DoneWithTyped ==
  ASSUME ProcessOK, NEW t \in Trigger, poller.pc = "dispatching"
  PROVE  /\ DoneWith(t).pc = "dispatching" /\ DoneWith(t).triggers = poller.triggers
         /\ DoneWith(t).ids = poller.ids \ {t}
<1>1. poller \in [pc : {"dispatching"}, triggers : Copy, ids : SUBSET Trigger]
  BY DEF ProcessOK, PollerState
<1> QED
  BY <1>1 DEF DoneWith

LEMMA GateLaunches ==
  ASSUME LaunchInv, NEW t \in Trigger, drop_pending_action(t) \/ Hold(t)
  PROVE  Launching'
<1> USE DEF LaunchInv, Launching
<1>1. /\ UNCHANGED <<triggers, inflight, execs, user, off, recent>> /\ poller.pc = "dispatching"
      /\ poller'.pc \in {"dispatching", "breaking"}
      /\ poller'.triggers = poller.triggers /\ poller'.ids \subseteq poller.ids
      /\ \A x \in Trigger : pending'[x] = pending[x] \/ pending'[x] = None
  <2>1. poller.pc = "dispatching"
    BY DEF drop_pending_action, Hold, Dispatching
  <2>2. CASE drop_pending_action(t)
    BY <2>1, <2>2, DoneWithTyped DEF drop_pending_action, NotWorld, world, ghosts, Polls, TypeOK, StoreOK
  <2>3. CASE Hold(t)
    BY <2>1, <2>3, DoneWithTyped DEF Hold, NotWorld, world, store, ghosts, Polls, TypeOK
  <2> QED
    BY <2>2, <2>3
<1>2. off \subseteq Trigger
  BY DEF TypeOK, HistoryOK
<1>3. LaunchedIsSaved' /\ Statuses' /\ HalfDone'
  BY <1>1 DEF LaunchedIsSaved, Statuses, HalfDone
<1>4. Threads' /\ OffStays'
  BY <1>1, <1>2 DEF Threads, OffStays, Choosing, running, Live
<1>5. UnbornIsUnknown'
  BY <1>1 DEF UnbornIsUnknown, Unborn, Deleting, Copying, running
<1> QED
  BY <1>3, <1>4, <1>5

\* A launch: the trigger ran in no thread, is not off, and has a run left.
LEMMA ClaimLaunches ==
  ASSUME LaunchInv, NEW t \in Trigger, claim_pending_batch(t)
  PROVE  Launching' /\ \A e \in execs' \ execs : e.trigger = t /\ t \notin off
<1> USE DEF LaunchInv, Launching
<1>1. /\ UNCHANGED <<triggers, user, recent>> /\ poller.pc = "dispatching" /\ poller'.pc = "dispatching"
      /\ poller'.triggers = poller.triggers /\ poller'.ids = poller.ids \ {t} /\ t \in poller.ids
      /\ Live(poller.triggers, t) /\ recent[t] < CIRCUIT_MAX_RUNS
      /\ off \subseteq off' /\ \A x \in off' : x \in off \/ (x = t /\ ~Enabled(t))
  <2>1. recent[t] \in Nat /\ CIRCUIT_MAX_RUNS \in Nat
    BY DocumentAssumption DEF TypeOK, WorldOK
  <2> QED
    BY <2>1, DoneWithTyped DEF claim_pending_batch, Dispatching, NotWorld, world, Polls, Broken, TypeOK
<1>2. execs \subseteq Thread /\ off \subseteq Trigger
  BY DEF TypeOK, ProcessOK, HistoryOK
<1>3. CASE pending[t] = None
  <2>1. UNCHANGED <<pending, inflight, execs>>
    BY <1>3 DEF claim_pending_batch
  <2>2. Threads' /\ OffStays'
    BY <1>1, <1>2, <2>1 DEF Threads, OffStays, Choosing, running, Live, Enabled
  <2>3. UnbornIsUnknown'
    BY <1>1, <2>1 DEF UnbornIsUnknown, Unborn, Deleting, Copying, running
  <2> QED
    BY <1>1, <2>1, <2>2, <2>3 DEF LaunchedIsSaved, Statuses, HalfDone
<1>4. CASE pending[t] # None
  <2> DEFINE new == [trigger |-> t, batch |-> pending[t], pc |-> "start"]
  <2>1. /\ execs' = execs \cup {new} /\ inflight' = [inflight EXCEPT ![t] = pending[t]]
        /\ pending' = [pending EXCEPT ![t] = None]
    BY <1>4 DEF claim_pending_batch
  <2>2. t \notin running /\ t \notin off
    BY <1>1, <1>4 DEF Threads, OffStays, Choosing
  <2>3. \A e \in execs : e.trigger \in Trigger /\ e.trigger # t
    BY <1>2, <2>2 DEF running, Thread
  <2>4. inflight'[t] = pending[t] /\ \A x \in Trigger \ {t} : inflight'[x] = inflight[x] /\ pending'[x] = pending[x]
    BY <2>1 DEF TypeOK, StoreOK
  <2>5. pending'[t] = None
    BY <2>1 DEF TypeOK, StoreOK
  <2>6. LaunchedIsSaved'
    <3>1. \A e \in execs' : e = new \/ e \in execs
      BY <2>1
    <3> HIDE DEF new
    <3>2. new.trigger = t /\ new.batch = pending[t]
      BY DEF new
    <3> QED
      BY <1>1, <2>3, <2>4, <3>1, <3>2 DEF LaunchedIsSaved
  <2>7. running' = running \cup {t}
    <3>1. new.trigger = t
      OBVIOUS
    <3> HIDE DEF new
    <3> QED
      BY <2>1, <3>1 DEF running
  <2>8. Threads'
    <3>1. \A e \in execs' : e.pc = "start" => recent'[e.trigger] < CIRCUIT_MAX_RUNS
      BY <1>1, <2>1 DEF Threads
    <3>2. poller'.ids \cap running' = {}
      BY <1>1, <2>7 DEF Threads, Choosing
    <3> QED
      BY <1>1, <2>4, <2>7, <3>1, <3>2 DEF Threads
  <2>9. UnbornIsUnknown'
    <3>1. ASSUME NEW x \in Trigger, Unborn(x)' PROVE x # t /\ Unborn(x)
      BY <1>1, <1>4, <3>1 DEF Unborn, Deleting, UnbornIsUnknown
    <3> QED
      BY <1>1, <2>4, <2>7, <3>1 DEF UnbornIsUnknown, Copying
  <2>10. OffStays'
    BY <1>1, <1>2, <2>2, <2>4, <2>5 DEF OffStays, Choosing, Live, Enabled
  <2> QED
    BY <1>1, <2>1, <2>2, <2>6, <2>8, <2>9, <2>10 DEF Statuses, HalfDone
<1> QED
  BY <1>3, <1>4

\* A thread that goes on stands for its trigger as before.
LEMMA BecomesKeeps ==
  ASSUME LaunchInv, NEW e \in execs, NEW pc \in {"act", "mark", "settle"}, Becomes(e, pc)
  PROVE  /\ running' = running
         /\ \A x \in execs' : x.pc = "start" => x \in execs
         /\ \A x \in execs' : \E y \in execs :
              /\ x.trigger = y.trigger /\ x.batch = y.batch
              /\ y = e => x = [e EXCEPT !.pc = pc]
              /\ y # e => x = y
<1>1. e \in Thread
  BY DEF LaunchInv, TypeOK, ProcessOK
<1> DEFINE moved == [e EXCEPT !.pc = pc]
<1>2. moved.trigger = e.trigger /\ moved.batch = e.batch /\ moved.pc = pc
  BY <1>1 DEF Thread
<1> HIDE DEF moved
<1>3. execs' = (execs \ {e}) \cup {moved}
  BY DEF Becomes, moved
<1>4. running' = running
  BY <1>2, <1>3 DEF running
<1>5. \A x \in execs' : x.pc = "start" => x \in execs
  BY <1>2, <1>3
<1> QED
  BY <1>2, <1>3, <1>4, <1>5 DEF moved

LEMMA ThreadLaunches ==
  ASSUME LaunchInv, NEW e \in execs, save_run(e) \/ execute_action(e) \/ update_trigger_failure_status(e)
  PROVE  Launching' /\ \A x \in execs' : x.pc = "start" => x \in execs
<1> USE DEF LaunchInv, Launching
<1>0. PICK pc \in {"act", "mark", "settle"} : Becomes(e, pc)
  BY DEF save_run, execute_action, update_trigger_failure_status
<1>1. /\ UNCHANGED <<pending, inflight, user, off, poller>>
      /\ SameTriggers /\ Statuses'
  <2>1. CASE save_run(e) \/ execute_action(e)
    BY <2>1 DEF save_run, execute_action, store, ghosts, SameTriggers, Statuses
  <2>2. CASE update_trigger_failure_status(e)
    <3>1. UNCHANGED <<pending, inflight, user, off, poller>>
      BY <2>2 DEF update_trigger_failure_status, ghosts
    <3>2. triggers \in Copy /\ e.trigger \in Trigger
      BY DEF TypeOK, StoreOK, ProcessOK, Thread
    <3>3. \A t \in Trigger : triggers[t] # None =>
            triggers[t] \in TriggerRecord /\ [triggers[t] EXCEPT !.status = "needsReview"] \in TriggerRecord
      BY <3>2 DEF Copy, TriggerRecord, Status
    <3>4. \A t \in Trigger : triggers[t] # None =>
            /\ [triggers[t] EXCEPT !.status = "needsReview"] # None
            /\ [triggers[t] EXCEPT !.status = "needsReview"].enabled = triggers[t].enabled
            /\ [triggers[t] EXCEPT !.status = "needsReview"].status = "needsReview"
      BY <3>3, DocumentAssumption DEF TriggerRecord
    <3>5. triggers' = [triggers EXCEPT ![e.trigger] = IF @ = None THEN None ELSE [@ EXCEPT !.status = "needsReview"]]
      BY <2>2 DEF update_trigger_failure_status, NeedsReview
    <3> QED
      BY <3>1, <3>2, <3>4, <3>5 DEF SameTriggers, Statuses, Copy
  <2> QED
    BY <2>1, <2>2
<1>2. \A x \in execs' : x.pc = "start" => x \in execs /\ recent'[x.trigger] = recent[x.trigger]
  <2>1. ASSUME save_run(e), NEW x \in execs', x.pc = "start" PROVE recent'[x.trigger] = recent[x.trigger]
    <3>1. x \in execs /\ x # e
      <4>1. e \in Thread /\ execs' = (execs \ {e}) \cup {[e EXCEPT !.pc = "act"]}
        BY <2>1 DEF save_run, Becomes, TypeOK, ProcessOK
      <4> QED
        BY <2>1, <4>1 DEF Thread
    <3>2. x.trigger # e.trigger
      BY <3>1 DEF LaunchedIsSaved
    <3>3. x.trigger \in Trigger
      BY <3>1 DEF TypeOK, ProcessOK, Thread
    <3> QED
      BY <2>1, <3>2, <3>3 DEF save_run, TypeOK, WorldOK
  <2>2. ASSUME execute_action(e) \/ update_trigger_failure_status(e) PROVE recent' = recent
    BY <2>2 DEF execute_action, update_trigger_failure_status, world
  <2> QED
    BY <1>0, <2>1, <2>2, BecomesKeeps
<1>3. LaunchedIsSaved'
  <2> SUFFICES ASSUME NEW x \in execs'
               PROVE  /\ \A other \in execs' : other.trigger = x.trigger => other = x
                      /\ triggers'[x.trigger] # None => inflight'[x.trigger] = x.batch
    BY DEF LaunchedIsSaved
  <2>1. PICK y \in execs : x.trigger = y.trigger /\ x.batch = y.batch
                           /\ (y = e => x = [e EXCEPT !.pc = pc]) /\ (y # e => x = y)
    BY <1>0, BecomesKeeps
  <2>2. y.trigger \in Trigger
    BY DEF TypeOK, ProcessOK, Thread
  <2>3. ASSUME NEW other \in execs', other.trigger = x.trigger PROVE other = x
    <3>1. PICK z \in execs : other.trigger = z.trigger /\ other.batch = z.batch
                             /\ (z = e => other = [e EXCEPT !.pc = pc]) /\ (z # e => other = z)
      BY <1>0, BecomesKeeps
    <3>2. z = y
      BY <2>1, <2>3, <3>1 DEF LaunchedIsSaved
    <3> QED
      BY <2>1, <3>1, <3>2
  <2> QED
    BY <1>1, <2>1, <2>2, <2>3 DEF LaunchedIsSaved, SameTriggers
<1>4. Threads'
  <2>1. running' = running
    BY <1>0, BecomesKeeps
  <2>2. poller.pc # "down"
    BY DEF Threads
  <2> QED
    BY <1>1, <1>2, <2>1, <2>2 DEF Threads, Choosing
<1>5. HalfDone' /\ OffStays'
  <2>1. off \subseteq Trigger /\ (user # None => user.trigger \in Trigger)
    BY DEF TypeOK, ProcessOK, HistoryOK, Call
  <2> QED
    BY <1>1, <2>1 DEF HalfDone, OffStays, SameTriggers, Choosing, Live
<1>6. UnbornIsUnknown'
  <2>1. running' = running
    BY <1>0, BecomesKeeps
  <2> QED
    BY <1>1, <2>1 DEF UnbornIsUnknown, Unborn, Deleting, Copying, SameTriggers
<1> QED
  BY <1>1, <1>2, <1>3, <1>4, <1>5, <1>6

LEMMA EndLaunches ==
  ASSUME LaunchInv, NEW e \in execs, launch_trigger_ends(e)
  PROVE  Launching' /\ execs' \subseteq execs
<1> USE DEF LaunchInv, Launching
<1>1. /\ UNCHANGED <<triggers, user, off, poller, recent>> /\ execs' = execs \ {e}
      /\ inflight' = [inflight EXCEPT ![e.trigger] = None]
      /\ \A t \in Trigger \ {e.trigger} : pending'[t] = pending[t]
  BY DEF launch_trigger_ends, world, TypeOK, StoreOK
<1>2. execs \subseteq Thread /\ off \subseteq Trigger /\ e.trigger \in Trigger /\ e.trigger \in running
  BY DEF TypeOK, ProcessOK, HistoryOK, Thread, running
<1>3. inflight'[e.trigger] = None /\ \A t \in Trigger \ {e.trigger} : inflight'[t] = inflight[t]
  BY <1>1, <1>2 DEF TypeOK, StoreOK
<1>4. running' = running \ {e.trigger}
  BY <1>1, <1>2 DEF running, LaunchedIsSaved
<1>5. \A x \in execs' : x \in execs /\ x.trigger \in Trigger \ {e.trigger}
  BY <1>1, <1>2 DEF LaunchedIsSaved, Thread
<1>6. LaunchedIsSaved'
  BY <1>1, <1>3, <1>5 DEF LaunchedIsSaved
<1>7. Threads'
  BY <1>1, <1>3, <1>4, <1>5 DEF Threads, Choosing
<1>8. Statuses' /\ HalfDone'
  BY <1>1 DEF Statuses, HalfDone
<1>9. UnbornIsUnknown'
  BY <1>1, <1>2, <1>3, <1>4 DEF UnbornIsUnknown, Unborn, Deleting, Copying
<1>10. OffStays'
  BY <1>1, <1>2 DEF OffStays, Choosing, Live, Threads
<1> QED
  BY <1>1, <1>6, <1>7, <1>8, <1>9, <1>10

\* The calls of the user.
LEMMA CallsLaunch ==
  ASSUME LaunchInv, Calls
  PROVE  Launching' /\ UNCHANGED execs
<1> USE DEF LaunchInv, Launching
<1>1. UNCHANGED <<execs, poller, recent>> /\ poller.pc # "down"
  BY DEF Calls, ForgetBatch, TestEnds, create_trigger, update_trigger, enable_trigger, disable_trigger,
         delete_trigger, test_trigger, NotDisk, world
<1>2. triggers \in Copy /\ execs \subseteq Thread /\ off \subseteq Trigger /\ (user # None => user.trigger \in Trigger)
  BY DEF TypeOK, StoreOK, ProcessOK, HistoryOK, Call
<1>3. UNCHANGED running
  BY <1>1 DEF running
<1>4. /\ [enabled |-> TRUE, status |-> "active"] # None /\ [enabled |-> FALSE, status |-> "paused"] # None
      /\ \A t \in Trigger : \A op \in {"disable", "delete", "test"} : [op |-> op, trigger |-> t] # None
  <2>1. /\ [enabled |-> TRUE, status |-> "active"] \in TriggerRecord
        /\ [enabled |-> FALSE, status |-> "paused"] \in TriggerRecord
    BY DEF TriggerRecord, Status
  <2>2. \A t \in Trigger : \A op \in {"disable", "delete", "test"} : [op |-> op, trigger |-> t] \in Call
    BY DEF Call
  <2> QED
    BY <2>1, <2>2, DocumentAssumption
<1>5. CASE ForgetBatch
  <2> DEFINE t == user.trigger
  <2>1. /\ user # None /\ user.op \in {"disable", "delete"} /\ t \in Trigger /\ user' = None
        /\ UNCHANGED triggers /\ off' = off \cup {t}
        /\ pending' = [pending EXCEPT ![t] = None]
        /\ inflight' = [inflight EXCEPT ![t] = IF user.op = "delete" THEN None ELSE @]
    BY <1>2, <1>5 DEF ForgetBatch
  <2>2. triggers[t] = None \/ ~triggers[t].enabled
    BY <2>1 DEF HalfDone
  <2>3. user.op = "delete" => triggers[t] = None
    BY <2>1 DEF HalfDone
  <2> HIDE DEF t
  <2>4. /\ pending'[t] = None /\ \A x \in Trigger \ {t} : pending'[x] = pending[x] /\ inflight'[x] = inflight[x]
        /\ inflight'[t] = inflight[t] \/ (inflight'[t] = None /\ triggers[t] = None)
    BY <2>1, <2>3 DEF TypeOK, StoreOK
  <2>5. LaunchedIsSaved'
    BY <1>1, <1>2, <2>1, <2>4 DEF LaunchedIsSaved, Thread
  <2>6. Threads'
    BY <1>1, <1>3, <2>1, <2>4 DEF Threads, Choosing
  <2>7. UnbornIsUnknown'
    <3>1. \A x \in Trigger : Unborn(x)' => x # t /\ Unborn(x)
      BY <2>1 DEF Unborn, Deleting, t
    <3> QED
      BY <1>1, <1>3, <2>4, <3>1 DEF UnbornIsUnknown, Copying
  <2>8. OffStays'
    BY <1>1, <1>2, <2>1, <2>2, <2>4 DEF OffStays, Choosing, Live
  <2> QED
    BY <1>1, <2>1, <2>5, <2>6, <2>7, <2>8 DEF Statuses, HalfDone
<1>6. ASSUME UNCHANGED <<pending, inflight>>, Statuses', HalfDone', UnbornIsUnknown',
             \A t \in Trigger : triggers[t] = None => triggers'[t] = None \/ t \notin running,
             \A t \in off' : (t \in off \/ ~Chosen(t)) /\ (triggers'[t] = None \/ ~triggers'[t].enabled)
      PROVE  Launching'
  <2>1. LaunchedIsSaved'
    BY <1>1, <1>2, <1>6 DEF LaunchedIsSaved, Thread, running
  <2>2. Threads'
    BY <1>1, <1>3, <1>6 DEF Threads, Choosing
  <2>3. OffStays'
    BY <1>1, <1>6 DEF OffStays, Choosing, Chosen, Live
  <2> QED
    BY <1>6, <2>1, <2>2, <2>3
<1>7. CASE TestEnds
  <2>1. \A t \in Trigger : triggers[t] # None =>
          /\ [triggers[t] EXCEPT !.status = "needsReview"] # None
          /\ [triggers[t] EXCEPT !.status = "needsReview"].enabled = triggers[t].enabled
          /\ [triggers[t] EXCEPT !.status = "needsReview"].status = "needsReview"
    <3>1. \A t \in Trigger : triggers[t] # None =>
            triggers[t] \in TriggerRecord /\ [triggers[t] EXCEPT !.status = "needsReview"] \in TriggerRecord
      BY <1>2 DEF Copy, TriggerRecord, Status
    <3> QED
      BY <3>1, DocumentAssumption DEF TriggerRecord
  <2>2. SameTriggers /\ Statuses'
    <3>1. UNCHANGED triggers \/ triggers' = [triggers EXCEPT ![user.trigger] =
                                               IF @ = None THEN None ELSE [@ EXCEPT !.status = "needsReview"]]
      BY <1>7 DEF TestEnds, NeedsReview
    <3> QED
      BY <1>2, <1>7, <2>1, <3>1 DEF TestEnds, SameTriggers, Statuses, Copy
  <2>3. UNCHANGED <<pending, inflight, off>> /\ user' = None /\ (user # None /\ user.op = "test")
    BY <1>7 DEF TestEnds, ghosts
  <2>4. UnbornIsUnknown'
    BY <1>1, <1>3, <2>2, <2>3 DEF UnbornIsUnknown, Unborn, Deleting, Copying, SameTriggers
  <2>5. HalfDone'
    BY <2>3 DEF HalfDone
  <2>6. \A t \in off' : t \in off /\ (triggers'[t] = None \/ ~triggers'[t].enabled)
    BY <1>2, <2>2, <2>3 DEF SameTriggers, OffStays
  <2>7. \A t \in Trigger : triggers[t] = None => triggers'[t] = None
    BY <2>2 DEF SameTriggers
  <2> QED
    BY <1>1, <1>6, <2>2, <2>3, <2>4, <2>5, <2>6, <2>7
<1>8. ASSUME NEW t \in Trigger, create_trigger(t) \/ update_trigger(t) PROVE Launching'
  <2>1. PICK enabled \in BOOLEAN :
          /\ UNCHANGED <<pending, inflight, user>> /\ user = None /\ SaveInput(t, enabled)
          /\ triggers[t] = None => t \notin off
    BY <1>8 DEF create_trigger, update_trigger
  <2>2. /\ triggers'[t] # None /\ triggers'[t].enabled = enabled /\ (triggers'[t].status = "active" => enabled)
        /\ \A x \in Trigger \ {t} : triggers'[x] = triggers[x] /\ (x \in off' <=> x \in off)
        /\ off' \subseteq Trigger /\ (t \in off' => ~enabled /\ (t \in off \/ ~Chosen(t)))
    BY <2>1, SavedInput
  <2>3. triggers[t] = None => t \notin running
    BY <2>1 DEF UnbornIsUnknown, Unborn, Deleting
  <2>4. UnbornIsUnknown'
    BY <1>1, <1>3, <2>1, <2>2 DEF UnbornIsUnknown, Unborn, Deleting, Copying
  <2>5. Statuses' /\ HalfDone'
    BY <2>1, <2>2 DEF Statuses, HalfDone
  <2>6. \A x \in off' : (x \in off \/ ~Chosen(x)) /\ (triggers'[x] = None \/ ~triggers'[x].enabled)
    BY <1>2, <2>2 DEF OffStays
  <2>7. \A x \in Trigger : triggers[x] = None => triggers'[x] = None \/ x \notin running
    BY <2>2, <2>3
  <2> QED
    BY <1>6, <2>1, <2>4, <2>5, <2>6, <2>7
<1>9. ASSUME NEW t \in Trigger, enable_trigger(t) PROVE Launching'
  <2>1. /\ UNCHANGED <<pending, inflight, user>> /\ user = None /\ triggers[t] # None /\ off' = off \ {t}
        /\ triggers' = [triggers EXCEPT ![t] = [enabled |-> TRUE, status |-> "active"]]
    BY <1>9 DEF enable_trigger
  <2>2. triggers'[t] = [enabled |-> TRUE, status |-> "active"] /\ \A x \in Trigger \ {t} : triggers'[x] = triggers[x]
    BY <1>2, <2>1 DEF Copy
  <2>3. UnbornIsUnknown'
    BY <1>1, <1>3, <1>4, <2>1, <2>2 DEF UnbornIsUnknown, Unborn, Deleting, Copying
  <2> QED
    BY <1>2, <1>6, <2>1, <2>2, <2>3 DEF Statuses, HalfDone, OffStays
<1>10. ASSUME NEW t \in Trigger, disable_trigger(t) \/ delete_trigger(t) PROVE Launching'
  <2>1. PICK op \in {"disable", "delete"} :
          /\ UNCHANGED <<pending, inflight, off>> /\ user = None /\ triggers[t] # None
          /\ user' = [op |-> op, trigger |-> t]
          /\ triggers' = [triggers EXCEPT ![t] = IF op = "delete" THEN None
                                                 ELSE [enabled |-> FALSE, status |-> "paused"]]
    BY <1>10 DEF disable_trigger, delete_trigger, ghosts
  <2>2. /\ triggers'[t] = IF op = "delete" THEN None ELSE [enabled |-> FALSE, status |-> "paused"]
        /\ \A x \in Trigger \ {t} : triggers'[x] = triggers[x]
    BY <1>2, <2>1 DEF Copy
  <2>3. user' # None /\ user'.op = op /\ user'.trigger = t
    BY <1>4, <2>1
  <2>4. HalfDone' /\ Statuses'
    BY <2>2, <2>3 DEF HalfDone, Statuses
  <2>5. UnbornIsUnknown'
    <3>1. \A x \in Trigger : Unborn(x)' => Unborn(x)
      BY <1>4, <2>1, <2>2, <2>3 DEF Unborn, Deleting
    <3> QED
      BY <1>1, <1>3, <2>1, <3>1 DEF UnbornIsUnknown, Copying
  <2> QED
    BY <1>2, <1>6, <2>1, <2>2, <2>4, <2>5 DEF OffStays
<1>11. ASSUME NEW t \in Trigger, test_trigger(t) PROVE Launching'
  <2>1. UNCHANGED <<triggers, pending, inflight, off>> /\ user = None /\ user' = [op |-> "test", trigger |-> t]
    BY <1>11 DEF test_trigger, ghosts
  <2>2. user' # None /\ user'.op = "test"
    BY <1>4, <2>1
  <2>3. UnbornIsUnknown'
    BY <1>1, <1>3, <2>1, <2>2 DEF UnbornIsUnknown, Unborn, Deleting, Copying
  <2> QED
    BY <1>2, <1>6, <2>1, <2>2, <2>3 DEF Statuses, HalfDone, OffStays
<1> QED
  BY <1>1, <1>5, <1>7, <1>8, <1>9, <1>10, <1>11 DEF Calls

LEMMA CrashLaunches == LaunchInv /\ Crash => Launching' /\ execs' = {}
<1> SUFFICES ASSUME LaunchInv, Crash PROVE Launching' /\ execs' = {}
  OBVIOUS
<1> USE DEF LaunchInv, Launching
<1>1. /\ UNCHANGED <<triggers, pending, inflight, recent>> /\ poller'.pc = "down" /\ execs' = {} /\ user' = None
      /\ off' = IF user = None THEN off ELSE IF user.op = "delete" THEN off \cup {user.trigger} ELSE off
  BY DEF Crash, store, world, Polls
<1>2. LaunchedIsSaved' /\ Threads' /\ Statuses' /\ HalfDone'
  BY <1>1 DEF LaunchedIsSaved, Threads, Statuses, HalfDone, Choosing
<1>3. UnbornIsUnknown'
  BY <1>1 DEF UnbornIsUnknown, Unborn, Deleting, Copying, running
<1>4. OffStays'
  BY <1>1 DEF OffStays, Choosing, HalfDone
<1> QED
  BY <1>1, <1>2, <1>3, <1>4

\* Only a claim makes a thread that starts, and never for a trigger that is off.
NothingOffStarts == \A e \in execs' \ execs : e.pc = "start" => e.trigger \notin off

LEMMA NextLaunches == LaunchInv /\ [Next]_vars => LaunchInv' /\ NothingOffStarts
<1> SUFFICES ASSUME LaunchInv, [Next]_vars PROVE LaunchInv' /\ NothingOffStarts
  OBVIOUS
<1>1. TypeOK'
  BY NextTyped DEF LaunchInv, Launching
<1> SUFFICES Launching' /\ NothingOffStarts
  BY <1>1 DEF LaunchInv
<1>2. CASE World
  BY <1>2, WorldLaunches DEF NothingOffStarts, World, Edit, MoveRoot, Condition, Drift, FallsQuiet, CoolsDown, WindowPasses
<1>3. CASE Poller
  <2>1. CASE \E t \in Trigger : claim_pending_batch(t)
    BY <2>1, ClaimLaunches DEF NothingOffStarts
  <2>2. CASE \E t \in Trigger : drop_pending_action(t) \/ Hold(t)
    BY <2>2, GateLaunches DEF NothingOffStarts, drop_pending_action, Hold
  <2>3. CASE pause_for_circuit_breaker \/ dispatch_mature_batches
    BY <2>3, BreakLaunches, DispatchLaunches DEF NothingOffStarts, pause_for_circuit_breaker, dispatch_mature_batches
  <2>4. CASE LoadTriggers \/ cooldown_ready_action_ids \/ Restart
    BY <2>4, ChoiceLaunches DEF NothingOffStarts, LoadTriggers, cooldown_ready_action_ids, Restart
  <2>5. CASE PollBegins \/ ScanFails \/ replace_root_snapshot \/ PollEnds \/ RefreshAfterReport \/ save_offline_report
    BY <2>5, PollLaunches
    DEF NothingOffStarts, PollBegins, ScanFails, replace_root_snapshot, PollEnds, RefreshAfterReport, save_offline_report
  <2>6. CASE \E root \in poller.roots : Rerecord(root) \/ Notice(root) \/ initialize_baseline(root)
    BY <2>6, PollLaunches DEF NothingOffStarts, Rerecord, Notice, initialize_baseline
  <2> QED
    BY <1>3, <2>1, <2>2, <2>3, <2>4, <2>5, <2>6 DEF Poller
<1>4. CASE Executors
  BY <1>4, ThreadLaunches, EndLaunches DEF Executors, NothingOffStarts
<1>5. CASE Calls
  BY <1>5, CallsLaunch DEF NothingOffStarts
<1>6. CASE Crash
  BY <1>6, CrashLaunches DEF NothingOffStarts
<1>7. CASE UNCHANGED vars
  <2>1. UNCHANGED <<triggers, pending, inflight, execs, user, off, recent, poller>>
    BY <1>7 DEF vars, store, world, ghosts
  <2> QED
    BY <2>1 DEF NothingOffStarts, LaunchInv, Launching, LaunchedIsSaved, Threads, Statuses, HalfDone, UnbornIsUnknown, Unborn, Deleting,
       OffStays, Choosing, Copying, running, Live
<1> QED
  BY <1>1, <1>2, <1>3, <1>4, <1>5, <1>6, <1>7 DEF Next

LEMMA InitLaunches == Init => LaunchInv
<1> SUFFICES ASSUME Init PROVE LaunchInv
  OBVIOUS
<1>1. TypeOK
  BY InitTyped
<1>2. [enabled |-> TRUE, status |-> "active"].enabled
  OBVIOUS
<1> QED
  BY <1>1, <1>2 DEF Init, LaunchInv, Launching, LaunchedIsSaved, Threads, Statuses, HalfDone, UnbornIsUnknown, OffStays,
     Choosing, Copying, running

THEOREM LaunchInvariance == Spec => []LaunchInv
<1>1. LaunchInv /\ [Next]_vars => LaunchInv'
  BY NextLaunches
<1> QED
  BY <1>1, InitLaunches, PTL DEF Spec

\* Every variable keeps its type: no status, batch or poll that the code does not know, and
\* never more runs in the window than the circuit breaker allows.
THEOREM DocumentTypeOK == Spec => []TypeOK
<1>1. LaunchInv => TypeOK
  BY DEF LaunchInv
<1> QED
  BY <1>1, LaunchInvariance, PTL

\* A trigger runs in one thread at a time, and what it runs is on disk for a restart.
THEOREM LaunchedBatchIsSaved == Spec => []LaunchedIsSaved
<1>1. LaunchInv => LaunchedIsSaved
  BY DEF LaunchInv, Launching
<1> QED
  BY <1>1, LaunchInvariance, PTL

\* A trigger that a finished call has switched off or deleted, or saved as disabled before the
\* poller chose it, is not launched any more until it is enabled again.
THEOREM OffTriggerStaysOff == Spec => OffIsOff
<1>1. LaunchInv /\ [Next]_vars => [\A e \in execs' \ execs : e.pc = "start" => e.trigger \notin off]_vars
  BY NextLaunches DEF NothingOffStarts
<1> QED
  BY <1>1, LaunchInvariance, PTL DEF Spec, OffIsOff

-----------------------------------------------------------------------------
(* Layers: a file under the launched batch, the waiting one and the changes of its folder *)

\* What is learnt of a file whose content is known, once a change of it is told.
After(change, below) == IF change = None THEN below ELSE {change.content}

\* A change says what it is of what lies below; one that was answered is known already.
Sound(change, answered, below, learnt) ==
  change # None =>
    /\ change.kind = "deleted" <=> change.content = 0
    /\ IF answered THEN change.content \in learnt ELSE change.kind = "created" => 0 \in below

\* The launched change i, the waiting one p and that of the folder q, over what the action has learnt.
Fits(i, iAnswered, p, pAnswered, q, learnt) ==
  /\ Sound(i, iAnswered, learnt, learnt)
  /\ Sound(p, pAnswered, After(i, learnt), learnt)
  /\ Sound(q, FALSE, After(p, After(i, learnt)), learnt)
Top(i, p, q, learnt) == After(q, After(p, After(i, learnt)))

MaybeChange == Change \cup {None}

\* A scan puts a change on top: it fits, and the top is what was found.
LEMMA NoticeFits ==
  ASSUME NEW i \in MaybeChange, NEW p \in MaybeChange, NEW q \in MaybeChange, NEW learnt \in SUBSET Nat,
         NEW iAnswered, NEW pAnswered, NEW before \in Nat, NEW now \in Nat,
         Fits(i, iAnswered, p, pAnswered, q, learnt),
         \/ before \in Top(i, p, q, learnt)
         \/ before # 0 /\ now # before
  PROVE  LET top == merge_change(q, Difference(before, now))
         IN Fits(i, iAnswered, p, pAnswered, top, learnt) /\ now \in Top(i, p, top, learnt)
<1> DEFINE below == After(p, After(i, learnt))
<1>0. None \notin Change
  BY DocumentAssumption
<1>1. CASE before = now
  <2>1. merge_change(q, Difference(before, now)) = q
    BY <1>1 DEF Difference, merge_change
  <2> QED
    BY <1>1, <2>1
<1>2. CASE before # now
  <2>1. /\ Difference(before, now) \in Change /\ Difference(before, now) # None
        /\ Difference(before, now).content = now /\ (Difference(before, now).kind = "deleted" <=> now = 0)
        /\ Difference(before, now).kind = "created" <=> before = 0
    BY <1>0, <1>2 DEF Difference, Change, ChangeKind
  <2>2. CASE q = None
    <3>1. merge_change(q, Difference(before, now)) = Difference(before, now)
      BY <2>1, <2>2 DEF merge_change
    <3> QED
      BY <2>1, <2>2, <3>1 DEF Fits, Sound, Top, After
  <2>3. CASE q # None /\ Vanishes(q, Difference(before, now))
    <3>1. merge_change(q, Difference(before, now)) = None /\ now = 0 /\ 0 \in below
      BY <2>1, <2>3 DEF merge_change, Vanishes, Fits, Sound
    <3> QED
      BY <3>1 DEF Fits, Sound, Top, After
  <2>4. CASE q # None /\ ~Vanishes(q, Difference(before, now))
    <3>1. /\ merge_change(q, Difference(before, now)) = Merged(q, Difference(before, now))
          /\ q.kind \in ChangeKind /\ (q.kind = "deleted" <=> q.content = 0)
      BY <2>1, <2>4 DEF merge_change, Fits, Sound, MaybeChange, Change
    <3>2. /\ Merged(q, Difference(before, now)).content = now /\ Merged(q, Difference(before, now)) # None
          /\ Merged(q, Difference(before, now)).kind = "deleted" <=> now = 0
          /\ Merged(q, Difference(before, now)).kind = "created" => q.kind = "created" \/ (q.kind # "deleted" /\ before = 0)
      <4>1. Merged(q, Difference(before, now)) \in Change
        BY <2>1, <3>1 DEF Merged, Change, ChangeKind
      <4> QED
        BY <1>0, <2>1, <2>4, <3>1, <4>1 DEF Merged, Change, ChangeKind, Vanishes
    <3>3. before = 0 => q.kind = "deleted"
      BY <2>4, <3>1 DEF Top, After
    <3> QED
      BY <2>4, <3>1, <3>2, <3>3 DEF Fits, Sound, Top, After
  <2> QED
    BY <2>2, <2>3, <2>4
<1> QED
  BY <1>1, <1>2

\* Merging a change onto the one below keeps the top, if the lower one was not answered.
LEMMA MergeSound ==
  ASSUME NEW old \in MaybeChange, NEW next \in MaybeChange, NEW below, NEW learnt, NEW answered,
         Sound(old, answered, below, learnt), Sound(next, FALSE, After(old, below), learnt),
         old # None /\ answered => old.kind # "created"
  PROVE  /\ Sound(merge_change(old, next), FALSE, below, learnt)
         /\ \A x : x \in After(next, After(old, below)) => x \in After(merge_change(old, next), below)
<1>0. None \notin Change
  BY DocumentAssumption
<1>1. CASE next = None \/ old = None
  BY <1>1 DEF merge_change, Sound, After
<1>2. CASE next # None /\ old # None
  <2>1. /\ old \in Change /\ next \in Change
        /\ old.kind = "deleted" <=> old.content = 0
        /\ next.kind = "deleted" <=> next.content = 0
        /\ next.kind = "created" => 0 = old.content
        /\ old.kind = "created" => 0 \in below
    BY <1>2 DEF MaybeChange, Sound, After
  <2>2. CASE Vanishes(old, next)
    <3>1. merge_change(old, next) = None
      BY <1>2, <2>2 DEF merge_change
    <3> QED
      BY <1>2, <2>1, <2>2, <3>1 DEF Vanishes, Sound, After
  <2>3. CASE ~Vanishes(old, next)
    <3>1. merge_change(old, next) = Merged(old, next)
      BY <1>2, <2>3 DEF merge_change
    <3>2. Merged(old, next) \in Change
      BY <2>1 DEF Merged, Change, ChangeKind
    <3>3. /\ Merged(old, next).content = next.content
          /\ Merged(old, next).kind = IF old.kind = "created" THEN "created"
                ELSE IF old.kind = "deleted" /\ next.kind = "created" THEN "modified" ELSE next.kind
      BY <2>1, <3>2 DEF Merged, Change, ChangeKind
    <3>4. /\ Merged(old, next).kind = "deleted" <=> next.content = 0
          /\ Merged(old, next).kind = "created" => 0 \in below
      BY <2>1, <2>3, <3>3 DEF Vanishes, Change, ChangeKind
    <3> QED
      BY <1>0, <1>2, <3>1, <3>2, <3>3, <3>4 DEF Sound, After
  <2> QED
    BY <2>2, <2>3
<1> QED
  BY <1>1, <1>2

-----------------------------------------------------------------------------
(* The inductive invariant of NothingElseForgotten *)

ChangeIn(batch, f) == IF batch = None THEN None ELSE batch.changes[f]
ChangeOf(r, f) == IF pendingRoots[r] = None THEN None ELSE pendingRoots[r][f]
Answered(t, batch) == batch # None /\ <<t, batch.id>> \in heard

Layered(t, f) ==
  Fits(ChangeIn(inflight[t], f), Answered(t, inflight[t]), ChangeIn(pending[t], f), Answered(t, pending[t]),
       ChangeOf(HomeRoot[t], f), known[t][f])
TopOf(t, f) == Top(ChangeIn(inflight[t], f), ChangeIn(pending[t], f), ChangeOf(HomeRoot[t], f), known[t][f])

\* What a folder is recorded with, or is about to be.
Advancing(r) == poller.pc = "advancing" /\ poller.root = r
Base(r) == IF Advancing(r) THEN poller.files ELSE baseline[r].files

\* The record is older than the file, and the file is there in it: the next scan finds it.
Stale(r, f) == Base(r)[f] # 0 /\ disk[r][f] # Base(r)[f]
Reported(r, f) == poller.pc = "recording" /\ <<r, f>> \in poller.report
Recent(t, f) ==
  LET r == HomeRoot[t] IN Base(r)[f] \in TopOf(t, f) \/ Stale(r, f) \/ Reported(r, f)

Watched(t, f) == triggers[t] # None /\ f \notin waived[t]
Carries ==
  \A t \in Trigger, f \in File :
    Watched(t, f) => baseline[HomeRoot[t]] # None /\ Layered(t, f) /\ Recent(t, f)

\* Event ids are given out once; a batch that waits behind a launched one has another id, and
\* was not answered.
Numbered ==
  /\ \A answer \in heard : answer[2] < fresh.id
  /\ \A t \in Trigger : /\ pending[t] # None => pending[t].id < fresh.id
                        /\ inflight[t] # None => inflight[t].id < fresh.id
  /\ \A e \in execs : e.batch.id < fresh.id
Unanswered ==
  \A t \in Trigger :
    triggers[t] # None /\ pending[t] # None /\ inflight[t] # None
      => pending[t].id # inflight[t].id /\ <<t, pending[t].id>> \notin heard

\* Contents are given out once: while a folder is being recorded, no file is again what it was
\* recorded with, unless it is missing.
Contents ==
  \A r \in Root, f \in File :
    /\ disk[r][f] < fresh.content
    /\ baseline[r] # None => baseline[r].files[f] < fresh.content
    /\ Advancing(r) => poller.files[f] < fresh.content
    /\ Advancing(r) /\ baseline[r] # None /\ disk[r][f] = baseline[r].files[f]
         => disk[r][f] = 0 \/ poller.files[f] = disk[r][f]

ForgetInv == LaunchInv /\ Numbered /\ Unanswered /\ Contents /\ (Excepted \/ Carries)

\* The files of a batch, and of a folder, are those it has a change of.
LEMMA FilesChanged ==
  ASSUME TypeOK, NEW f \in File
  PROVE  /\ \A batch \in Batch \cup {None} : /\ f \in BatchFiles(batch) <=> ChangeIn(batch, f) # None
                                          /\ ChangeIn(batch, f) \in MaybeChange
         /\ \A r \in Root : /\ f \in FilesOf(pendingRoots[r]) <=> ChangeOf(r, f) # None
                            /\ ChangeOf(r, f) \in MaybeChange
<1>1. ASSUME NEW changes \in Changes
      PROVE  /\ changes # None /\ changes[f] \in MaybeChange
             /\ f \in FilesOf(changes) <=> changes[f] # None
  BY DocumentAssumption DEF Changes, MaybeChange, FilesOf
<1>2. ASSUME NEW batch \in Batch \cup {None}
      PROVE  /\ f \in BatchFiles(batch) <=> ChangeIn(batch, f) # None
             /\ ChangeIn(batch, f) \in MaybeChange
  <2>1. CASE batch = None
    BY <2>1 DEF BatchFiles, ChangeIn, MaybeChange
  <2>2. CASE batch # None
    <3>1. batch.changes \in Changes
      BY <2>2 DEF Batch
    <3> QED
      BY <1>1, <2>2, <3>1 DEF BatchFiles, ChangeIn
  <2> QED
    BY <2>1, <2>2
<1>3. ASSUME NEW r \in Root
      PROVE  /\ f \in FilesOf(pendingRoots[r]) <=> ChangeOf(r, f) # None
             /\ ChangeOf(r, f) \in MaybeChange
  <2>1. CASE pendingRoots[r] = None
    BY <2>1 DEF FilesOf, ChangeOf, MaybeChange
  <2>2. CASE pendingRoots[r] # None
    <3>1. pendingRoots[r] \in Changes
      BY <2>2 DEF TypeOK, StoreOK
    <3> QED
      BY <1>1, <2>2, <3>1 DEF ChangeOf
  <2> QED
    BY <2>1, <2>2
<1> QED
  BY <1>2, <1>3

\* It says what the runs check.
LEMMA CarriesGivesNothingForgotten == TypeOK /\ Carries => NothingForgotten
<1> SUFFICES ASSUME TypeOK, Carries, NEW t \in Trigger, NEW f \in File, Untold(t, f) PROVE OnItsWay(t, f)
  BY DEF NothingForgotten
<1> DEFINE r == HomeRoot[t]
<1>1. baseline[r] # None /\ Recent(t, f)
  BY DEF Carries, Watched, Untold
<1>2. CASE Base(r)[f] # disk[r][f] \/ Reported(r, f)
  BY <1>1, <1>2 DEF Base, Advancing, Reported, OnItsWay, RecordedAt
<1>3. CASE Base(r)[f] = disk[r][f] /\ ~Reported(r, f)
  <2>1. disk[r][f] \in TopOf(t, f) /\ disk[r][f] \notin known[t][f]
    BY <1>1, <1>3 DEF Recent, Stale, Untold
  <2>2. \/ ChangeIn(inflight[t], f) # None \/ ChangeIn(pending[t], f) # None \/ ChangeOf(r, f) # None
    BY <2>1 DEF TopOf, Top, After
  <2>3. r \in Root /\ inflight[t] \in Batch \cup {None} /\ pending[t] \in Batch \cup {None}
    BY DocumentAssumption DEF TypeOK, StoreOK
  <2> QED
    BY <2>2, <2>3, FilesChanged DEF OnItsWay
<1> QED
  BY <1>2, <1>3

\* What was marked stays marked.
LEMMA PastGrows == TypeOK /\ [Next]_vars => events.past \subseteq events'.past
<1> SUFFICES ASSUME TypeOK, [Next]_vars PROVE events.past \subseteq events'.past
  OBVIOUS
<1>1. events \in [left : [Kind \cup {AnyKind} -> Nat], past : SUBSET Exceptions]
  BY DEF TypeOK, HistoryOK
<1>2. ASSUME NEW marks, Marked(marks) PROVE events.past \subseteq events'.past
  BY <1>1, <1>2 DEF Marked
<1>3. ASSUME NEW kind, NEW marks, HappensWith(kind, marks) PROVE events.past \subseteq events'.past
  BY <1>3 DEF HappensWith
<1>4. CASE World
  BY <1>3, <1>4 DEF World, Edit, MoveRoot, Condition, Drift, FallsQuiet, CoolsDown, WindowPasses, Happens
<1>5. CASE Poller
  <2>1. CASE dispatch_mature_batches \/ Restart
    BY <1>2, <2>1 DEF dispatch_mature_batches, Restart
  <2>2. CASE ScanFails
    BY <1>3, <2>2 DEF ScanFails, Happens
  <2>3. CASE \E root \in poller.roots : Rerecord(root) \/ Notice(root) \/ initialize_baseline(root)
    BY <2>3 DEF Rerecord, Notice, initialize_baseline, NotWorld
  <2>4. CASE \E t \in Trigger : drop_pending_action(t) \/ Hold(t) \/ claim_pending_batch(t)
    BY <2>4 DEF drop_pending_action, Hold, claim_pending_batch, NotWorld
  <2>5. CASE \/ PollBegins \/ replace_root_snapshot \/ LoadTriggers \/ cooldown_ready_action_ids
             \/ pause_for_circuit_breaker \/ PollEnds \/ save_offline_report \/ RefreshAfterReport
    BY <2>5 DEF PollBegins, replace_root_snapshot, LoadTriggers, cooldown_ready_action_ids,
       pause_for_circuit_breaker, PollEnds, save_offline_report, RefreshAfterReport, NotWorld
  <2> QED
    BY <1>5, <2>1, <2>2, <2>3, <2>4, <2>5 DEF Poller
<1>6. CASE Executors
  <2>1. ASSUME NEW e \in execs, save_run(e) \/ update_trigger_failure_status(e) PROVE UNCHANGED events
    BY <2>1 DEF save_run, update_trigger_failure_status
  <2>2. ASSUME NEW e \in execs, execute_action(e) PROVE events.past \subseteq events'.past
    BY <1>3, <2>2 DEF execute_action, Happens
  <2>3. ASSUME NEW e \in execs, launch_trigger_ends(e) PROVE events.past \subseteq events'.past
    BY <1>2, <2>3 DEF launch_trigger_ends
  <2> QED
    BY <1>6, <2>1, <2>2, <2>3 DEF Executors
<1>7. CASE Calls
  BY <1>3, <1>7 DEF Calls, ForgetBatch, TestEnds, create_trigger, update_trigger, enable_trigger, disable_trigger,
     delete_trigger, test_trigger, Happens
<1>8. CASE Crash
  BY <1>3, <1>8 DEF Crash
<1>9. CASE UNCHANGED vars
  BY <1>9 DEF vars
<1> QED
  BY <1>4, <1>5, <1>6, <1>7, <1>8, <1>9 DEF Next

LEMMA ExceptedStays == TypeOK /\ [Next]_vars /\ Excepted => Excepted'
BY PastGrows DEF Excepted, Exceptions

\* Steps that give out no number and change no batch.
LEMMA NumbersKeptBySame ==
  ASSUME Numbered, Unanswered, UNCHANGED <<heard, pending, inflight>>, fresh'.id = fresh.id,
         \A e \in execs' : \E x \in execs : e.batch = x.batch,
         \A t \in Trigger : triggers[t] = None => triggers'[t] = None \/ pending[t] = None
  PROVE  Numbered' /\ Unanswered'
BY DEF Numbered, Unanswered

LEMMA MovedBatch ==
  ASSUME LaunchInv, NEW e \in execs, NEW pc \in {"act", "mark", "settle"}, Becomes(e, pc)
  PROVE  \A x \in execs' : \E y \in execs : x.batch = y.batch
BY BecomesKeeps

\* Merging takes the id of the batch on top.
LEMMA MergedId ==
  ASSUME NEW existing \in Batch \cup {None}, NEW incoming \in Batch
  PROVE  merge_action_batch(existing, incoming).id = incoming.id
BY DEF merge_action_batch

LEMMA NumbersKeptByThreads ==
  ASSUME LaunchInv, Numbered, Unanswered, Executors
  PROVE  Numbered' /\ Unanswered'
<1> USE DEF LaunchInv, TypeOK
<1>1. ASSUME NEW e \in execs, save_run(e) \/ update_trigger_failure_status(e) PROVE Numbered' /\ Unanswered'
  <2>1. UNCHANGED <<heard, pending, inflight, fresh>>
    BY <1>1 DEF save_run, update_trigger_failure_status, store, world
  <2>2. \A x \in execs' : \E y \in execs : x.batch = y.batch
    BY <1>1, MovedBatch DEF save_run, update_trigger_failure_status
  <2>3. \A t \in Trigger : triggers[t] = None => triggers'[t] = None
    BY <1>1 DEF save_run, update_trigger_failure_status, store, NeedsReview, StoreOK, Copy
  <2> QED
    BY <2>1, <2>2, <2>3, NumbersKeptBySame
<1>2. ASSUME NEW e \in execs, execute_action(e) PROVE Numbered' /\ Unanswered'
  <2>1. /\ UNCHANGED <<triggers, pending, inflight, fresh>>
        /\ \A answer \in heard' : answer \in heard \/ answer = <<e.trigger, e.batch.id>>
    BY <1>2 DEF execute_action, store, idempotency_key
  <2>2. \A x \in execs' : \E y \in execs : x.batch = y.batch
    BY <1>2, MovedBatch DEF execute_action
  <2>3. Numbered'
    BY <2>1, <2>2 DEF Numbered
  <2>4. triggers[e.trigger] # None => inflight[e.trigger] = e.batch /\ e.batch \in Batch
    BY DEF Launching, LaunchedIsSaved, ProcessOK, Thread
  <2>5. Unanswered'
    <3> SUFFICES ASSUME NEW t \in Trigger, triggers[t] # None, pending[t] # None, inflight[t] # None
                 PROVE  pending[t].id # inflight[t].id /\ <<t, pending[t].id>> \notin heard'
      BY <2>1 DEF Unanswered
    <3>1. pending[t].id # inflight[t].id /\ <<t, pending[t].id>> \notin heard
      BY DEF Unanswered
    <3>2. <<t, pending[t].id>> = <<e.trigger, e.batch.id>> => FALSE
      BY <2>4, <3>1
    <3> QED
      BY <2>1, <3>1, <3>2
  <2> QED
    BY <2>3, <2>5
<1>3. ASSUME NEW e \in execs, launch_trigger_ends(e) PROVE Numbered' /\ Unanswered'
  <2> DEFINE t == e.trigger
  <2>1. /\ UNCHANGED <<triggers, heard, fresh>> /\ execs' \subseteq execs
        /\ inflight' = [inflight EXCEPT ![t] = None]
        /\ pending' = [pending EXCEPT ![t] = pending'[t]]
        /\ pending'[t] = pending[t] \/ pending'[t] = merge_action_batch(pending[t], e.batch)
    BY <1>3 DEF launch_trigger_ends, world, StoreOK
  <2>2. e.batch \in Batch /\ t \in Trigger /\ pending[t] \in Batch \cup {None}
    BY DEF ProcessOK, Thread, StoreOK
  <2>3. merge_action_batch(pending[t], e.batch).id = e.batch.id
    BY <2>2, MergedId
  <2>4. /\ inflight'[t] = None /\ \A x \in Trigger \ {t} : inflight'[x] = inflight[x] /\ pending'[x] = pending[x]
        /\ pending'[t] = pending[t] \/ pending'[t].id = e.batch.id
    BY <2>1, <2>2, <2>3 DEF StoreOK
  <2> HIDE DEF t
  <2>5. Numbered'
    BY <2>1, <2>2, <2>4 DEF Numbered
  <2>6. Unanswered'
    BY <2>1, <2>2, <2>4 DEF Unanswered
  <2> QED
    BY <2>5, <2>6
<1> QED
  BY <1>1, <1>2, <1>3 DEF Executors

LEMMA NumbersKeptByPoller ==
  ASSUME LaunchInv, Numbered, Unanswered, Poller
  PROVE  Numbered' /\ Unanswered'
<1> USE DEF LaunchInv, TypeOK
<1>1. CASE dispatch_mature_batches
  <2>1. /\ UNCHANGED <<triggers, heard, inflight, execs>> /\ fresh.id \in Nat
        /\ fresh'.id = fresh.id \/ fresh'.id = fresh.id + 1
    BY <1>1 DEF dispatch_mature_batches, HistoryOK
  <2>2. \A t \in Trigger : \/ pending'[t] = pending[t]
                           \/ pending'[t].id = fresh.id /\ fresh'.id = fresh.id + 1
    <3> SUFFICES ASSUME NEW t \in Trigger, pending'[t] # pending[t]
                 PROVE  pending'[t].id = fresh.id /\ fresh'.id = fresh.id + 1
      OBVIOUS
    <3>1. /\ pendingRoots[HomeRoot[t]] # None /\ HomeRoot[t] \in Root /\ fresh'.id = fresh.id + 1
          /\ pending'[t] = merge_action_batch(pending[t], [id |-> fresh.id, changes |-> pendingRoots[HomeRoot[t]]])
      BY <1>1, DocumentAssumption DEF dispatch_mature_batches, HistoryOK
    <3>2. [id |-> fresh.id, changes |-> pendingRoots[HomeRoot[t]]] \in Batch
      BY <2>1, <3>1 DEF StoreOK, Batch
    <3>3. merge_action_batch(pending[t], [id |-> fresh.id, changes |-> pendingRoots[HomeRoot[t]]]).id = fresh.id
      BY <3>2, MergedId DEF StoreOK
    <3> QED
      BY <3>1, <3>3
  <2>3. \A answer \in heard : answer[2] \in Nat
    BY DEF WorldOK
  <2>4. \A t \in Trigger : inflight[t] # None => inflight[t].id \in Nat
    BY DEF StoreOK, Batch
  <2>5. \A t \in Trigger : pending[t] # None => pending[t].id \in Nat
    BY DEF StoreOK, Batch
  <2>6. \A e \in execs : e.batch.id \in Nat
    BY DEF ProcessOK, Thread, Batch
  <2>7. Numbered'
    BY <2>1, <2>2, <2>3, <2>4, <2>5, <2>6 DEF Numbered
  <2>8. Unanswered'
    <3> SUFFICES ASSUME NEW t \in Trigger, triggers[t] # None, pending'[t] # None, inflight[t] # None
                 PROVE  pending'[t].id # inflight[t].id /\ <<t, pending'[t].id>> \notin heard
      BY <2>1 DEF Unanswered
    <3>1. CASE pending'[t] = pending[t]
      BY <3>1 DEF Unanswered
    <3>2. CASE pending'[t].id = fresh.id
      <4>1. <<t, fresh.id>> \in heard => fresh.id < fresh.id
        BY DEF Numbered
      <4>2. inflight[t].id < fresh.id
        BY DEF Numbered
      <4> QED
        BY <2>1, <2>4, <3>2, <4>1, <4>2
    <3> QED
      BY <2>2, <3>1, <3>2
  <2> QED
    BY <2>7, <2>8
<1>2. ASSUME NEW t \in Trigger, claim_pending_batch(t) PROVE Numbered' /\ Unanswered'
  <2>1. UNCHANGED <<triggers, heard, fresh>>
    BY <1>2 DEF claim_pending_batch, NotWorld, world
  <2>2. CASE pending[t] = None
    <3>1. UNCHANGED <<pending, inflight, execs>>
      BY <1>2, <2>2 DEF claim_pending_batch
    <3> QED
      BY <2>1, <3>1 DEF Numbered, Unanswered
  <2>3. CASE pending[t] # None
    <3>1. /\ execs' = execs \cup {[trigger |-> t, batch |-> pending[t], pc |-> "start"]}
          /\ pending' = [pending EXCEPT ![t] = None] /\ inflight' = [inflight EXCEPT ![t] = pending[t]]
      BY <1>2, <2>3 DEF claim_pending_batch
    <3>2. /\ pending'[t] = None /\ inflight'[t] = pending[t]
          /\ \A x \in Trigger \ {t} : inflight'[x] = inflight[x] /\ pending'[x] = pending[x]
      BY <3>1 DEF StoreOK
    <3>3. \A e \in execs' : e \in execs \/ e.batch = pending[t]
      BY <3>1
    <3> QED
      BY <2>1, <2>3, <3>2, <3>3 DEF Numbered, Unanswered
  <2> QED
    BY <2>2, <2>3
<1>3. ASSUME NEW t \in Trigger, drop_pending_action(t) PROVE Numbered' /\ Unanswered'
  <2>1. /\ UNCHANGED <<triggers, heard, fresh, inflight, execs>>
        /\ \A x \in Trigger : pending'[x] = pending[x] \/ pending'[x] = None
    BY <1>3 DEF drop_pending_action, NotWorld, world, StoreOK
  <2> QED
    BY <2>1 DEF Numbered, Unanswered
<1>4. CASE Restart
  <2>1. UNCHANGED <<triggers, heard, fresh, execs>> /\ \A t \in Trigger : inflight'[t] = None
    BY <1>4 DEF Restart, world
  <2>2. ASSUME NEW t \in Trigger, pending'[t] # None
        PROVE  \/ pending[t] # None /\ pending'[t].id = pending[t].id
               \/ inflight[t] # None /\ pending'[t].id = inflight[t].id
    <3>1. pending'[t] = IF pending[t] = None THEN inflight[t] ELSE merge_action_batch(inflight[t], pending[t])
      BY <1>4 DEF Restart
    <3>2. inflight[t] \in Batch \cup {None} /\ pending[t] \in Batch \cup {None}
      BY DEF StoreOK
    <3>3. CASE pending[t] = None
      BY <2>2, <3>1, <3>3
    <3>4. CASE pending[t] # None
      <4>1. pending'[t].id = pending[t].id
        BY <3>1, <3>2, <3>4, MergedId
      <4> QED
        BY <3>4, <4>1
    <3> QED
      BY <3>3, <3>4
  <2> QED
    BY <2>1, <2>2 DEF Numbered, Unanswered
<1>5. CASE \/ PollBegins \/ ScanFails \/ replace_root_snapshot \/ LoadTriggers \/ cooldown_ready_action_ids
           \/ pause_for_circuit_breaker \/ PollEnds \/ save_offline_report \/ RefreshAfterReport
           \/ \E t \in Trigger : Hold(t)
  <2>1. UNCHANGED <<heard, pending, inflight, fresh, execs>>
    BY <1>5 DEF PollBegins, ScanFails, replace_root_snapshot, LoadTriggers, cooldown_ready_action_ids,
       pause_for_circuit_breaker, PollEnds, save_offline_report, RefreshAfterReport, Hold, NotWorld, world, store
  <2>2. \A t \in Trigger : triggers[t] = None => triggers'[t] = None
    BY <1>5 DEF PollBegins, ScanFails, replace_root_snapshot, LoadTriggers, cooldown_ready_action_ids, StoreOK, Copy,
       pause_for_circuit_breaker, PollEnds, save_offline_report, RefreshAfterReport, Hold, store, refresh_trigger_root_statuses
  <2> QED
    BY <2>1, <2>2, NumbersKeptBySame
<1>6. CASE \E root \in poller.roots : Rerecord(root) \/ Notice(root) \/ initialize_baseline(root)
  <2>1. UNCHANGED <<heard, pending, inflight, fresh, execs, triggers>>
    BY <1>6 DEF Rerecord, Notice, initialize_baseline, NotWorld, world
  <2> QED
    BY <2>1, NumbersKeptBySame
<1> QED
  BY <1>1, <1>2, <1>3, <1>4, <1>5, <1>6 DEF Poller

LEMMA NumbersKept ==
  LaunchInv /\ Numbered /\ Unanswered /\ [Next]_vars => Numbered' /\ Unanswered'
<1> SUFFICES ASSUME LaunchInv, Numbered, Unanswered, [Next]_vars PROVE Numbered' /\ Unanswered'
  OBVIOUS
<1>1. CASE World
  <2>1. UNCHANGED <<heard, pending, inflight, execs, triggers>> /\ fresh'.id = fresh.id
    <3>1. fresh \in [content : Nat, id : Nat]
      BY DEF LaunchInv, TypeOK, HistoryOK
    <3> QED
      BY <1>1, <3>1 DEF World, Edit, MoveRoot, Condition, Drift, FallsQuiet, CoolsDown, WindowPasses, store
  <2> QED
    BY <2>1, NumbersKeptBySame
<1>2. CASE Calls
  <2>1. CASE ForgetBatch
    <3>1. /\ UNCHANGED <<triggers, heard, execs, fresh>>
          /\ \A x \in Trigger : pending'[x] = pending[x] \/ pending'[x] = None
          /\ \A x \in Trigger : inflight'[x] = inflight[x] \/ inflight'[x] = None
      BY <2>1 DEF ForgetBatch, NotDisk, world, LaunchInv, TypeOK, StoreOK
    <3> QED
      BY <3>1 DEF Numbered, Unanswered
  <2>2. ASSUME NEW t \in Trigger, create_trigger(t) PROVE Numbered' /\ Unanswered'
    <3>1. /\ UNCHANGED <<heard, pending, inflight, execs, fresh>>
          /\ \A x \in Trigger \ {t} : triggers'[x] = triggers[x]
          /\ Unborn(t)
      BY <2>2, SavedInput DEF create_trigger, NotDisk, world, LaunchInv, Unborn, Deleting
    <3>2. pending[t] = None
      BY <3>1 DEF LaunchInv, Launching, UnbornIsUnknown
    <3> QED
      BY <3>1, <3>2 DEF Numbered, Unanswered
  <2>3. ASSUME \/ TestEnds
               \/ \E t \in Trigger : \/ update_trigger(t) \/ enable_trigger(t) \/ disable_trigger(t)
                                     \/ delete_trigger(t) \/ test_trigger(t)
        PROVE  Numbered' /\ Unanswered'
    <3>1. UNCHANGED <<heard, pending, inflight, execs, fresh>>
      BY <2>3 DEF TestEnds, update_trigger, enable_trigger, disable_trigger, delete_trigger, test_trigger, NotDisk, world
    <3>2. \A t \in Trigger : triggers[t] = None => triggers'[t] = None
      BY <2>3 DEF TestEnds, update_trigger, SaveInput, enable_trigger, disable_trigger, delete_trigger, test_trigger,
         NeedsReview, LaunchInv, TypeOK, StoreOK, Copy
    <3> QED
      BY <3>1, <3>2, NumbersKeptBySame
  <2> QED
    BY <1>2, <2>1, <2>2, <2>3 DEF Calls
<1>3. CASE Crash
  <2>1. UNCHANGED <<heard, pending, inflight, fresh, triggers>> /\ execs' = {}
    BY <1>3 DEF Crash, store, world
  <2> QED
    BY <2>1, NumbersKeptBySame
<1>4. CASE UNCHANGED vars
  BY <1>4 DEF vars, store, world, Numbered, Unanswered
<1> QED
  BY <1>1, <1>2, <1>3, <1>4, NumbersKeptByThreads, NumbersKeptByPoller DEF Next

-----------------------------------------------------------------------------
(* Contents *)

LEMMA ContentsKeptBySame ==
  ASSUME Contents, UNCHANGED <<disk, baseline, fresh>>, \A r \in Root : ~Advancing(r)'
  PROVE  Contents'
BY DEF Contents

\* A folder that was scanned is recorded with what it held then.
LEMMA ContentsKeptByScan ==
  ASSUME TypeOK, Contents, NEW root \in [id : Root, path : Nat], UNCHANGED <<disk, baseline, fresh>>, Scanned(root)
  PROVE  Contents'
<1>1. \A r \in Root : Advancing(r)' => r = root.id /\ poller'.files = disk[r]
  BY DEF Advancing, Scanned, Polls
<1>2. \A r \in Root : disk[r] \in [File -> Nat]
  BY DEF TypeOK, WorldOK
<1> QED
  BY <1>1, <1>2 DEF Contents

\* A folder is recorded: what was scanned, or what is there, is not newer than the newest.
LEMMA ContentsKeptByRecord ==
  ASSUME TypeOK, Contents, UNCHANGED <<disk, fresh>>, \A r \in Root : ~Advancing(r)',
         \A r \in Root : \/ baseline'[r] \in {None, baseline[r]}
                         \/ Advancing(r) /\ baseline'[r].files = poller.files
                         \/ baseline'[r].files = disk[r]
  PROVE  Contents'
BY DEF Contents

LEMMA ContentsKeptByWorld ==
  ASSUME TypeOK, Contents, World
  PROVE  Contents'
<1> USE DEF TypeOK
<1>1. UNCHANGED <<baseline, poller>>
  BY DEF World, Edit, MoveRoot, Condition, Drift, FallsQuiet, CoolsDown, WindowPasses, store
<1>2. fresh.content \in Nat /\ disk \in [Root -> [File -> Nat]]
  BY DEF HistoryOK, WorldOK
<1>3. \A r \in Root, f \in File :
        /\ disk[r][f] \in Nat
        /\ baseline[r] # None => baseline[r].files[f] \in Nat
        /\ Advancing(r) => poller.files[f] \in Nat
  BY <1>2, PollerTyped DEF StoreOK, Recorded, Advancing
<1>4. ASSUME fresh'.content = fresh.content + 1,
             \A r \in Root, f \in File : disk'[r][f] \in {disk[r][f], fresh.content, 0}
      PROVE  Contents'
  <2> SUFFICES ASSUME NEW r \in Root, NEW f \in File
               PROVE  /\ disk'[r][f] < fresh'.content
                      /\ baseline[r] # None => baseline[r].files[f] < fresh'.content
                      /\ Advancing(r) => poller.files[f] < fresh'.content
                      /\ Advancing(r) /\ baseline[r] # None /\ disk'[r][f] = baseline[r].files[f]
                           => disk'[r][f] = 0 \/ poller.files[f] = disk'[r][f]
    BY <1>1 DEF Contents, Advancing
  <2>1. /\ disk[r][f] < fresh.content
        /\ baseline[r] # None => baseline[r].files[f] < fresh.content
        /\ Advancing(r) => poller.files[f] < fresh.content
        /\ Advancing(r) /\ baseline[r] # None /\ disk[r][f] = baseline[r].files[f]
             => disk[r][f] = 0 \/ poller.files[f] = disk[r][f]
    BY DEF Contents
  <2>2. disk'[r][f] \in {disk[r][f], fresh.content, 0}
    BY <1>4
  <2> QED
    BY <1>2, <1>3, <1>4, <2>1, <2>2
<1>5. ASSUME NEW r \in Root, NEW f \in File, Edit(r, f) PROVE Contents'
  <2>1. fresh'.content = fresh.content + 1
    BY <1>5 DEF Edit, HistoryOK
  <2>2. \A s \in Root, g \in File : disk'[s][g] \in {disk[s][g], fresh.content, 0}
    BY <1>2, <1>5 DEF Edit
  <2> QED
    BY <1>4, <2>1, <2>2
<1>6. ASSUME NEW r \in Root, MoveRoot(r) PROVE Contents'
  <2>1. fresh'.content = fresh.content + 1
    BY <1>6 DEF MoveRoot, HistoryOK
  <2>2. \A s \in Root, g \in File : disk'[s][g] \in {disk[s][g], fresh.content, 0}
    BY <1>2, <1>6 DEF MoveRoot
  <2> QED
    BY <1>4, <2>1, <2>2
<1>7. CASE UNCHANGED <<disk, fresh>>
  BY <1>1, <1>7 DEF Contents, Advancing
<1> QED
  BY <1>5, <1>6, <1>7 DEF World, Condition, Drift, FallsQuiet, CoolsDown, WindowPasses

LEMMA ContentsKept == LaunchInv /\ Contents /\ [Next]_vars => Contents'
<1> SUFFICES ASSUME LaunchInv, Contents, [Next]_vars PROVE Contents'
  OBVIOUS
<1>1. TypeOK
  BY DEF LaunchInv
<1>2. CASE Poller
  <2>1. CASE replace_root_snapshot
    <3>1. /\ UNCHANGED <<disk, fresh>> /\ poller.pc = "advancing" /\ poller'.pc = "scanning"
          /\ baseline' = [baseline EXCEPT ![poller.root] = [path |-> poller.path, files |-> poller.files]]
      BY <2>1 DEF replace_root_snapshot, NotWorld, world, Polls
    <3>2. \A r \in Root : \/ baseline'[r] = baseline[r]
                          \/ Advancing(r) /\ baseline'[r].files = poller.files
      BY <1>1, <3>1 DEF TypeOK, StoreOK, Advancing
    <3>3. \A r \in Root : ~Advancing(r)'
      BY <3>1 DEF Advancing
    <3> QED
      BY <1>1, <3>1, <3>2, <3>3, ContentsKeptByRecord
  <2>2. CASE Restart
    <3>1. UNCHANGED <<disk, fresh>> /\ poller'.pc = "recording"
      BY <2>2 DEF Restart, world, Polls
    <3>2. \A r \in Root : baseline'[r] \in {None, baseline[r]}
      BY <2>2 DEF Restart
    <3> QED
      BY <1>1, <3>1, <3>2, ContentsKeptByRecord DEF Advancing
  <2>3. ASSUME poller.pc \in {"scanning", "recording"}, NEW root \in poller.roots,
               Rerecord(root) \/ Notice(root) \/ initialize_baseline(root)
        PROVE  Contents'
    <3>1. root \in [id : Root, path : Nat]
      BY <1>1, <2>3, PollerTyped DEF Folders, TypeOK
    <3>2. UNCHANGED <<disk, fresh>>
      BY <2>3 DEF Rerecord, Notice, initialize_baseline, NotWorld, world
    <3>3. CASE Rerecord(root)
      BY <1>1, <3>1, <3>2, <3>3, ContentsKeptByScan DEF Rerecord
    <3>4. CASE Notice(root)
      <4>1. UNCHANGED baseline
        BY <3>4 DEF Notice
      <4>2. CASE Scanned(root)
        BY <1>1, <3>1, <3>2, <4>1, <4>2, ContentsKeptByScan
      <4>3. CASE poller' = [pc |-> "scanning", roots |-> poller.roots \ {root}]
        BY <3>2, <4>1, <4>3, ContentsKeptBySame DEF Advancing
      <4> QED
        BY <3>4, <4>2, <4>3 DEF Notice, Polls
    <3>5. CASE initialize_baseline(root)
      <4>1. \A r \in Root : baseline'[r] = baseline[r] \/ baseline'[r].files = disk[r]
        BY <1>1, <3>1, <3>5 DEF initialize_baseline, TypeOK, StoreOK
      <4>2. poller'.pc = "recording"
        BY <3>5 DEF initialize_baseline, Polls
      <4> QED
        BY <1>1, <3>2, <4>1, <4>2, ContentsKeptByRecord DEF Advancing
    <3> QED
      BY <2>3, <3>3, <3>4, <3>5
  <2>4. CASE \/ PollBegins \/ ScanFails \/ LoadTriggers \/ cooldown_ready_action_ids
             \/ pause_for_circuit_breaker \/ PollEnds \/ save_offline_report \/ RefreshAfterReport
    <3>1. UNCHANGED <<disk, baseline, fresh>> /\ poller'.pc # "advancing"
      BY <2>4 DEF PollBegins, ScanFails, LoadTriggers, cooldown_ready_action_ids,
         pause_for_circuit_breaker, PollEnds, save_offline_report, RefreshAfterReport, NotWorld, world, store, Polls
    <3> QED
      BY <3>1, ContentsKeptBySame DEF Advancing
  <2>5. ASSUME NEW t \in Trigger, drop_pending_action(t) \/ Hold(t) \/ claim_pending_batch(t)
        PROVE  Contents'
    <3>1. poller.pc = "dispatching"
      BY <2>5 DEF drop_pending_action, Hold, claim_pending_batch, Dispatching
    <3>2. UNCHANGED <<disk, baseline, fresh>> /\ poller'.pc # "advancing"
      BY <1>1, <2>5, <3>1, DoneWithTyped DEF drop_pending_action, Hold, claim_pending_batch, NotWorld, world, store, Polls, TypeOK
    <3> QED
      BY <3>2, ContentsKeptBySame DEF Advancing
  <2>6. CASE dispatch_mature_batches
    <3>1. /\ UNCHANGED <<disk, baseline>> /\ fresh'.content = fresh.content /\ poller'.pc = "readying"
      BY <1>1, <2>6 DEF dispatch_mature_batches, Polls, TypeOK, HistoryOK
    <3> QED
      BY <3>1 DEF Contents, Advancing
  <2> QED
    BY <1>2, <2>1, <2>2, <2>3, <2>4, <2>5, <2>6 DEF Poller
<1>3. CASE Executors
  <2>1. UNCHANGED <<disk, baseline, fresh, poller>>
    BY <1>3 DEF Executors, save_run, execute_action, update_trigger_failure_status, launch_trigger_ends, store, world
  <2> QED
    BY <2>1 DEF Contents, Advancing
<1>4. CASE Calls
  <2>1. UNCHANGED <<disk, baseline, fresh, poller>>
    BY <1>4 DEF Calls, ForgetBatch, TestEnds, create_trigger, update_trigger, enable_trigger, disable_trigger,
       delete_trigger, test_trigger, NotDisk, world
  <2> QED
    BY <2>1 DEF Contents, Advancing
<1>5. CASE Crash
  <2>1. UNCHANGED <<disk, baseline, fresh>> /\ poller'.pc = "down"
    BY <1>5 DEF Crash, store, world, Polls
  <2> QED
    BY <2>1, ContentsKeptBySame DEF Advancing
<1>6. CASE UNCHANGED vars
  BY <1>6 DEF vars, store, world, Contents, Advancing
<1> QED
  BY <1>1, <1>2, <1>3, <1>4, <1>5, <1>6, ContentsKeptByWorld DEF Next

-----------------------------------------------------------------------------
(* What the steps do to the layers *)

\* A folder hands its changes to the waiting batch.
LEMMA HandOverFits ==
  ASSUME NEW i \in MaybeChange, NEW p \in MaybeChange, NEW q \in MaybeChange, NEW learnt,
         NEW iAnswered, NEW pAnswered, Fits(i, iAnswered, p, pAnswered, q, learnt),
         p # None /\ pAnswered => p.kind # "created"
  PROVE  /\ Fits(i, iAnswered, merge_change(p, q), FALSE, None, learnt)
         /\ \A x \in Top(i, p, q, learnt) : x \in Top(i, merge_change(p, q), None, learnt)
<1>1. /\ Sound(merge_change(p, q), FALSE, After(i, learnt), learnt)
      /\ \A x : x \in After(q, After(p, After(i, learnt))) => x \in After(merge_change(p, q), After(i, learnt))
  BY MergeSound DEF Fits
<1>2. \A below : After(None, below) = below /\ Sound(None, FALSE, below, learnt)
  BY DEF After, Sound
<1> QED
  BY <1>1, <1>2 DEF Fits, Top

\* A restart merges the waiting batch onto the launched one.
LEMMA TakeBackFits ==
  ASSUME NEW i \in MaybeChange, NEW p \in MaybeChange, NEW q \in MaybeChange, NEW learnt,
         NEW iAnswered, NEW none, Fits(i, iAnswered, p, FALSE, q, learnt),
         i # None /\ iAnswered => i.kind # "created"
  PROVE  /\ Fits(None, none, merge_change(i, p), FALSE, q, learnt)
         /\ \A x \in Top(i, p, q, learnt) : x \in Top(None, merge_change(i, p), q, learnt)
<1>1. /\ Sound(merge_change(i, p), FALSE, learnt, learnt)
      /\ \A x : x \in After(p, After(i, learnt)) => x \in After(merge_change(i, p), learnt)
  BY MergeSound DEF Fits
<1>2. \A below : After(None, below) = below /\ Sound(None, none, below, learnt)
  BY DEF After, Sound
<1>3. Sound(q, FALSE, After(merge_change(i, p), learnt), learnt)
  BY <1>1 DEF Fits, Sound
<1> QED
  BY <1>1, <1>2, <1>3 DEF Fits, Top, After

\* A launch, and a batch that goes back to wait.
LEMMA MoveFits ==
  ASSUME NEW i, NEW iAnswered, NEW q, NEW learnt, NEW none
  PROVE  /\ Fits(i, iAnswered, None, none, q, learnt) <=> Fits(None, none, i, iAnswered, q, learnt)
         /\ Top(i, None, q, learnt) = Top(None, i, q, learnt)
BY DEF Fits, Sound, Top, After

\* A launched change that was answered is done with.
LEMMA DoneFits ==
  ASSUME NEW i, NEW p, NEW q, NEW learnt, NEW iAnswered, NEW pAnswered, NEW none, i # None => iAnswered,
         Fits(i, iAnswered, p, pAnswered, q, learnt)
  PROVE  /\ Fits(None, none, p, pAnswered, q, learnt)
         /\ \A x \in Top(i, p, q, learnt) : x \in Top(None, p, q, learnt)
<1>1. CASE i = None
  BY <1>1 DEF Fits, Sound, Top, After
<1>2. CASE i # None
  BY <1>2 DEF Fits, Sound, Top, After
<1> QED
  BY <1>1, <1>2

\* No change in a layer: whether its batch was answered does not matter.
LEMMA NoChangeFits ==
  ASSUME NEW i, NEW p, NEW q, NEW learnt, NEW iAnswered, NEW pAnswered, NEW iNow, NEW pNow,
         Fits(i, iAnswered, p, pAnswered, q, learnt),
         i = None \/ (iNow <=> iAnswered), p = None \/ (pNow <=> pAnswered)
  PROVE  Fits(i, iNow, p, pNow, q, learnt)
BY DEF Fits, Sound

\* What a merged batch says of a file.
LEMMA MergedChange ==
  ASSUME NEW existing \in Batch \cup {None}, NEW incoming \in Batch, NEW f \in File
  PROVE  ChangeIn(merge_action_batch(existing, incoming), f) = merge_change(ChangeIn(existing, f), ChangeIn(incoming, f))
<1>1. incoming # None /\ merge_action_batch(existing, incoming) # None
  BY BatchMergeTyped, DocumentAssumption
<1>2. CASE existing = None
  BY <1>1, <1>2 DEF merge_action_batch, ChangeIn, merge_change
<1>3. CASE existing # None
  BY <1>1, <1>3 DEF merge_action_batch, merge_changes, ChangeIn
<1> QED
  BY <1>2, <1>3

\* A folder that is still recorded as before, and a file of it that is still stale or reported.
BaseKept(r, f) ==
  /\ baseline[r] # None => baseline'[r] # None
  /\ Base(r)'[f] = Base(r)[f]
  /\ Stale(r, f) => Stale(r, f)'
  /\ Reported(r, f) => Reported(r, f)'

LEMMA BaseKeptByOthers ==
  ASSUME UNCHANGED <<baseline, disk>>,
         \/ UNCHANGED poller
         \/ poller.pc \notin {"advancing", "recording"} /\ poller'.pc # "advancing",
         NEW r, NEW f
  PROVE  BaseKept(r, f)
BY DEF BaseKept, Base, Advancing, Stale, Reported

layerVars == <<inflight, pending, pendingRoots, known, heard>>

LEMMA CarriesKeptBySame ==
  ASSUME Carries, UNCHANGED layerVars,
         \A t \in Trigger, f \in File : Watched(t, f)' => Watched(t, f) /\ BaseKept(HomeRoot[t], f)
  PROVE  Carries'
<1> SUFFICES ASSUME NEW t \in Trigger, NEW f \in File, Watched(t, f)'
             PROVE  baseline'[HomeRoot[t]] # None /\ Layered(t, f)' /\ Recent(t, f)'
  BY DEF Carries
<1>1. /\ Layered(t, f)' <=> Layered(t, f)
      /\ TopOf(t, f)' = TopOf(t, f)
  BY DEF layerVars, Layered, TopOf, ChangeIn, ChangeOf, Answered
<1>2. baseline[HomeRoot[t]] # None /\ Layered(t, f) /\ Recent(t, f) /\ BaseKept(HomeRoot[t], f)
  BY DEF Carries
<1> QED
  BY <1>1, <1>2 DEF Recent, BaseKept

\* One file of one trigger, whose layers change.
LEMMA RecentKept ==
  ASSUME NEW t \in Trigger, NEW f \in File, Recent(t, f), BaseKept(HomeRoot[t], f),
         \A x \in TopOf(t, f) : x \in TopOf(t, f)'
  PROVE  Recent(t, f)'
BY DEF Recent, BaseKept


-----------------------------------------------------------------------------
(* Carries *)

\* Files that are edited or moved: what was stale is so still.
LEMMA WorldCarries ==
  ASSUME LaunchInv, Contents, Carries, World
  PROVE  Carries'
<1> USE DEF LaunchInv, TypeOK
<1>1. /\ UNCHANGED <<store, poller, ghosts, heard>>
      /\ \A r \in Root, f \in File : disk'[r][f] \in {disk[r][f], fresh.content, 0}
  <2>1. UNCHANGED <<store, poller, ghosts, heard>>
    BY DEF World, Edit, MoveRoot, Condition, Drift, FallsQuiet, CoolsDown, WindowPasses
  <2>2. disk \in [Root -> [File -> Nat]]
    BY DEF WorldOK
  <2>3. ASSUME NEW r \in Root, NEW f \in File
        PROVE  disk'[r][f] \in {disk[r][f], fresh.content, 0}
    <3>1. ASSUME NEW x \in Root, NEW g \in File, Edit(x, g) PROVE disk'[r][f] \in {disk[r][f], fresh.content, 0}
      BY <2>2, <3>1 DEF Edit
    <3>2. ASSUME NEW x \in Root, MoveRoot(x) PROVE disk'[r][f] \in {disk[r][f], fresh.content, 0}
      BY <2>2, <3>2 DEF MoveRoot
    <3>3. CASE UNCHANGED disk
      BY <3>3
    <3> QED
      BY <3>1, <3>2, <3>3 DEF World, Condition, Drift, FallsQuiet, CoolsDown, WindowPasses
  <2> QED
    BY <2>1, <2>3
<1>2. ASSUME NEW t \in Trigger, NEW f \in File, Watched(t, f)'
      PROVE  Watched(t, f) /\ BaseKept(HomeRoot[t], f)
  <2> DEFINE r == HomeRoot[t]
  <2>1. Watched(t, f) /\ baseline[r] # None /\ r \in Root
    BY <1>1, <1>2, DocumentAssumption DEF Watched, store, ghosts, Carries
  <2>2. Base(r)[f] < fresh.content /\ Base(r)[f] \in Nat /\ fresh.content \in Nat
    BY <2>1, PollerTyped DEF Contents, Base, Advancing, StoreOK, Recorded, HistoryOK
  <2>3. UNCHANGED <<Base(r), baseline, poller>>
    BY <1>1 DEF Base, Advancing, store
  <2>4. disk'[r][f] \in {disk[r][f], fresh.content, 0}
    BY <1>1, <2>1
  <2>5. Stale(r, f) => Stale(r, f)'
    BY <2>2, <2>3, <2>4 DEF Stale
  <2> QED
    BY <2>1, <2>3, <2>5 DEF BaseKept, Reported
<1> QED
  BY <1>1, <1>2, CarriesKeptBySame DEF layerVars, store, ghosts

\* Steps of the poller that leave layers, folders and files alone.
LEMMA PollCarries ==
  ASSUME LaunchInv, Carries,
         \/ PollBegins \/ ScanFails \/ LoadTriggers \/ cooldown_ready_action_ids
         \/ pause_for_circuit_breaker \/ PollEnds \/ RefreshAfterReport
         \/ \E t \in Trigger : Hold(t)
  PROVE  Carries'
<1>1. UNCHANGED <<layerVars, baseline, disk, waived>>
  BY DEF PollBegins, ScanFails, LoadTriggers, cooldown_ready_action_ids, pause_for_circuit_breaker, PollEnds,
         RefreshAfterReport, Hold, NotWorld, world, store, ghosts, layerVars
<1>2. poller.pc \notin {"advancing", "recording"} /\ poller'.pc # "advancing"
  <2>1. CASE \E t \in Trigger : Hold(t)
    <3>1. poller.pc = "dispatching"
      BY <2>1 DEF Hold, Dispatching
    <3> QED
      BY <2>1, <3>1, DoneWithTyped DEF Hold, Polls, LaunchInv, TypeOK
  <2> QED
    BY <2>1 DEF PollBegins, ScanFails, LoadTriggers, cooldown_ready_action_ids, pause_for_circuit_breaker, PollEnds,
         RefreshAfterReport, Polls
<1>3. \A t \in Trigger : triggers[t] = None => triggers'[t] = None
  BY DEF PollBegins, ScanFails, LoadTriggers, cooldown_ready_action_ids, pause_for_circuit_breaker, PollEnds,
         RefreshAfterReport, Hold, store, refresh_trigger_root_statuses, LaunchInv, TypeOK, StoreOK, Copy
<1> QED
  BY <1>1, <1>2, <1>3, CarriesKeptBySame, BaseKeptByOthers DEF Watched

\* A folder is scanned: its changes go on top of its layers.
LEMMA NoticeCarries ==
  ASSUME LaunchInv, Carries, poller.pc = "scanning", NEW root \in poller.roots, Notice(root)
  PROVE  Carries'
<1> USE DEF LaunchInv, TypeOK
<1> DEFINE r == root.id
           waiting == IF pendingRoots[r] = None THEN NoChanges ELSE pendingRoots[r]
           changes == compare_snapshots(baseline[r].files, disk[r])
<1>1. r \in Root /\ RecordedAt(r, root.path) /\ baseline[r] # None
  BY PollerTyped DEF Folders, Notice, RecordedAt
<1>2. UNCHANGED <<triggers, baseline, pending, inflight, known, waived, heard, disk>> /\ None \notin Changes
  BY DocumentAssumption DEF Notice, ghosts
<1>3. CASE changes = NoChanges
  <2>1. UNCHANGED <<layerVars, baseline, disk, triggers, waived>> /\ poller'.pc = "scanning"
    BY <1>2, <1>3 DEF Notice, layerVars, Polls
  <2> QED
    BY <2>1, CarriesKeptBySame, BaseKeptByOthers DEF Watched
<1>4. CASE changes # NoChanges
  <2>1. pendingRoots' = [pendingRoots EXCEPT ![r] = merge_changes(waiting, changes)]
    BY <1>4 DEF Notice
  <2>2. /\ poller'.pc = "advancing" /\ poller'.root = r /\ poller'.files = disk[r]
    BY <1>4 DEF Notice, Scanned, Polls
  <2>3. \A x \in Root : ~Advancing(x) /\ Base(x) = baseline[x].files /\ (Advancing(x)' <=> x = r)
    BY <2>2 DEF Base, Advancing
  <2>4. merge_changes(waiting, changes) \in Changes
    <3>1. changes \in Changes
      BY <1>1, ComparedTyped DEF StoreOK, WorldOK, Recorded
    <3>2. waiting \in Changes
      BY <1>1 DEF StoreOK, NoChanges, Changes
    <3> QED
      BY <3>1, <3>2, MergedTyped
  <2> SUFFICES ASSUME NEW t \in Trigger, NEW f \in File, Watched(t, f)'
               PROVE  baseline'[HomeRoot[t]] # None /\ Layered(t, f)' /\ Recent(t, f)'
    BY DEF Carries
  <2>5. Watched(t, f) /\ baseline[HomeRoot[t]] # None /\ Layered(t, f) /\ Recent(t, f) /\ HomeRoot[t] \in Root
    BY <1>2, DocumentAssumption DEF Watched, Carries
  <2>6. CASE HomeRoot[t] # r
    <3>1. pendingRoots'[HomeRoot[t]] = pendingRoots[HomeRoot[t]]
      BY <2>1, <2>5, <2>6 DEF StoreOK
    <3>2. UNCHANGED <<Layered(t, f), TopOf(t, f)>>
      BY <1>2, <3>1 DEF Layered, TopOf, ChangeIn, ChangeOf, Answered
    <3>3. BaseKept(HomeRoot[t], f)
      BY <1>2, <2>2, <2>3, <2>5, <2>6 DEF BaseKept, Base, Advancing, Stale, Reported
    <3> QED
      BY <1>2, <2>5, <3>2, <3>3, RecentKept
  <2>7. CASE HomeRoot[t] = r
    <3> DEFINE i == ChangeIn(inflight[t], f)
               p == ChangeIn(pending[t], f)
               q == ChangeOf(r, f)
               before == baseline[r].files[f]
               now == disk[r][f]
    <3>1. i \in MaybeChange /\ p \in MaybeChange /\ q \in MaybeChange /\ known[t][f] \in SUBSET Nat
      BY <2>5, <2>7, FilesChanged DEF StoreOK, HistoryOK
    <3>2. before \in Nat /\ now \in Nat
      BY <1>1 DEF StoreOK, Recorded, WorldOK
    <3>3. Fits(i, Answered(t, inflight[t]), p, Answered(t, pending[t]), q, known[t][f])
      BY <2>5, <2>7 DEF Layered
    <3>4. before \in Top(i, p, q, known[t][f]) \/ (before # 0 /\ now # before)
      BY <2>3, <2>5, <2>7 DEF Recent, TopOf, Stale, Reported
    <3>5. ChangeOf(r, f)' = merge_change(q, Difference(before, now))
      <4>1. pendingRoots'[r] = merge_changes(waiting, changes) /\ pendingRoots'[r] # None
        BY <1>1, <1>2, <2>1, <2>4 DEF StoreOK
      <4>2. waiting[f] = q /\ changes[f] = Difference(before, now)
        BY DEF NoChanges, ChangeOf, compare_snapshots
      <4> QED
        BY <4>1, <4>2 DEF ChangeOf, merge_changes
    <3> DEFINE top == merge_change(q, Difference(before, now))
               iA == Answered(t, inflight[t])
               pA == Answered(t, pending[t])
    <3>6. Fits(i, iA, p, pA, top, known[t][f]) /\ now \in Top(i, p, top, known[t][f])
      <4> HIDE DEF i, p, q, before, now, iA, pA
      <4>1. Fits(i, iA, p, pA, q, known[t][f])
        BY <3>3 DEF iA, pA, i, p, q
      <4> QED
        BY <3>1, <3>2, <3>4, <4>1, NoticeFits
    <3>7. Layered(t, f)' /\ now \in TopOf(t, f)'
      BY <1>2, <2>7, <3>5, <3>6 DEF Layered, TopOf, ChangeIn, Answered
    <3>8. Base(r)'[f] = now
      BY <2>2 DEF Base, Advancing
    <3> QED
      BY <1>2, <2>5, <2>7, <3>7, <3>8 DEF Recent
  <2> QED
    BY <2>6, <2>7
<1> QED
  BY <1>3, <1>4

\* A folder of which nothing is recorded hides its files; what was scanned is recorded.
LEMMA RecordCarries ==
  ASSUME LaunchInv, Carries,
         \/ replace_root_snapshot
         \/ poller.pc = "scanning" /\ \E root \in poller.roots : Rerecord(root)
  PROVE  Carries'
<1> USE DEF LaunchInv, TypeOK
<1>1. CASE replace_root_snapshot
  <2>1. /\ UNCHANGED <<layerVars, disk, triggers, waived>> /\ poller.pc = "advancing" /\ poller'.pc = "scanning"
        /\ baseline' = [baseline EXCEPT ![poller.root] = [path |-> poller.path, files |-> poller.files]]
    BY <1>1 DEF replace_root_snapshot, NotWorld, world, layerVars, Polls, ghosts
  <2>2. [path |-> poller.path, files |-> poller.files] # None
    <3>1. [path |-> poller.path, files |-> poller.files] \in Recorded
      BY <2>1, PollerTyped DEF Recorded
    <3> QED
      BY <3>1, DocumentAssumption
  <2>3. ASSUME NEW t \in Trigger, NEW f \in File, Watched(t, f)' PROVE Watched(t, f) /\ BaseKept(HomeRoot[t], f)
    <3>1. HomeRoot[t] \in Root /\ poller.root \in Root
      BY <2>1, PollerTyped, DocumentAssumption
    <3>2. Base(HomeRoot[t])' = Base(HomeRoot[t]) /\ (baseline[HomeRoot[t]] # None => baseline'[HomeRoot[t]] # None)
      BY <2>1, <2>2, <3>1 DEF Base, Advancing, StoreOK
    <3> QED
      BY <2>1, <2>3, <3>2 DEF Watched, BaseKept, Stale, Reported
  <2> QED
    BY <2>1, <2>3, CarriesKeptBySame
<1>2. ASSUME poller.pc = "scanning", NEW root \in poller.roots, Rerecord(root) PROVE Carries'
  <2> DEFINE r == root.id
  <2>1. r \in Root
    BY <1>2, PollerTyped DEF Folders
  <2>2. /\ UNCHANGED <<baseline, pending, inflight, known, heard, disk, triggers>> /\ poller'.pc = "advancing"
        /\ poller'.root = r
        /\ \A x \in Root \ {r} : pendingRoots'[x] = pendingRoots[x]
        /\ waived' = [t \in Trigger |-> IF t \in Watching(r) THEN waived[t] \cup File ELSE waived[t]]
    BY <1>2 DEF Rerecord, NotWorld, world, Scanned, Polls, StoreOK, Waive
  <2> SUFFICES ASSUME NEW t \in Trigger, NEW f \in File, Watched(t, f)'
               PROVE  baseline'[HomeRoot[t]] # None /\ Layered(t, f)' /\ Recent(t, f)'
    BY DEF Carries
  <2>3. HomeRoot[t] \in Root \ {r} /\ Watched(t, f)
    BY <2>1, <2>2, DocumentAssumption DEF Watched, Watching
  <2>4. UNCHANGED <<Layered(t, f), TopOf(t, f)>>
    BY <2>2, <2>3 DEF Layered, TopOf, ChangeIn, ChangeOf, Answered
  <2>5. BaseKept(HomeRoot[t], f)
    BY <1>2, <2>2, <2>3 DEF BaseKept, Base, Advancing, Stale, Reported
  <2> QED
    BY <2>2, <2>3, <2>4, <2>5, RecentKept DEF Carries
<1> QED
  BY <1>1, <1>2

\* At a restart the folders are recorded as they are, and what changed is reported.
LEMMA BaselineCarries ==
  ASSUME LaunchInv, Carries, NEW root \in poller.roots, initialize_baseline(root)
  PROVE  Carries'
<1> USE DEF LaunchInv, TypeOK
<1> DEFINE r == root.id
           changes == compare_snapshots(baseline[r].files, disk[r])
<1>1. poller.pc = "recording" /\ r \in Root /\ root.path \in Nat /\ poller'.pc = "recording"
  BY PollerTyped DEF Folders, initialize_baseline, Polls
<1>2. /\ UNCHANGED <<layerVars, disk, triggers>>
      /\ baseline' = [baseline EXCEPT ![r] = [path |-> root.path, files |-> disk[r]]]
  BY DEF initialize_baseline, NotWorld, world, layerVars
<1>3. [path |-> root.path, files |-> disk[r]] # None
  <2>1. [path |-> root.path, files |-> disk[r]] \in Recorded
    BY <1>1 DEF Recorded, WorldOK
  <2> QED
    BY <2>1, DocumentAssumption
<1>4. /\ waived' = waived \/ waived' = [t \in Trigger |-> IF t \in Watching(r) THEN waived[t] \cup File ELSE waived[t]]
      /\ RecordedAt(r, root.path) \/ waived' = [t \in Trigger |-> IF t \in Watching(r) THEN waived[t] \cup File ELSE waived[t]]
  BY DEF initialize_baseline, Waive
<1>5. /\ poller.report \subseteq poller'.report
      /\ RecordedAt(r, root.path) => {<<r, f>> : f \in FilesOf(changes)} \subseteq poller'.report
  BY DEF initialize_baseline, Polls
<1> SUFFICES ASSUME NEW t \in Trigger, NEW f \in File, Watched(t, f)'
             PROVE  baseline'[HomeRoot[t]] # None /\ Layered(t, f)' /\ Recent(t, f)'
  BY DEF Carries
<1>6. HomeRoot[t] \in Root /\ Watched(t, f) /\ (HomeRoot[t] = r => RecordedAt(r, root.path))
  BY <1>2, <1>4, DocumentAssumption DEF Watched, Watching, HistoryOK
<1>7. Layered(t, f) /\ Recent(t, f) /\ baseline[HomeRoot[t]] # None
  BY <1>6 DEF Carries
<1>8. UNCHANGED <<Layered(t, f), TopOf(t, f)>>
  BY <1>2 DEF layerVars, Layered, TopOf, ChangeIn, ChangeOf, Answered
<1>9. Base(HomeRoot[t]) = baseline[HomeRoot[t]].files /\ Base(HomeRoot[t])' = baseline'[HomeRoot[t]].files
  BY <1>1 DEF Base, Advancing
<1>10. CASE HomeRoot[t] # r
  <2>1. baseline'[HomeRoot[t]] = baseline[HomeRoot[t]]
    BY <1>2, <1>6, <1>10 DEF StoreOK
  <2>2. BaseKept(HomeRoot[t], f)
    BY <1>1, <1>2, <1>5, <1>9, <2>1 DEF BaseKept, Stale, Reported
  <2> QED
    BY <1>7, <1>8, <2>1, <2>2, RecentKept
<1>11. CASE HomeRoot[t] = r
  <2>1. baseline'[r].files = disk[r] /\ baseline'[r] # None
    BY <1>1, <1>2, <1>3 DEF StoreOK
  <2>2. CASE baseline[r].files[f] = disk[r][f]
    <3>1. Base(r)'[f] = Base(r)[f] /\ ~Stale(r, f)
      BY <1>9, <1>11, <2>1, <2>2 DEF Stale
    <3>2. Reported(r, f) => Reported(r, f)'
      BY <1>1, <1>5 DEF Reported
    <3> QED
      BY <1>7, <1>8, <1>11, <2>1, <3>1, <3>2 DEF Recent
  <2>3. CASE baseline[r].files[f] # disk[r][f]
    <3>1. changes \in Changes /\ changes[f] # None
      <4>1. changes \in Changes /\ changes[f] = Difference(baseline[r].files[f], disk[r][f])
        <5>1. baseline[r].files \in [File -> Nat] /\ disk[r] \in [File -> Nat]
          BY <1>1, <1>7, <1>11 DEF StoreOK, WorldOK, Recorded
        <5> QED
          BY <5>1, ComparedTyped DEF compare_snapshots
      <4>2. Difference(baseline[r].files[f], disk[r][f]) # None
        <5>1. disk[r][f] \in Nat
          BY <1>1 DEF WorldOK
        <5>2. Difference(baseline[r].files[f], disk[r][f]) \in Change
          BY <2>3, <5>1 DEF Difference, Change, ChangeKind
        <5> QED
          BY <5>2, DocumentAssumption
      <4> QED
        BY <4>1, <4>2
    <3>2. f \in FilesOf(changes)
      BY <3>1, DocumentAssumption DEF FilesOf
    <3>3. Reported(r, f)'
      BY <1>1, <1>5, <1>6, <1>11, <3>2 DEF Reported
    <3> QED
      BY <1>7, <1>8, <1>11, <2>1, <3>3 DEF Recent
  <2> QED
    BY <2>2, <2>3
<1> QED
  BY <1>10, <1>11

LEMMA ReportCarries ==
  ASSUME LaunchInv, Carries, save_offline_report
  PROVE  Carries'
<1> USE DEF LaunchInv, TypeOK
<1>1. /\ UNCHANGED <<layerVars, baseline, disk, triggers>> /\ poller.pc = "recording" /\ poller'.pc = "reporting"
      /\ waived' = [t \in Trigger |-> waived[t] \cup {f \in File : <<HomeRoot[t], f>> \in poller.report}]
  BY DEF save_offline_report, NotWorld, world, store, layerVars, Polls
<1>2. ASSUME NEW t \in Trigger, NEW f \in File, Watched(t, f)' PROVE Watched(t, f) /\ BaseKept(HomeRoot[t], f)
  <2>1. Watched(t, f) /\ ~Reported(HomeRoot[t], f)
    BY <1>1, <1>2 DEF Watched, Reported
  <2> QED
    BY <1>1, <2>1 DEF BaseKept, Base, Advancing, Stale
<1> QED
  BY <1>1, <1>2, CarriesKeptBySame

\* A step that marks nothing when nothing is excepted.
LEMMA NotMarked ==
  ASSUME TypeOK, NEW marks \in SUBSET Exceptions, Marked(marks), ~Excepted'
  PROVE  marks = {}
<1>1. events'.past = events.past \cup marks
  BY DEF Marked, TypeOK, HistoryOK
<1> QED
  BY <1>1 DEF Excepted

\* A trigger whose batches, events and learning a step leaves alone, and a folder whose changes it does.
LayersSame(t) ==
  /\ UNCHANGED <<triggers[t], pending[t], inflight[t], known[t], pendingRoots[HomeRoot[t]]>>
  /\ \A id \in Nat : <<t, id>> \in heard' <=> <<t, id>> \in heard

LEMMA SameLayers ==
  ASSUME TypeOK, Carries, NEW t \in Trigger, NEW f \in File, LayersSame(t), BaseKept(HomeRoot[t], f),
         Watched(t, f)', f \in waived[t] => f \in waived'[t]
  PROVE  baseline'[HomeRoot[t]] # None /\ Layered(t, f)' /\ Recent(t, f)'
<1>1. Watched(t, f)
  BY DEF Watched, LayersSame
<1>2. \A batch \in Batch \cup {None} : batch # None => batch.id \in Nat
  BY DEF Batch
<1>3. inflight[t] \in Batch \cup {None} /\ pending[t] \in Batch \cup {None}
  BY DEF TypeOK, StoreOK
<1>4. UNCHANGED <<Answered(t, inflight[t]), Answered(t, pending[t])>>
  BY <1>2, <1>3 DEF Answered, LayersSame
<1>5. UNCHANGED <<Layered(t, f), TopOf(t, f)>>
  BY <1>4 DEF Layered, TopOf, ChangeIn, ChangeOf, LayersSame
<1> QED
  BY <1>1, <1>5, RecentKept DEF Carries, BaseKept

\* A batch is launched: its trigger has nothing launched.
LEMMA ClaimCarries ==
  ASSUME LaunchInv, Carries, NEW t \in Trigger, claim_pending_batch(t)
  PROVE  Carries'
<1> USE DEF LaunchInv, TypeOK
<1>1. poller.pc = "dispatching" /\ poller'.pc = "dispatching" /\ t \in poller.ids
  BY DoneWithTyped DEF claim_pending_batch, Dispatching, Polls
<1>2. UNCHANGED <<triggers, baseline, pendingRoots, known, waived, heard, disk>>
  BY DEF claim_pending_batch, NotWorld, world
<1>3. \A r, f : BaseKept(r, f)
  BY <1>1, <1>2, BaseKeptByOthers
<1>4. CASE pending[t] = None
  <2>1. UNCHANGED layerVars
    BY <1>2, <1>4 DEF claim_pending_batch, layerVars
  <2> QED
    BY <1>2, <1>3, <2>1, CarriesKeptBySame DEF Watched
<1>5. CASE pending[t] # None
  <2>1. /\ inflight[t] = None /\ inflight'[t] = pending[t] /\ pending'[t] = None
        /\ \A x \in Trigger \ {t} : pending'[x] = pending[x] /\ inflight'[x] = inflight[x]
    <3>1. inflight[t] = None
      BY <1>1 DEF Launching, Threads, Choosing
    <3> QED
      BY <1>5, <3>1 DEF claim_pending_batch, StoreOK
  <2> SUFFICES ASSUME NEW x \in Trigger, NEW f \in File, Watched(x, f)'
               PROVE  baseline'[HomeRoot[x]] # None /\ Layered(x, f)' /\ Recent(x, f)'
    BY DEF Carries
  <2>2. CASE x # t
    <3>1. LayersSame(x)
      BY <1>2, <2>1, <2>2 DEF LayersSame
    <3> QED
      BY <1>2, <1>3, <3>1, SameLayers
  <2>3. CASE x = t
    <3>1. Layered(t, f) /\ Recent(t, f) /\ baseline'[HomeRoot[t]] # None
      BY <1>2, <2>3 DEF Watched, Carries
    <3>2. Layered(t, f)' /\ TopOf(t, f)' = TopOf(t, f)
      BY <1>2, <2>1, <3>1, MoveFits DEF Layered, TopOf, ChangeIn, ChangeOf, Answered
    <3> QED
      BY <1>3, <2>3, <3>1, <3>2, RecentKept
  <2> QED
    BY <2>2, <2>3
<1> QED
  BY <1>4, <1>5

\* A batch is dropped, and what it holds is waived.
LEMMA DropCarries ==
  ASSUME TypeOK, Carries, NEW t \in Trigger,
         UNCHANGED <<baseline, pendingRoots, known, heard, disk>>,
         \A x \in Trigger : triggers[x] = None => triggers'[x] = None,
         \A x \in Trigger \ {t} : pending'[x] = pending[x] /\ inflight'[x] = inflight[x] /\ triggers'[x] = triggers[x],
         pending'[t] = None,
         triggers'[t] # None => inflight'[t] = inflight[t],
         Waive({t}, BatchFiles(pending[t])),
         \A r, f : BaseKept(r, f)
  PROVE  Carries'
<1> SUFFICES ASSUME NEW x \in Trigger, NEW f \in File, Watched(x, f)'
             PROVE  baseline'[HomeRoot[x]] # None /\ Layered(x, f)' /\ Recent(x, f)'
  BY DEF Carries
<1>1. \A y \in Trigger : waived'[y] = IF y = t THEN waived[y] \cup BatchFiles(pending[t]) ELSE waived[y]
  BY DEF Waive
<1>2. CASE x # t
  <2>1. LayersSame(x)
    BY <1>2 DEF LayersSame
  <2> QED
    BY <1>1, <1>2, <2>1, SameLayers
<1>3. CASE x = t
  <2>1. Watched(t, f) /\ f \notin BatchFiles(pending[t]) /\ inflight'[t] = inflight[t]
    BY <1>1, <1>3 DEF Watched
  <2>2. ChangeIn(pending[t], f) = None
    BY <2>1, FilesChanged DEF TypeOK, StoreOK
  <2>3. Layered(t, f) /\ Recent(t, f) /\ baseline'[HomeRoot[t]] # None
    BY <2>1 DEF Carries
  <2>4. Layered(t, f)' /\ TopOf(t, f)' = TopOf(t, f)
    BY <2>1, <2>2, <2>3, NoChangeFits DEF Layered, TopOf, ChangeIn, ChangeOf, Answered
  <2> QED
    BY <1>3, <2>3, <2>4, RecentKept
<1> QED
  BY <1>2, <1>3

LEMMA GateCarries ==
  ASSUME LaunchInv, Carries, NEW t \in Trigger, drop_pending_action(t)
  PROVE  Carries'
<1> USE DEF LaunchInv, TypeOK
<1>1. poller.pc = "dispatching" /\ poller'.pc \in {"dispatching", "breaking"}
  BY DoneWithTyped DEF drop_pending_action, Dispatching, Polls
<1>2. /\ UNCHANGED <<triggers, baseline, pendingRoots, known, heard, disk, inflight>>
      /\ Waive({t}, BatchFiles(pending[t]))
      /\ pending' = [pending EXCEPT ![t] = None]
  BY DEF drop_pending_action, NotWorld, world
<1>3. pending'[t] = None /\ \A x \in Trigger \ {t} : pending'[x] = pending[x]
  BY <1>2 DEF StoreOK
<1> QED
  BY <1>1, <1>2, <1>3, DropCarries, BaseKeptByOthers

\* The action of a thread: it learns of the launched batch, unless it learnt of it before.
LEMMA ActionCarries ==
  ASSUME LaunchInv, Unanswered, Carries, NEW e \in execs, execute_action(e)
  PROVE  Carries'
<1> USE DEF LaunchInv, TypeOK
<1> DEFINE t == e.trigger
<1>1. /\ UNCHANGED <<triggers, baseline, pendingRoots, pending, inflight, disk, poller>>
      /\ t \in Trigger /\ e.batch \in Batch /\ e.batch.id \in Nat /\ <<t, e.batch.id>> = idempotency_key(e)
  BY DEF execute_action, store, ProcessOK, Thread, Batch, idempotency_key
<1>2. \A r, f : BaseKept(r, f)
  BY <1>1, BaseKeptByOthers
<1>3. triggers[t] # None => inflight[t] = e.batch
  BY DEF Launching, LaunchedIsSaved
<1>4. e.batch # None
  BY <1>1, DocumentAssumption
<1>5. CASE UNCHANGED <<heard, known>> /\ \A x \in Trigger : waived[x] \subseteq waived'[x]
  BY <1>1, <1>2, <1>5, CarriesKeptBySame DEF layerVars, Watched
<1>6. CASE /\ heard' = heard \cup {idempotency_key(e)} /\ waived' = waived
           /\ known' = [known EXCEPT ![t] =
                [f \in File |-> IF f \in BatchFiles(e.batch) /\ idempotency_key(e) \notin heard
                                THEN {e.batch.changes[f].content, disk[HomeRoot[t]][f]} ELSE @[f]]]
  <2> SUFFICES ASSUME NEW x \in Trigger, NEW f \in File, Watched(x, f)'
               PROVE  baseline'[HomeRoot[x]] # None /\ Layered(x, f)' /\ Recent(x, f)'
    BY DEF Carries
  <2>1. CASE x # t
    <3>1. known'[x] = known[x] /\ \A id \in Nat : <<x, id>> \in heard' <=> <<x, id>> \in heard
      BY <1>6, <2>1 DEF HistoryOK, idempotency_key
    <3> QED
      BY <1>1, <1>2, <1>6, <2>1, <3>1, SameLayers DEF LayersSame
  <2>2. CASE x = t
    <3> DEFINE i == ChangeIn(inflight[t], f)
               p == ChangeIn(pending[t], f)
               q == ChangeOf(HomeRoot[t], f)
    <3>1. Layered(t, f) /\ Recent(t, f) /\ baseline'[HomeRoot[t]] # None /\ triggers[t] # None
      BY <1>1, <1>6, <2>2 DEF Watched, Carries
    <3>2. /\ inflight[t] = e.batch /\ inflight[t] # None
          /\ (f \in BatchFiles(e.batch) <=> i # None)
          /\ i = e.batch.changes[f]
      BY <1>1, <1>3, <1>4, <3>1, FilesChanged DEF ChangeIn
    <3>3. /\ Answered(t, inflight[t]) <=> idempotency_key(e) \in heard
          /\ Answered(t, inflight[t])'
          /\ Answered(t, pending[t])' <=> Answered(t, pending[t])
          /\ ~Answered(t, pending[t])
      <4>1. pending[t] # None => pending[t].id # inflight[t].id /\ <<t, pending[t].id>> \notin heard
        BY <1>1, <3>1, <3>2 DEF Unanswered
      <4> QED
        BY <1>1, <1>6, <3>2, <4>1 DEF Answered
    <3>4. UNCHANGED <<i, p, q>>
      BY <1>1 DEF ChangeIn, ChangeOf
    <3>5. CASE i # None /\ idempotency_key(e) \notin heard
      <4>1. known'[t][f] = {i.content, disk[HomeRoot[t]][f]}
        BY <1>1, <1>6, <3>2, <3>5 DEF HistoryOK
      <4>2. Fits(i, FALSE, p, Answered(t, pending[t]), q, known[t][f])
        BY <3>1, <3>3, <3>5 DEF Layered, Fits, Sound
      <4>3. /\ Fits(i, TRUE, p, Answered(t, pending[t]), q, known'[t][f])
            /\ Top(i, p, q, known'[t][f]) = Top(i, p, q, known[t][f])
        <5> DEFINE pA == Answered(t, pending[t])
                   learnt == known[t][f]
                   newer == disk[HomeRoot[t]][f]
        <5>1. i # None /\ ~pA /\ Fits(i, FALSE, p, pA, q, learnt)
          BY <3>3, <3>5, <4>2
        <5>2. /\ Fits(i, TRUE, p, pA, q, {i.content, newer})
              /\ Top(i, p, q, {i.content, newer}) = Top(i, p, q, learnt)
          <6> HIDE DEF i, p, q, pA, learnt, newer
          <6> QED
            BY <5>1 DEF Fits, Sound, Top, After
        <5> QED
          BY <4>1, <5>2
      <4>4. Layered(t, f)'
        BY <3>3, <3>4, <4>3 DEF Layered, Fits, Sound
      <4>5. TopOf(t, f)' = TopOf(t, f)
        BY <3>4, <4>3 DEF TopOf
      <4> QED
        BY <1>2, <2>2, <3>1, <4>4, <4>5, RecentKept
    <3>6. CASE i = None \/ idempotency_key(e) \in heard
      <4>1. known'[t][f] = known[t][f]
        BY <1>1, <1>6, <3>2, <3>6 DEF HistoryOK
      <4>2. Layered(t, f)'
        BY <3>1, <3>3, <3>4, <3>6, <4>1 DEF Layered, Fits, Sound
      <4>3. TopOf(t, f)' = TopOf(t, f)
        BY <3>4, <4>1 DEF TopOf
      <4> QED
        BY <1>2, <2>2, <3>1, <4>2, <4>3, RecentKept
    <3> QED
      BY <3>5, <3>6
  <2> QED
    BY <2>1, <2>2
<1> QED
  BY <1>5, <1>6 DEF execute_action, Waive, HistoryOK

\* A thread ends: its batch was answered, or waits again, or was waived.
LEMMA EndCarries ==
  ASSUME LaunchInv, Carries, NEW e \in execs, launch_trigger_ends(e), ~Excepted'
  PROVE  Carries'
<1> USE DEF LaunchInv, TypeOK
<1> DEFINE t == e.trigger
           retained == triggers[t] # None /\ triggers[t].status \in UnderReview
<1>1. /\ UNCHANGED <<triggers, baseline, pendingRoots, known, heard, disk, poller>>
      /\ t \in Trigger /\ e.batch \in Batch
      /\ inflight' = [inflight EXCEPT ![t] = None]
      /\ pending' = [pending EXCEPT ![t] = IF retained THEN merge_action_batch(@, e.batch) ELSE @]
      /\ Waive(IF triggers[t] = None \/ triggers[t].status = "paused" THEN {t} ELSE {}, BatchFiles(e.batch))
  BY DEF launch_trigger_ends, world, ProcessOK, Thread
<1>2. \A r, f : BaseKept(r, f)
  BY <1>1, BaseKeptByOthers
<1>3. triggers[t] # None => inflight[t] = e.batch
  BY DEF Launching, LaunchedIsSaved
<1>4. /\ retained => pending[t] = None
      /\ Live(triggers, t) => <<t, e.batch.id>> \in heard
  BY NotMarked DEF launch_trigger_ends, Exceptions, idempotency_key
<1>5. /\ inflight'[t] = None
      /\ pending'[t] = IF retained THEN e.batch ELSE pending[t]
      /\ \A x \in Trigger \ {t} : pending'[x] = pending[x] /\ inflight'[x] = inflight[x]
  BY <1>1, <1>4 DEF StoreOK, merge_action_batch
<1>6. \A x \in Trigger : waived'[x] = IF x = t /\ (triggers[t] = None \/ triggers[t].status = "paused")
                                      THEN waived[x] \cup BatchFiles(e.batch) ELSE waived[x]
  BY <1>1 DEF Waive
<1> SUFFICES ASSUME NEW x \in Trigger, NEW f \in File, Watched(x, f)'
             PROVE  baseline'[HomeRoot[x]] # None /\ Layered(x, f)' /\ Recent(x, f)'
  BY DEF Carries
<1>7. CASE x # t
  BY <1>1, <1>2, <1>5, <1>6, <1>7, SameLayers DEF LayersSame
<1>8. CASE x = t
  <2> DEFINE i == ChangeIn(inflight[t], f)
             p == ChangeIn(pending[t], f)
             q == ChangeOf(HomeRoot[t], f)
  <2>1. Watched(t, f) /\ triggers[t] # None /\ (triggers[t].status = "paused" => f \notin BatchFiles(e.batch))
    BY <1>1, <1>6, <1>8 DEF Watched
  <2>2. Layered(t, f) /\ Recent(t, f) /\ baseline'[HomeRoot[t]] # None
    BY <1>1, <2>1 DEF Carries
  <2>3. inflight[t] = e.batch /\ inflight[t] # None /\ (f \in BatchFiles(e.batch) <=> i # None)
    <3>1. e.batch \in Batch /\ e.batch # None
      BY <1>1, DocumentAssumption
    <3>2. f \in BatchFiles(e.batch) <=> ChangeIn(e.batch, f) # None
      BY <3>1, FilesChanged
    <3> QED
      BY <1>3, <2>1, <3>1, <3>2
  <2>4. triggers[t] \in TriggerRecord
    BY <1>1, <2>1 DEF StoreOK, Copy
  <2>5. CASE retained
    <3>1. pending[t] = None /\ pending'[t] = inflight[t] /\ inflight'[t] = None
      BY <1>4, <1>5, <2>3, <2>5
    <3>2. Layered(t, f)' /\ TopOf(t, f)' = TopOf(t, f)
      BY <1>1, <2>2, <3>1, MoveFits DEF Layered, TopOf, ChangeIn, ChangeOf, Answered
    <3> QED
      BY <1>2, <1>8, <2>2, <3>2, RecentKept
  <2>6. CASE ~retained
    <3>1. pending'[t] = pending[t] /\ inflight'[t] = None
      BY <1>5, <2>6
    <3>2. i # None => Answered(t, inflight[t])
      <4>1. CASE triggers[t].status = "paused"
        BY <2>1, <2>3, <4>1
      <4>2. CASE triggers[t].status = "active"
        <5>1. Live(triggers, t)
          BY <1>1, <2>1, <4>2 DEF Live, Launching, Statuses
        <5> QED
          BY <1>4, <2>3, <5>1 DEF Answered
      <4>3. triggers[t].status \in Status
        BY <2>4 DEF TriggerRecord
      <4> QED
        BY <2>1, <2>6, <4>1, <4>2, <4>3 DEF Status, UnderReview
    <3>3. Fits(i, Answered(t, inflight[t]), p, Answered(t, pending[t]), q, known[t][f])
      BY <2>2 DEF Layered
    <3>4. /\ Fits(None, Answered(t, inflight[t])', p, Answered(t, pending[t]), q, known[t][f])
          /\ \A y \in Top(i, p, q, known[t][f]) : y \in Top(None, p, q, known[t][f])
      <4> DEFINE iAnswered == Answered(t, inflight[t])
                 pAnswered == Answered(t, pending[t])
                 none == Answered(t, inflight[t])'
                 learnt == known[t][f]
      <4>1. (i # None => iAnswered) /\ Fits(i, iAnswered, p, pAnswered, q, learnt)
        BY <3>2, <3>3
      <4> HIDE DEF i, p, q, iAnswered, pAnswered, none, learnt
      <4>2. /\ Fits(None, none, p, pAnswered, q, learnt)
            /\ \A y \in Top(i, p, q, learnt) : y \in Top(None, p, q, learnt)
        BY ONLY <4>1, DoneFits
      <4> QED
        BY <4>2 DEF none, pAnswered, learnt
    <3>5. Layered(t, f)' /\ \A y \in TopOf(t, f) : y \in TopOf(t, f)'
      BY <1>1, <3>1, <3>4 DEF Layered, TopOf, ChangeIn, ChangeOf, Answered
    <3> QED
      BY <1>2, <1>8, <2>2, <3>5, RecentKept
  <2> QED
    BY <2>5, <2>6
<1> QED
  BY <1>7, <1>8

LEMMA ThreadsCarry ==
  ASSUME LaunchInv, Unanswered, Carries, Executors, ~Excepted'
  PROVE  Carries'
<1>1. ASSUME NEW e \in execs, save_run(e) \/ update_trigger_failure_status(e) PROVE Carries'
  <2>1. UNCHANGED <<layerVars, baseline, disk, poller, waived>>
    BY <1>1 DEF save_run, update_trigger_failure_status, store, world, ghosts, layerVars
  <2>2. \A t \in Trigger : triggers[t] = None => triggers'[t] = None
    BY <1>1 DEF save_run, update_trigger_failure_status, store, NeedsReview, LaunchInv, TypeOK, StoreOK, Copy
  <2> QED
    BY <2>1, <2>2, CarriesKeptBySame, BaseKeptByOthers DEF Watched
<1> QED
  BY <1>1, ActionCarries, EndCarries DEF Executors

\* Quiet folders hand their changes over.
LEMMA DispatchCarries ==
  ASSUME LaunchInv, Numbered, Carries, dispatch_mature_batches, ~Excepted'
  PROVE  Carries'
<1> USE DEF LaunchInv, TypeOK
<1> DEFINE mature == {r \in quiet : pendingRoots[r] # None}
           taking == {t \in Trigger : HomeRoot[t] \in mature /\ Live(poller.triggers, t)
                                      /\ pendingRoots[HomeRoot[t]] # NoChanges}
           batch(r) == [id |-> fresh.id, changes |-> pendingRoots[r]]
<1>1. /\ UNCHANGED <<triggers, baseline, inflight, known, heard, disk>>
      /\ poller.pc = "maturing" /\ poller'.pc = "readying"
      /\ pendingRoots' = [r \in Root |-> IF r \in mature THEN None ELSE pendingRoots[r]]
      /\ \A t \in Trigger :
           /\ pending'[t] = IF t \in taking THEN merge_action_batch(pending[t], batch(HomeRoot[t])) ELSE pending[t]
           /\ waived'[t] = IF t \in taking \/ HomeRoot[t] \notin mature THEN waived[t]
                           ELSE waived[t] \cup FilesOf(pendingRoots[HomeRoot[t]])
      /\ Marked(IF \E t \in taking : CountsAgain(t, pending[t]) THEN {"recounted"} ELSE {})
  BY DEF dispatch_mature_batches, Polls
<1>2. \A r, f : BaseKept(r, f)
  BY <1>1, BaseKeptByOthers
<1>3. \A t \in taking : ~CountsAgain(t, pending[t])
  BY <1>1, NotMarked DEF Exceptions
<1> SUFFICES ASSUME NEW t \in Trigger, NEW f \in File, Watched(t, f)'
             PROVE  baseline'[HomeRoot[t]] # None /\ Layered(t, f)' /\ Recent(t, f)'
  BY DEF Carries
<1> DEFINE r == HomeRoot[t]
           i == ChangeIn(inflight[t], f)
           p == ChangeIn(pending[t], f)
           q == ChangeOf(r, f)
           iA == Answered(t, inflight[t])
           pA == Answered(t, pending[t])
<1>4. r \in Root /\ pending[t] \in Batch \cup {None} /\ inflight[t] \in Batch \cup {None}
  BY DocumentAssumption DEF StoreOK
<1>5. CASE r \notin mature
  <2>1. LayersSame(t) /\ waived'[t] = waived[t]
    BY <1>1, <1>4, <1>5 DEF LayersSame
  <2> QED
    BY <1>2, <2>1, SameLayers
<1>6. CASE r \in mature
  <2> HIDE DEF mature
  <2>1. /\ Watched(t, f) /\ Layered(t, f) /\ Recent(t, f) /\ baseline'[r] # None
        /\ t \notin taking => f \notin FilesOf(pendingRoots[r])
    BY <1>1, <1>6 DEF Watched, Carries
  <2>2. Fits(i, iA, p, pA, q, known[t][f])
    BY <2>1 DEF Layered
  <2>3. pendingRoots'[r] = None
    BY <1>1, <1>4, <1>6
  <2>4. CASE t \notin taking
    <3>1. q = None /\ pending'[t] = pending[t]
      BY <1>1, <1>4, <2>1, <2>4, FilesChanged
    <3>2. Layered(t, f)' /\ TopOf(t, f)' = TopOf(t, f)
      BY <1>1, <2>1, <2>3, <3>1 DEF Layered, TopOf, ChangeIn, ChangeOf, Answered
    <3> QED
      BY <1>2, <2>1, <3>2, RecentKept
  <2>5. CASE t \in taking
    <3>1. batch(r) \in Batch /\ pending'[t] = merge_action_batch(pending[t], batch(r)) /\ pendingRoots[r] # None
      BY <1>1, <1>4, <1>6, <2>5 DEF Batch, StoreOK, HistoryOK, mature
    <3>2. pendingRoots[r] \in Changes /\ None \notin Batch /\ batch(r) # None
      BY <1>4, <3>1, DocumentAssumption DEF StoreOK
    <3>3. ChangeIn(batch(r), f) = q
      BY <3>1, <3>2 DEF ChangeIn, ChangeOf
    <3>4. ChangeIn(pending'[t], f) = merge_change(p, q)
      <4> HIDE DEF batch
      <4> QED
        BY <1>4, <3>1, <3>3, MergedChange
    <3>5. ~Answered(t, pending[t])'
      <4>1. pending'[t].id = fresh.id
        BY <1>4, <3>1, MergedId
      <4>2. <<t, fresh.id>> \in heard => fresh.id < fresh.id
        BY DEF Numbered
      <4>3. fresh.id \in Nat
        BY DEF HistoryOK
      <4> QED
        BY <1>1, <4>1, <4>2, <4>3 DEF Answered
    <3>6. p # None /\ pA => p.kind # "created"
      <4> SUFFICES ASSUME p # None, pA, p.kind = "created" PROVE FALSE
        OBVIOUS
      <4>1. pending[t] # None /\ f \in BatchFiles(pending[t]) /\ p = pending[t].changes[f]
        BY <1>4, FilesChanged DEF ChangeIn
      <4>2. Creates(pending[t])
        BY <4>1 DEF Creates
      <4> QED
        BY <1>3, <2>5, <4>1, <4>2 DEF CountsAgain, Answered
    <3>7. i \in MaybeChange /\ p \in MaybeChange /\ q \in MaybeChange
      BY <1>4, FilesChanged
    <3>8. /\ Fits(i, iA, merge_change(p, q), FALSE, None, known[t][f])
          /\ \A y \in Top(i, p, q, known[t][f]) : y \in Top(i, merge_change(p, q), None, known[t][f])
      <4> HIDE DEF i, p, q
      <4> QED
        BY <2>2, <3>6, <3>7, HandOverFits
    <3>9. Layered(t, f)'
      <4>1. ChangeIn(inflight'[t], f) = i /\ (Answered(t, inflight[t])' <=> iA) /\ ChangeOf(r, f)' = None
        BY <1>1, <2>3 DEF Answered, ChangeOf
      <4> QED
        BY <1>1, <3>4, <3>5, <3>8, <4>1 DEF Layered, Fits, Sound
    <3>10. TopOf(t, f)' = Top(i, merge_change(p, q), None, known[t][f])
      BY <1>1, <2>3, <3>4 DEF TopOf, ChangeOf
    <3> QED
      BY <1>2, <2>1, <3>8, <3>9, <3>10, RecentKept DEF TopOf
  <2> QED
    BY <2>4, <2>5
<1> QED
  BY <1>5, <1>6

\* A new trigger knows the files as they are; what is on its way is waived.
LEMMA CreateCarries ==
  ASSUME LaunchInv, Contents, Carries, NEW t \in Trigger, create_trigger(t)
  PROVE  Carries'
<1> USE DEF LaunchInv, TypeOK
<1> DEFINE r == HomeRoot[t]
           stale == {f \in File : baseline[r] = None \/ baseline[r].files[f] # disk[r][f]}
<1>1. /\ UNCHANGED <<baseline, pendingRoots, pending, inflight, heard, disk, poller>> /\ Unborn(t)
      /\ \A x \in Trigger \ {t} : triggers'[x] = triggers[x] /\ known'[x] = known[x]
      /\ known'[t] = [f \in File |-> {disk[r][f]}]
      /\ \A x \in Trigger : waived'[x] = IF x = t THEN waived[x] \cup (stale \cup FilesOf(pendingRoots[r])) ELSE waived[x]
  BY SavedInput DEF create_trigger, NotDisk, world, Unborn, Deleting, HistoryOK, Waive
<1>2. \A s, f : BaseKept(s, f)
  BY <1>1, BaseKeptByOthers
<1> SUFFICES ASSUME NEW x \in Trigger, NEW f \in File, Watched(x, f)'
             PROVE  baseline'[HomeRoot[x]] # None /\ Layered(x, f)' /\ Recent(x, f)'
  BY DEF Carries
<1>3. CASE x # t
  BY <1>1, <1>2, <1>3, SameLayers DEF LayersSame
<1>4. CASE x = t
  <2>1. r \in Root /\ baseline[r] # None /\ baseline[r].files[f] = disk[r][f] /\ f \notin FilesOf(pendingRoots[r])
    BY <1>1, <1>4, DocumentAssumption DEF Watched
  <2>2. pending[t] = None /\ inflight[t] = None /\ ChangeOf(r, f) = None
    BY <1>1, <2>1, FilesChanged DEF Launching, UnbornIsUnknown
  <2>3. /\ ChangeIn(inflight[t], f)' = None /\ ChangeIn(pending[t], f)' = None /\ ChangeOf(r, f)' = None
        /\ known'[t][f] = {disk[r][f]}
    BY <1>1, <2>2 DEF ChangeIn, ChangeOf
  <2>4. Layered(t, f)' /\ TopOf(t, f)' = {disk[r][f]}
    BY <2>3 DEF Layered, TopOf, Fits, Sound, Top, After
  <2>5. Base(r)' = Base(r) /\ (Stale(r, f)' <=> Stale(r, f))
    BY <1>1 DEF Base, Advancing, Stale
  <2>6. Base(r)[f] = disk[r][f] \/ Stale(r, f)
    BY <2>1 DEF Contents, Base, Stale
  <2> QED
    BY <1>1, <1>4, <2>1, <2>4, <2>5, <2>6 DEF Recent
<1> QED
  BY <1>3, <1>4

LEMMA CallsCarry ==
  ASSUME LaunchInv, Contents, Carries, Calls
  PROVE  Carries'
<1> USE DEF LaunchInv, TypeOK
<1>1. CASE ForgetBatch
  <2> DEFINE t == user.trigger
  <2>1. user # None /\ user.op \in {"disable", "delete"} /\ t \in Trigger
    BY <1>1 DEF ForgetBatch, ProcessOK, Call
  <2>2. /\ UNCHANGED <<baseline, pendingRoots, known, heard, disk, triggers, poller>>
        /\ Waive({t}, BatchFiles(pending[t]))
        /\ pending'[t] = None /\ \A x \in Trigger \ {t} : pending'[x] = pending[x] /\ inflight'[x] = inflight[x]
        /\ user.op # "delete" => inflight'[t] = inflight[t]
    BY <1>1, <2>1 DEF ForgetBatch, NotDisk, world, StoreOK
  <2>3. user.op = "delete" => triggers[t] = None
    BY <2>1 DEF Launching, HalfDone
  <2>4. \A r, f : BaseKept(r, f)
    BY <2>2, BaseKeptByOthers
  <2> HIDE DEF t
  <2> QED
    BY <2>1, <2>2, <2>3, <2>4, DropCarries
<1>2. ASSUME \/ TestEnds
             \/ \E t \in Trigger : \/ update_trigger(t) \/ enable_trigger(t) \/ disable_trigger(t)
                                   \/ delete_trigger(t) \/ test_trigger(t)
      PROVE  Carries'
  <2>1. UNCHANGED <<layerVars, baseline, disk, poller, waived>>
    BY <1>2 DEF TestEnds, update_trigger, enable_trigger, disable_trigger, delete_trigger, test_trigger, NotDisk, world,
       ghosts, layerVars
  <2>2. \A t \in Trigger : triggers[t] = None => triggers'[t] = None
    BY <1>2 DEF TestEnds, update_trigger, SaveInput, enable_trigger, disable_trigger, delete_trigger, test_trigger,
       NeedsReview, StoreOK, Copy
  <2> QED
    BY <2>1, <2>2, CarriesKeptBySame, BaseKeptByOthers DEF Watched
<1> QED
  BY <1>1, <1>2, CreateCarries DEF Calls

\* A restart puts what waits on top of what was launched.
LEMMA RestartCarries ==
  ASSUME LaunchInv, Unanswered, Carries, Restart, ~Excepted'
  PROVE  Carries'
<1> USE DEF LaunchInv, TypeOK
<1>1. /\ UNCHANGED <<triggers, pendingRoots, known, heard, disk, roots>>
      /\ poller.pc = "down" /\ poller'.pc = "recording"
      /\ \A t \in Trigger : /\ pending'[t] = IF pending[t] = None THEN inflight[t]
                                             ELSE merge_action_batch(inflight[t], pending[t])
                            /\ inflight'[t] = None
                            /\ waived'[t] = IF roots[HomeRoot[t]].state = "restricted" THEN File ELSE waived[t]
      /\ \A r \in Root : baseline'[r] = IF roots[r].state = "restricted" THEN None ELSE baseline[r]
      /\ Marked(IF \E t \in Trigger : pending[t] # None /\ CountsAgain(t, inflight[t]) THEN {"recounted"} ELSE {})
  BY DEF Restart, world, Polls
<1>2. \A t \in Trigger : pending[t] # None => ~CountsAgain(t, inflight[t])
  BY <1>1, NotMarked DEF Exceptions
<1> SUFFICES ASSUME NEW t \in Trigger, NEW f \in File, Watched(t, f)'
             PROVE  baseline'[HomeRoot[t]] # None /\ Layered(t, f)' /\ Recent(t, f)'
  BY DEF Carries
<1> DEFINE r == HomeRoot[t]
           i == ChangeIn(inflight[t], f)
           p == ChangeIn(pending[t], f)
           q == ChangeOf(r, f)
           iA == Answered(t, inflight[t])
           pA == Answered(t, pending[t])
<1>3. r \in Root /\ roots[r].state # "restricted" /\ Watched(t, f)
  BY <1>1, DocumentAssumption DEF Watched
<1>4. Layered(t, f) /\ Recent(t, f) /\ baseline'[r] # None /\ baseline'[r] = baseline[r]
  BY <1>1, <1>3 DEF Carries
<1>5. BaseKept(r, f)
  BY <1>1, <1>4 DEF BaseKept, Base, Advancing, Stale, Reported
<1>6. inflight[t] \in Batch \cup {None} /\ pending[t] \in Batch \cup {None} /\ None \notin Batch
  BY DocumentAssumption DEF StoreOK
<1>7. CASE pending[t] = None
  <2>1. pending'[t] = inflight[t] /\ inflight'[t] = None
    BY <1>1, <1>7
  <2>2. Layered(t, f)' /\ TopOf(t, f)' = TopOf(t, f)
    BY <1>1, <1>4, <1>7, <2>1, MoveFits DEF Layered, TopOf, ChangeIn, ChangeOf, Answered
  <2> QED
    BY <1>4, <1>5, <2>2, RecentKept
<1>8. CASE pending[t] # None /\ inflight[t] = None
  <2>1. pending'[t] = pending[t] /\ inflight'[t] = inflight[t]
    BY <1>1, <1>8 DEF merge_action_batch
  <2>2. LayersSame(t)
    BY <1>1, <2>1 DEF LayersSame
  <2> QED
    BY <1>1, <1>3, <1>5, <2>2, SameLayers
<1>9. CASE pending[t] # None /\ inflight[t] # None
  <2>1. pending'[t] = merge_action_batch(inflight[t], pending[t]) /\ inflight'[t] = None
    BY <1>1, <1>9
  <2>2. ChangeIn(pending'[t], f) = merge_change(i, p) /\ pending'[t].id = pending[t].id
    BY <1>6, <1>9, <2>1, MergedChange, MergedId
  <2>3. <<t, pending[t].id>> \notin heard
    BY <1>3, <1>9 DEF Unanswered, Watched
  <2>4. i # None /\ iA => i.kind # "created"
    <3> SUFFICES ASSUME i # None, iA, i.kind = "created" PROVE FALSE
      OBVIOUS
    <3>1. f \in BatchFiles(inflight[t]) /\ i = inflight[t].changes[f]
      BY <1>6, <1>9, FilesChanged DEF ChangeIn
    <3>2. Creates(inflight[t])
      BY <3>1 DEF Creates
    <3> QED
      BY <1>2, <1>9, <3>2 DEF CountsAgain, Answered
  <2>5. Fits(i, iA, p, FALSE, q, known[t][f])
    BY <1>4, <2>3 DEF Layered, Answered, Fits, Sound
  <2>6. i \in MaybeChange /\ p \in MaybeChange /\ q \in MaybeChange
    BY <1>3, <1>6, FilesChanged
  <2>7. /\ Fits(None, FALSE, merge_change(i, p), FALSE, q, known[t][f])
        /\ \A y \in Top(i, p, q, known[t][f]) : y \in Top(None, merge_change(i, p), q, known[t][f])
    <3> HIDE DEF i, p, q
    <3> QED
      BY <2>4, <2>5, <2>6, TakeBackFits
  <2>8. ChangeIn(inflight'[t], f) = None /\ ~Answered(t, pending[t])' /\ ChangeOf(r, f)' = q
    BY <1>1, <2>1, <2>2, <2>3 DEF ChangeIn, Answered, ChangeOf
  <2>9. Layered(t, f)'
    BY <1>1, <2>2, <2>7, <2>8 DEF Layered, Fits, Sound
  <2>10. TopOf(t, f)' = Top(None, merge_change(i, p), q, known[t][f])
    BY <1>1, <2>2, <2>8 DEF TopOf
  <2> QED
    BY <1>4, <1>5, <2>7, <2>9, <2>10, RecentKept DEF TopOf
<1> QED
  BY <1>7, <1>8, <1>9

\* A crash leaves a folder as it is recorded: what was being recorded is scanned again.
LEMMA CrashCarries ==
  ASSUME LaunchInv, Contents, Carries, Crash, ~Excepted'
  PROVE  Carries'
<1> USE DEF LaunchInv, TypeOK
<1>1. UNCHANGED <<layerVars, triggers, baseline, disk, waived>> /\ poller'.pc = "down"
  BY DEF Crash, store, world, layerVars, Polls
<1>2. ~(poller.pc = "recording" /\ poller.report # {}) /\ ~Unrecorded
  <2>1. PICK marks \in SUBSET Exceptions :
          /\ marks = (IF poller.pc = "recording" /\ poller.report # {} THEN {"unreported"} ELSE {})
                     \cup (IF Unrecorded THEN {"unrecorded"} ELSE {})
          /\ events'.past = events.past \cup marks
    BY DEF Crash, HappensWith, Exceptions
  <2> QED
    BY <2>1 DEF Excepted
<1> SUFFICES ASSUME NEW t \in Trigger, NEW f \in File, Watched(t, f)'
             PROVE  baseline'[HomeRoot[t]] # None /\ Layered(t, f)' /\ Recent(t, f)'
  BY DEF Carries
<1> DEFINE r == HomeRoot[t]
<1>3. r \in Root /\ baseline[r] # None /\ Layered(t, f) /\ Recent(t, f)
  BY <1>1, DocumentAssumption DEF Carries, Watched
<1>4. UNCHANGED <<Layered(t, f), TopOf(t, f)>>
  BY <1>1 DEF layerVars, Layered, TopOf, ChangeIn, ChangeOf, Answered
<1>5. ~Reported(r, f)
  BY <1>2 DEF Reported
<1>6. Base(r)' = baseline[r].files /\ (Stale(r, f)' <=> baseline[r].files[f] # 0 /\ disk[r][f] # baseline[r].files[f])
  BY <1>1 DEF Base, Advancing, Stale
<1>7. CASE ~Advancing(r)
  BY <1>1, <1>3, <1>4, <1>5, <1>6, <1>7 DEF Recent, Stale, Base
<1>8. CASE Advancing(r)
  <2>1. Base(r) = poller.files
    BY <1>8 DEF Base
  <2>2. CASE baseline[r].files[f] = 0
    <3>1. poller.files[f] = 0
      BY <1>2, <1>3, <1>8, <2>2 DEF Unrecorded, Advancing
    <3> QED
      BY <1>1, <1>3, <1>4, <1>5, <1>6, <2>1, <2>2, <3>1 DEF Recent, Stale
  <2>3. CASE baseline[r].files[f] # 0 /\ disk[r][f] # baseline[r].files[f]
    BY <1>1, <1>3, <1>4, <1>6, <2>3 DEF Recent
  <2>4. CASE baseline[r].files[f] # 0 /\ disk[r][f] = baseline[r].files[f]
    <3>1. poller.files[f] = disk[r][f]
      BY <1>3, <1>8, <2>4 DEF Contents
    <3> QED
      BY <1>1, <1>3, <1>4, <1>5, <1>6, <2>1, <2>4, <3>1 DEF Recent, Stale
  <2> QED
    BY <2>2, <2>3, <2>4
<1> QED
  BY <1>7, <1>8

LEMMA CarriesKept ==
  LaunchInv /\ Numbered /\ Unanswered /\ Contents /\ Carries /\ [Next]_vars /\ ~Excepted' => Carries'
<1> SUFFICES ASSUME LaunchInv, Numbered, Unanswered, Contents, Carries, [Next]_vars, ~Excepted' PROVE Carries'
  OBVIOUS
<1>1. CASE Poller
  BY <1>1, PollCarries, NoticeCarries, RecordCarries, BaselineCarries, ReportCarries, DispatchCarries, ClaimCarries,
     GateCarries, RestartCarries DEF Poller, Rerecord, Notice, initialize_baseline
<1>2. CASE UNCHANGED vars
  BY <1>2, CarriesKeptBySame, BaseKeptByOthers DEF vars, store, world, ghosts, layerVars, Watched
<1> QED
  BY <1>1, <1>2, WorldCarries, ThreadsCarry, CallsCarry, CrashCarries DEF Next

-----------------------------------------------------------------------------
(* The theorem *)

LEMMA InitForget == Init => ForgetInv
<1> SUFFICES ASSUME Init PROVE ForgetInv
  OBVIOUS
<1>1. LaunchInv
  BY InitLaunches
<1>2. /\ \A t \in Trigger : pending[t] = None /\ inflight[t] = None
      /\ \A r \in Root : pendingRoots[r] = None
      /\ poller.pc = "idle" /\ heard = {} /\ execs = {} /\ fresh.content = 2
      /\ \A r \in Root, f \in File : disk[r][f] \in {0, 1}
  BY DEF Init
<1>4. \A r \in Root : baseline[r] = [path |-> 0, files |-> disk[r]] /\ baseline[r].files = disk[r]
  BY DEF Init
<1>5. \A r \in Root : baseline[r] # None
  <2> SUFFICES ASSUME NEW r \in Root PROVE baseline[r] # None
    OBVIOUS
  <2>1. disk[r] \in [File -> Nat]
    BY <1>1 DEF LaunchInv, TypeOK, WorldOK
  <2>2. [path |-> 0, files |-> disk[r]] \in Recorded
    BY <2>1 DEF Recorded
  <2> QED
    BY <1>4, <2>2, DocumentAssumption
<1>6. Numbered /\ Unanswered
  BY <1>2 DEF Numbered, Unanswered
<1>7. Contents
  <2> SUFFICES ASSUME NEW r \in Root, NEW f \in File
               PROVE  disk[r][f] < fresh.content /\ baseline[r].files[f] < fresh.content
    BY <1>2 DEF Contents, Advancing
  <2>1. disk[r][f] \in {0, 1} /\ baseline[r].files[f] = disk[r][f] /\ fresh.content = 2
    BY <1>2, <1>4
  <2> QED
    BY <2>1
<1>8. Carries
  <2> SUFFICES ASSUME NEW t \in Trigger, NEW f \in File
               PROVE  baseline[HomeRoot[t]] # None /\ Layered(t, f) /\ Recent(t, f)
    BY DEF Carries
  <2>1. HomeRoot[t] \in Root /\ known[t][f] = {disk[HomeRoot[t]][f]}
    BY DocumentAssumption DEF Init
  <2>2. ChangeIn(inflight[t], f) = None /\ ChangeIn(pending[t], f) = None /\ ChangeOf(HomeRoot[t], f) = None
    BY <1>2, <2>1 DEF ChangeIn, ChangeOf
  <2>3. Layered(t, f) /\ TopOf(t, f) = {disk[HomeRoot[t]][f]}
    BY <2>1, <2>2 DEF Layered, TopOf, Fits, Sound, Top, After
  <2> QED
    BY <1>2, <1>4, <1>5, <2>1, <2>3 DEF Recent, Base, Advancing
<1> QED
  BY <1>1, <1>6, <1>7, <1>8 DEF ForgetInv

LEMMA NextForgets == ForgetInv /\ [Next]_vars => ForgetInv'
<1> SUFFICES ASSUME ForgetInv, [Next]_vars PROVE ForgetInv'
  OBVIOUS
<1>1. LaunchInv /\ Numbered /\ Unanswered /\ Contents /\ TypeOK
  BY DEF ForgetInv, LaunchInv
<1>2. LaunchInv' /\ Numbered' /\ Unanswered' /\ Contents'
  BY <1>1, NextLaunches, NumbersKept, ContentsKept
<1>3. Excepted' \/ Carries'
  BY <1>1, ExceptedStays, CarriesKept DEF ForgetInv
<1> QED
  BY <1>2, <1>3 DEF ForgetInv

\* Everything that the argument about forgotten changes needs, in every reachable state.
THEOREM ForgetInvariance == Spec => []ForgetInv
<1>1. Init => ForgetInv
  BY InitForget
<1>2. ForgetInv /\ [Next]_vars => ForgetInv'
  BY NextForgets
<1> QED
  BY <1>1, <1>2, PTL DEF Spec

\* No change of a watched file is forgotten, except after one of the five things the code
\* does wrong: it is told, dropped on purpose, or still found on disk
\* (poll_once, dispatch_mature_batches, claim_pending_batch, launch_trigger, new).
THEOREM NothingElseIsForgotten == Spec => []NothingElseForgotten
<1>1. ForgetInv => NothingElseForgotten
  BY CarriesGivesNothingForgotten DEF ForgetInv, LaunchInv, NothingElseForgotten
<1> QED
  BY <1>1, ForgetInvariance, PTL
=============================================================================
