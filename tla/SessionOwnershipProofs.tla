----------------------- MODULE SessionOwnershipProofs -----------------------
(***************************************************************************)
(* Theorems about SessionOwnership, for any conversations, sessions and    *)
(* budgets: that a session has one owner, and that no claim is left behind *)
(* by a conversation that is over; and, in the second half, what becomes   *)
(* of processes.                                                           *)
(*                                                                         *)
(* The first two are not inductive.  They rest on what the stage of a      *)
(* start says of what it has, on a session that is made new having one     *)
(* maker, and on who has the claim: a start that resumes has it, and a     *)
(* conversation that runs on the session has it if anybody has.  Only the  *)
(* registration of a conversation that has ended breaks that, and from     *)
(* then on nothing is promised of its session (Overwritten).               *)
(***************************************************************************)
EXTENDS SessionOwnership, TLAPS

\* Where a conversation is in its start says what it has.
Stages ==
  \A c \in Chat :
    /\ at[c] = "idle" => session[c] = None /\ ~resumes[c]
    /\ at[c] \in Asking => resumes[c]
    /\ at[c] = "account" /\ ~resumes[c] => session[c] = None
    /\ resumes[c] \/ at[c] \in {"insert", "register", "run"} => session[c] # None
    /\ c \in chats <=> at[c] \in {"register", "run"}
    /\ "late" \in loose[c] => at[c] \in {"run", "over"}

\* A claim names a conversation of that session, which resumes it or is registered.
ClaimsAreHeld ==
  \A s \in Session : claims[s] # None =>
    /\ session[claims[s]] = s
    /\ claims[s] \in chats \/ (at[claims[s]] \in Starting /\ resumes[claims[s]])

\* A session that is made new has one maker, and nobody resumes it before its maker
\* was registered, or is over.
NewSessions ==
  /\ \A c, d \in Chat :
       ~resumes[c] /\ ~resumes[d] /\ session[c] # None /\ session[c] = session[d] => c = d
  /\ \A c \in Chat : ~resumes[c] => session[c] \notin Existing
  /\ \A c, d \in Chat :
       ~resumes[c] /\ resumes[d] /\ session[c] = session[d] => at[c] \in {"register", "run", "over"}

\* A start that resumes has the claim; so has a conversation that runs, if anybody has.
ClaimsOfOwners ==
  \A c \in Chat :
    /\ at[c] \in Starting /\ resumes[c] => claims[session[c]] = c \/ Overwritten(session[c])
    /\ c \in chats /\ phase[c] = "live" =>
         claims[session[c]] \in {c, None} \/ Overwritten(session[c])

IInv == TypeOK /\ Stages /\ ClaimsAreHeld /\ NewSessions /\ ClaimsOfOwners /\ OneOwner

-----------------------------------------------------------------------------
(* Types.                                                                  *)

LEMMA InitTypeOK == Init => TypeOK
<1> SUFFICES ASSUME Init PROVE TypeOK
  OBVIOUS
<1>1. budget \in [Kind -> Nat]
  BY BudgetsAssumption DEF Init
<1> QED
  BY <1>1 DEF Init, TypeOK, Stage, Asking, Starting, Closing, Open

\* A budget is never overdrawn.
LEMMA SpendKeeps ==
  ASSUME TypeOK, NEW kind \in Kind, Spend(kind)
  PROVE  budget' \in [Kind -> Nat]
BY DEF TypeOK, Spend

\* What a recovery does to a process, and to its lease.
LEMMA RecoveredKeeps ==
  ASSUME TypeOK, NEW c, Recovered(c)
  PROVE  /\ proc' \in [Chat -> {"none", "alive", "gone", "reused"}]
         /\ leases' \in [Chat -> Session \cup {None}]
BY DEF TypeOK, Recovered, Unleased, exact_match

\* The steps of a start.
LEMMA StartTypeOK ==
  ASSUME TypeOK, NEW c \in Chat, Start(c)
  PROVE  TypeOK'
<1> USE DEF backend, runtime, threads, supervisor, Stage, Asking, Starting, Go, Handle
<1>1. CASE Begin(c)
  <2>1. UNCHANGED <<backend, leases, proc, phase, held, threads, supervisor, closing, loose, budget>>
    BY <1>1 DEF Begin
  <2>2. at' \in [Chat -> Stage] /\ session' \in [Chat -> Session \cup {None}]
    BY <1>1 DEF Begin, TypeOK
  <2>3. resumes' = resumes \/ resumes' = [resumes EXCEPT ![c] = TRUE]
    BY <1>1, Zenon DEF Begin
  <2>4. resumes' \in [Chat -> BOOLEAN]
    BY <2>3 DEF TypeOK
  <2> QED
    BY <2>1, <2>2, <2>4 DEF TypeOK
<1>2. CASE RetryStale(c)
  <2>1. UNCHANGED <<backend, runtime, held, threads, chats, claims, closing, loose>>
    BY <1>2 DEF RetryStale
  <2>2. at' \in [Chat -> Stage] /\ stale' \in [Session -> Chat \cup {None}]
    BY <1>2 DEF RetryStale, TypeOK
  <2>3. budget' \in [Kind -> Nat]
    BY <1>2, SpendKeeps DEF RetryStale, TypeOK, Stuck, Kind
  <2>4. /\ proc' \in [Chat -> {"none", "alive", "gone", "reused"}]
        /\ leases' \in [Chat -> Session \cup {None}]
    BY <1>2, RecoveredKeeps DEF RetryStale, TypeOK, Stuck
  <2> QED
    BY <2>1, <2>2, <2>3, <2>4 DEF TypeOK
<1>3. CASE Claim(c)
  <2>1. claims' \in [Session -> Chat \cup {None}]
    BY <1>3 DEF Claim, TypeOK, RunningOn
  <2> QED
    BY <1>3, <2>1 DEF Claim, TypeOK
<1>4. CASE FailEarly(c)
  BY <1>4, SpendKeeps DEF FailEarly, Return, TypeOK, Kind
<1>5. CASE Acquire(c)
  BY <1>5 DEF Acquire, Hold, TypeOK
<1>6. CASE Launch(c)
  BY <1>6 DEF Launch, TypeOK
<1>7. CASE Discard(c)
  BY <1>7, SpendKeeps DEF Discard, Return, Ended, TypeOK, Kind
<1>8. CASE Record(c)
  BY <1>8 DEF Record, Hold, Watch, TypeOK
<1>9. CASE RecordFails(c)
  BY <1>9, SpendKeeps DEF RecordFails, Hold, Step, TypeOK, Kind
<1>10. CASE Cancelled(c)
  BY <1>10, SpendKeeps DEF Cancelled, Step, TypeOK, Kind
<1>11. CASE Insert(c)
  BY <1>11 DEF Insert, TypeOK
<1>12. CASE Register(c)
  BY <1>12 DEF Register, Note, TypeOK
<1>13. CASE Undone(c)
  BY <1>13 DEF Undone, Return, Note, TypeOK
<1> QED
  BY <1>1, <1>2, <1>3, <1>4, <1>5, <1>6, <1>7, <1>8, <1>9, <1>10, <1>11, <1>12, <1>13 DEF Start

\* The steps of a stop and of the exit monitor.
LEMMA EndTypeOK ==
  ASSUME TypeOK, NEW c \in Chat, End(c)
  PROVE  TypeOK'
<1> USE DEF backend, runtime, threads, supervisor, Handle
<1>1. CASE Stop(c)
  BY <1>1, SpendKeeps DEF Stop, Step, TypeOK, Kind
<1>2. CASE Kill(c)
  BY <1>2 DEF Kill, Drop, Step, Ended, TypeOK
<1>3. CASE KillFails(c)
  BY <1>3, SpendKeeps DEF KillFails, Step, TypeOK, Kind
<1>4. CASE Clear(c)
  BY <1>4 DEF Clear, Drop, Step, Unleased, TypeOK
<1>5. CASE Settle(c)
  BY <1>5 DEF Settle, Step, TypeOK
<1>6. CASE Release(c)
  BY <1>6 DEF Release, Step, Drop, TypeOK
<1>7. CASE GiveUp(c)
  BY <1>7 DEF GiveUp, Step, Note, TypeOK
<1>8. CASE Poll(c)
  BY <1>8 DEF Poll, Watch, Drop, Unleased, TypeOK
<1>9. CASE MonitorReleases(c)
  BY <1>9 DEF MonitorReleases, Watch, Drop, TypeOK
<1>10. CASE settle_persistent_exit(c)
  BY <1>10 DEF settle_persistent_exit, Watch, TypeOK
<1>11. CASE RefreshReads(c)
  BY <1>11, SpendKeeps DEF RefreshReads, TypeOK, Kind
<1>12. CASE RefreshWrites(c)
  BY <1>12 DEF RefreshWrites, TypeOK
<1> QED
  BY <1>1, <1>2, <1>3, <1>4, <1>5, <1>6, <1>7, <1>8, <1>9, <1>10, <1>11, <1>12 DEF End

\* The steps of a shutdown.
LEMMA ShutdownTypeOK == TypeOK /\ Shutdown => TypeOK'
<1> SUFFICES ASSUME TypeOK, Shutdown PROVE TypeOK'
  OBVIOUS
<1> USE DEF backend, runtime, threads, supervisor, Closing
<1>1. CASE BeginShutdown
  BY <1>1, SpendKeeps DEF BeginShutdown, TypeOK, Kind
<1>2. CASE Snapshot
  BY <1>2 DEF Snapshot, TypeOK
<1>3. CASE Count
  BY <1>3 DEF Count, TypeOK
<1>4. ASSUME NEW c \in Chat, StopNext(c) PROVE TypeOK'
  BY <1>4 DEF StopNext, Step, TypeOK
<1> QED
  BY <1>1, <1>2, <1>3, <1>4 DEF Shutdown

\* The steps of the world.
LEMMA WorldTypeOK == TypeOK /\ World => TypeOK'
<1> SUFFICES ASSUME TypeOK, World PROVE TypeOK'
  OBVIOUS
<1> USE DEF backend, runtime, threads, supervisor
<1>1. CASE Crash
  BY <1>1, SpendKeeps DEF Crash, TypeOK, Kind, Stage, Asking, Starting, Open, Closing, Handle
<1>2. CASE Restart \/ Ready
  BY <1>2 DEF Restart, Ready, TypeOK
<1>3. ASSUME NEW c \in Chat, Recover(c) PROVE TypeOK'
  <2>1. UNCHANGED <<up, at, runtime, held, threads, chats, claims, closing, loose>>
    BY <1>3 DEF Recover
  <2>2. pending' \subseteq Chat
    BY <1>3 DEF Recover, TypeOK
  <2>3. stale' \in [Session -> Chat \cup {None}]
    BY <1>3 DEF Recover, TypeOK
  <2>4. budget' \in [Kind -> Nat]
    BY <1>3, SpendKeeps DEF Recover, TypeOK, Stuck, Kind
  <2>5. /\ proc' \in [Chat -> {"none", "alive", "gone", "reused"}]
        /\ leases' \in [Chat -> Session \cup {None}]
    BY <1>3, RecoveredKeeps DEF Recover, TypeOK, Stuck
  <2> QED
    BY <2>1, <2>2, <2>3, <2>4, <2>5 DEF TypeOK
<1>4. ASSUME NEW c \in Chat, Exit(c) \/ Reuse(c) PROVE TypeOK'
  BY <1>4, SpendKeeps DEF Exit, Reuse, Ended, TypeOK, Kind
<1> QED
  BY <1>1, <1>2, <1>3, <1>4 DEF World

LEMMA StepTypeOK == TypeOK /\ [Next]_vars => TypeOK'
<1> SUFFICES ASSUME TypeOK, [Next]_vars PROVE TypeOK'
  OBVIOUS
<1>1. CASE UNCHANGED vars
  BY <1>1 DEF vars, TypeOK, backend, runtime, threads, supervisor
<1> QED
  BY <1>1, StartTypeOK, EndTypeOK, ShutdownTypeOK, WorldTypeOK DEF Next

(* Type correctness of the chat supervisor.                                *)
THEOREM SupervisorTypeOK == Spec => []TypeOK
BY InitTypeOK, StepTypeOK, PTL DEF Spec

-----------------------------------------------------------------------------
(* One owner.                                                              *)

LEMMA InitIInv == Init => IInv
<1> SUFFICES ASSUME Init PROVE IInv
  OBVIOUS
<1>1. TypeOK
  BY InitTypeOK
<1>2. Stages
  BY DEF Init, Stages, Asking
<1>3. ClaimsAreHeld
  BY DEF Init, ClaimsAreHeld
<1>4. NewSessions /\ OneOwner
  BY NoneAssumption, SessionAssumption DEF Init, NewSessions, OneOwner, Owner
<1>5. ClaimsOfOwners
  BY DEF Init, ClaimsOfOwners, Starting
<1> QED
  BY <1>1, <1>2, <1>3, <1>4, <1>5 DEF IInv

\* Who registered too late stays known as one, and nobody else becomes one.
SameLate == \A c \in Chat : "late" \in loose'[c] <=> "late" \in loose[c]

\* Only conversation c goes to another stage.
Moves(c, stage) == at'[c] = stage /\ \A d \in Chat \ {c} : at'[d] = at[d]

\* A step that moves no start and no claim keeps it all, also when a conversation ends.
LEMMA QuietStep ==
  ASSUME IInv, TypeOK', UNCHANGED <<at, resumes, session, chats, claims>>, SameLate,
         \A c \in Chat : phase'[c] = "live" => phase[c] = "live"
  PROVE  IInv'
<1>1. \A s : Overwritten(s)' <=> Overwritten(s)
  BY DEF Overwritten, SameLate
<1>2. Stages' /\ ClaimsAreHeld' /\ NewSessions'
  BY DEF IInv, Stages, ClaimsAreHeld, NewSessions, SameLate
<1>3. ClaimsOfOwners'
  BY <1>1 DEF IInv, ClaimsOfOwners, TypeOK
<1>4. OneOwner'
  BY <1>1 DEF IInv, OneOwner, Owner, TypeOK
<1> QED
  BY <1>2, <1>3, <1>4 DEF IInv

\* A start under way goes on with the session it has.
LEMMA GoesOn ==
  ASSUME IInv, TypeOK', NEW c \in Chat, NEW stage \in Starting \ {"account"},
         at[c] \in Starting, Moves(c, stage), stage = "insert" => session[c] # None,
         UNCHANGED <<resumes, session, phase, chats, claims, loose>>
  PROVE  IInv'
<1>1. \A s : Overwritten(s)' <=> Overwritten(s)
  BY DEF Overwritten
<1>2. Stages'
  BY DEF IInv, Stages, Moves, Starting, Asking
<1>3. ClaimsAreHeld'
  BY DEF IInv, ClaimsAreHeld, Moves, TypeOK
<1>4. NewSessions'
  BY DEF IInv, NewSessions, Moves, Starting
<1>5. ClaimsOfOwners'
  BY <1>1 DEF IInv, ClaimsOfOwners, Moves
<1>6. OneOwner'
  BY <1>1 DEF IInv, OneOwner, Owner, Moves
<1> QED
  BY <1>2, <1>3, <1>4, <1>5, <1>6 DEF IInv

\* A start that resumes nothing gets a session nobody has heard of.
LEMMA IsNamed ==
  ASSUME IInv, TypeOK', NEW c \in Chat, NEW stage \in Starting \ {"account"}, NEW s \in Session,
         at[c] \in Starting, Moves(c, stage), ~resumes[c], session[c] = None, Fresh(s),
         session' = [session EXCEPT ![c] = s],
         UNCHANGED <<resumes, phase, chats, claims, loose>>
  PROVE  IInv'
<1>1. session'[c] = s /\ \A d \in Chat \ {c} : session'[d] = session[d] /\ session[d] # s
  BY DEF IInv, TypeOK, Fresh
<1>2. "late" \notin loose[c] /\ c \notin chats
  BY DEF IInv, Stages, Starting
<1>3. s # None /\ s \notin Existing
  BY NoneAssumption DEF Fresh
<1>4. \A t \in Session : Overwritten(t)' <=> Overwritten(t)
  BY <1>1, <1>2 DEF Overwritten
<1>5. Stages'
  BY <1>1, <1>3 DEF IInv, Stages, Moves, Starting, Asking
<1>6. ClaimsAreHeld'
  BY <1>1, NoneAssumption DEF IInv, ClaimsAreHeld, Moves, TypeOK
<1>7. NewSessions'
  <2>1. \A d \in Chat \ {c} : session'[d] # session'[c]
    BY <1>1
  <2> QED
    BY <1>1, <1>3, <2>1 DEF IInv, NewSessions, Moves, Starting
<1>8. ClaimsOfOwners'
  <2> SUFFICES ASSUME NEW d \in Chat,
                      \/ at'[d] \in Starting /\ resumes[d]
                      \/ d \in chats /\ phase[d] = "live"
               PROVE  /\ at'[d] \in Starting /\ resumes[d] =>
                           claims[session'[d]] = d \/ Overwritten(session[d])'
                      /\ d \in chats /\ phase[d] = "live" =>
                           claims[session'[d]] \in {d, None} \/ Overwritten(session[d])'
    BY DEF ClaimsOfOwners
  <2>1. d # c
    BY <1>2
  <2>2. session'[d] = session[d] /\ at'[d] = at[d]
    BY <1>1, <2>1 DEF Moves
  <2>3. session[d] \in Session
    BY <2>2 DEF IInv, Stages, TypeOK, Starting
  <2> QED
    BY <1>4, <2>2, <2>3 DEF IInv, ClaimsOfOwners
<1>9. OneOwner'
  BY <1>1, <1>4 DEF IInv, OneOwner, Owner, Moves, TypeOK
<1> QED
  BY <1>5, <1>6, <1>7, <1>8, <1>9 DEF IInv

\* A start that fails gives its claim back.
LEMMA ReturnKeeps ==
  ASSUME IInv, TypeOK', NEW c \in Chat, at[c] \in Starting, Return(c), SameLate,
         UNCHANGED <<resumes, session, phase, chats>>
  PROVE  IInv'
<1>1. Moves(c, "over")
  BY DEF Return, Go, Moves, IInv, TypeOK
<1>2. c \notin chats
  BY DEF IInv, Stages, Starting
<1>3. /\ \A s \in Session : claims'[s] # c
      /\ \A s \in Session : claims'[s] = claims[s] \/ (claims'[s] = None /\ claims[s] = c)
  <2>1. \A s \in Session : claims'[s] =
          IF resumes[c] /\ s = session[c] /\ claims[s] = c THEN None ELSE claims[s]
    BY DEF Return
  <2>2. \A s \in Session : claims[s] = c => session[c] = s /\ resumes[c]
    BY <1>2, NoneAssumption DEF IInv, ClaimsAreHeld
  <2> QED
    BY <2>1, <2>2, NoneAssumption
<1>4. \A s : Overwritten(s)' <=> Overwritten(s)
  BY DEF Overwritten, SameLate
<1>5. Stages'
  BY <1>1 DEF IInv, Stages, Moves, SameLate, Starting, Asking
<1>6. ClaimsAreHeld'
  BY <1>1, <1>3 DEF IInv, ClaimsAreHeld, Moves, TypeOK
<1>7. NewSessions'
  BY <1>1 DEF IInv, NewSessions, Moves
<1>8. ClaimsOfOwners'
  <2> SUFFICES ASSUME NEW d \in Chat,
                      \/ at'[d] \in Starting /\ resumes[d]
                      \/ d \in chats /\ phase[d] = "live"
               PROVE  /\ at'[d] \in Starting /\ resumes[d] =>
                           claims'[session[d]] = d \/ Overwritten(session[d])
                      /\ d \in chats /\ phase[d] = "live" =>
                           claims'[session[d]] \in {d, None} \/ Overwritten(session[d])
    BY <1>4 DEF ClaimsOfOwners
  <2>1. d # c /\ at'[d] = at[d]
    BY <1>1, <1>2 DEF Moves, Starting
  <2>2. session[d] \in Session
    BY <2>1 DEF IInv, Stages, TypeOK, Starting
  <2> QED
    BY <1>3, <2>1, <2>2 DEF IInv, ClaimsOfOwners
<1>9. OneOwner'
  BY <1>1, <1>4 DEF IInv, OneOwner, Owner, Moves, Starting
<1> QED
  BY <1>5, <1>6, <1>7, <1>8, <1>9 DEF IInv

\* A start begins, with a session somebody may know by now, or without one.
LEMMA BeginKeeps ==
  ASSUME IInv, TypeOK', NEW c \in Chat, Begin(c)
  PROVE  IInv'
<1>1. UNCHANGED <<phase, chats, claims, loose>>
  BY DEF Begin, supervisor
<1>2. /\ c \notin chats /\ "late" \notin loose[c] /\ session[c] = None /\ ~resumes[c]
      /\ \A s \in Session : claims[s] # c
  <2>1. c \notin chats /\ "late" \notin loose[c] /\ session[c] = None /\ ~resumes[c]
    BY DEF Begin, IInv, Stages
  <2> QED
    BY <2>1, NoneAssumption DEF IInv, ClaimsAreHeld
<1>3. CASE Go(c, "account") /\ UNCHANGED <<session, resumes>>
  <2>1. Moves(c, "account")
    BY <1>3 DEF Go, Moves, IInv, TypeOK
  <2>2. \A s : Overwritten(s)' <=> Overwritten(s)
    BY <1>1, <1>3 DEF Overwritten
  <2>3. Stages'
    BY <1>1, <1>2, <1>3, <2>1 DEF IInv, Stages, Moves, Asking
  <2>4. ClaimsAreHeld'
    BY <1>1, <1>2, <1>3, <2>1 DEF IInv, ClaimsAreHeld, Moves, TypeOK
  <2>5. NewSessions'
    BY <1>2, <1>3, <2>1 DEF IInv, NewSessions, Moves, Begin
  <2>6. ClaimsOfOwners'
    BY <1>1, <1>2, <1>3, <2>1, <2>2 DEF IInv, ClaimsOfOwners, Moves
  <2>7. OneOwner'
    BY <1>1, <1>2, <1>3, <2>1, <2>2 DEF IInv, OneOwner, Owner, Moves
  <2> QED
    BY <2>3, <2>4, <2>5, <2>6, <2>7 DEF IInv
<1>4. CASE \E s \in Session :
             /\ Nameable(s) /\ Go(c, "stale")
             /\ session' = [session EXCEPT ![c] = s] /\ resumes' = [resumes EXCEPT ![c] = TRUE]
  <2>1. PICK s \in Session :
             /\ Nameable(s) /\ Go(c, "stale")
             /\ session' = [session EXCEPT ![c] = s] /\ resumes' = [resumes EXCEPT ![c] = TRUE]
    BY <1>4, Zenon
  <2>2. Moves(c, "stale")
    BY <2>1 DEF Go, Moves, IInv, TypeOK
  <2>3. /\ session'[c] = s /\ s # None
        /\ \A d \in Chat \ {c} : session'[d] = session[d]
    BY <2>1, NoneAssumption DEF IInv, TypeOK
  <2>4. resumes'[c] /\ \A d \in Chat \ {c} : resumes'[d] = resumes[d]
    BY <2>1 DEF IInv, TypeOK
  <2>5. \A t \in Session : Overwritten(t)' <=> Overwritten(t)
    BY <1>1, <1>2, <2>3, NoneAssumption DEF Overwritten
  <2>6. Stages'
    BY <1>1, <1>2, <2>2, <2>3, <2>4 DEF IInv, Stages, Moves, Asking
  <2>7. ClaimsAreHeld'
    BY <1>1, <1>2, <2>2, <2>3, <2>4 DEF IInv, ClaimsAreHeld, Moves, TypeOK
  <2>8. NewSessions'
    <3>1. \A d \in Chat : ~resumes[d] /\ session[d] = s => at[d] \in {"register", "run", "over"}
      BY <2>1, <2>3 DEF Nameable, IInv, NewSessions, TypeOK
    <3> QED
      BY <2>2, <2>3, <2>4, <3>1 DEF IInv, NewSessions, Moves
  <2>9. ClaimsOfOwners'
    <3> SUFFICES ASSUME NEW d \in Chat,
                        \/ at'[d] \in Starting /\ resumes'[d]
                        \/ d \in chats /\ phase[d] = "live"
                 PROVE  /\ at'[d] \in Starting /\ resumes'[d] =>
                             claims[session'[d]] = d \/ Overwritten(session[d])'
                        /\ d \in chats /\ phase[d] = "live" =>
                             claims[session'[d]] \in {d, None} \/ Overwritten(session[d])'
      BY <1>1 DEF ClaimsOfOwners
    <3>1. d # c
      BY <1>2, <2>2 DEF Moves, Starting
    <3>2. session'[d] = session[d] /\ at'[d] = at[d] /\ resumes'[d] = resumes[d]
      BY <2>2, <2>3, <2>4, <3>1 DEF Moves
    <3>3. session[d] \in Session
      BY <3>2 DEF IInv, Stages, TypeOK, Starting
    <3> QED
      BY <2>5, <3>2, <3>3 DEF IInv, ClaimsOfOwners
  <2>10. OneOwner'
    <3>1. ~Owner(c)'
      BY <1>1, <1>2, <2>2 DEF Owner, Moves, Starting
    <3>2. \A d \in Chat \ {c} : Owner(d)' => Owner(d) /\ session'[d] = session[d] /\ session[d] \in Session
      BY <1>1, <2>2, <2>3 DEF Owner, Moves, IInv, TypeOK
    <3> QED
      BY <2>5, <3>1, <3>2 DEF IInv, OneOwner
  <2> QED
    BY <2>6, <2>7, <2>8, <2>9, <2>10 DEF IInv
<1> QED
  BY <1>3, <1>4, Zenon DEF Begin

\* A start that is not told it may have its session has nothing to give back.
LEMMA AsksOn ==
  ASSUME IInv, TypeOK', NEW c \in Chat, NEW stage \in {"claim", "over"}, at[c] \in Asking,
         Moves(c, stage), UNCHANGED <<resumes, session, phase, chats, claims, loose>>
  PROVE  IInv'
<1>1. \A s : Overwritten(s)' <=> Overwritten(s)
  BY DEF Overwritten
<1>2. c \notin chats /\ \A s \in Session : claims[s] # c
  <2>1. c \notin chats /\ at[c] \notin Starting
    BY DEF IInv, Stages, Asking, Starting
  <2> QED
    BY <2>1, NoneAssumption DEF IInv, ClaimsAreHeld
<1>3. Stages'
  BY DEF IInv, Stages, Moves, Asking
<1>4. ClaimsAreHeld'
  BY <1>2 DEF IInv, ClaimsAreHeld, Moves, TypeOK
<1>5. NewSessions'
  BY DEF IInv, NewSessions, Moves, Stages, Asking
<1>6. ClaimsOfOwners'
  BY <1>1 DEF IInv, ClaimsOfOwners, Moves, Starting
<1>7. OneOwner'
  BY <1>1 DEF IInv, OneOwner, Owner, Moves, Starting
<1> QED
  BY <1>3, <1>4, <1>5, <1>6, <1>7 DEF IInv

\* Who is told may have it: nobody else does.
LEMMA ClaimKeeps ==
  ASSUME IInv, TypeOK', NEW c \in Chat, Claim(c)
  PROVE  IInv'
<1> DEFINE s == session[c]
           taken == claims[s] # None /\ StillActive(claims[s])
<1>1. at[c] = "claim" /\ UNCHANGED <<resumes, session, phase, chats, loose>>
  BY DEF Claim, runtime
<1>2. resumes[c] /\ s \in Session
  BY <1>1 DEF IInv, Stages, TypeOK, Asking
<1>3. c \notin chats /\ \A t \in Session : claims[t] # c
  <2>1. c \notin chats /\ at[c] \notin Starting
    BY <1>1 DEF IInv, Stages, Starting
  <2> QED
    BY <2>1, NoneAssumption DEF IInv, ClaimsAreHeld
<1>4. \A t : Overwritten(t)' <=> Overwritten(t)
  BY <1>1 DEF Overwritten
<1>5. \A d \in Chat : claims[s] = d => (at[d] \in Starting => StillActive(d))
  BY DEF StillActive, IInv, Stages, Starting
<1>6. \A d \in Chat : at[d] \in Starting /\ session[d] = s /\ ~Overwritten(s) => taken
  <2> SUFFICES ASSUME NEW d \in Chat, at[d] \in Starting, session[d] = s, ~Overwritten(s)
               PROVE  taken
    OBVIOUS
  <2>1. resumes[d]
    BY <1>2 DEF IInv, NewSessions, Starting
  <2>2. claims[s] = d
    BY <2>1 DEF IInv, ClaimsOfOwners
  <2> QED
    BY <1>5, <2>2, NoneAssumption
<1>7. CASE taken
  <2>1. Go(c, "over") /\ UNCHANGED claims
    BY <1>7, Zenon DEF Claim
  <2>2. Moves(c, "over")
    BY <2>1 DEF Go, Moves, IInv, TypeOK
  <2> QED
    BY <1>1, <2>1, <2>2, AsksOn DEF Asking
<1>8. ASSUME ~taken, Go(c, "over"), NEW d \in RunningOn(s), claims' = [claims EXCEPT ![s] = d]
      PROVE  IInv'
  <2>1. Moves(c, "over")
    BY <1>8 DEF Go, Moves, IInv, TypeOK
  <2>2. d \in chats /\ d \in Chat /\ session[d] = s /\ phase[d] = "live"
    BY <1>8 DEF RunningOn, IInv, TypeOK
  <2>3. claims'[s] = d /\ \A t \in Session \ {s} : claims'[t] = claims[t]
    BY <1>2, <1>8 DEF IInv, TypeOK
  <2>4. Stages'
    BY <1>1, <2>1 DEF IInv, Stages, Moves, Asking
  <2>5. ClaimsAreHeld'
    <3>1. d # c
      BY <1>3, <2>2
    <3> QED
      BY <1>1, <1>3, <2>1, <2>2, <2>3, <3>1 DEF IInv, ClaimsAreHeld, Moves, TypeOK
  <2>6. NewSessions'
    BY <1>1, <2>1 DEF IInv, NewSessions, Moves
  <2>7. ClaimsOfOwners'
    <3> SUFFICES ASSUME NEW e \in Chat,
                        \/ at'[e] \in Starting /\ resumes[e]
                        \/ e \in chats /\ phase[e] = "live"
                 PROVE  /\ at'[e] \in Starting /\ resumes[e] =>
                             claims'[session[e]] = e \/ Overwritten(session[e])
                        /\ e \in chats /\ phase[e] = "live" =>
                             claims'[session[e]] \in {e, None} \/ Overwritten(session[e])
      BY <1>1, <1>4 DEF ClaimsOfOwners
    <3>1. e # c /\ at'[e] = at[e]
      BY <1>3, <2>1 DEF Moves, Starting
    <3>2. session[e] \in Session
      BY <3>1 DEF IInv, Stages, TypeOK, Starting
    <3>3. CASE session[e] # s
      BY <2>3, <3>1, <3>2, <3>3 DEF IInv, ClaimsOfOwners
    <3>4. CASE session[e] = s
      <4>1. ~Overwritten(s) => e \in chats /\ phase[e] = "live"
        BY <1>6, <1>8, <3>1, <3>4
      <4>2. ~Overwritten(s) => e = d
        BY <2>2, <3>2, <3>4, <4>1, NoneAssumption DEF IInv, OneOwner, Owner
      <4>3. at[e] \in Starting => e \notin chats
        BY DEF IInv, Stages, Starting
      <4> QED
        BY <2>3, <3>1, <3>4, <4>1, <4>2, <4>3
    <3> QED
      BY <3>3, <3>4
  <2>8. OneOwner'
    BY <1>1, <1>4, <2>1 DEF IInv, OneOwner, Owner, Moves, Starting
  <2> QED
    BY <2>4, <2>5, <2>6, <2>7, <2>8 DEF IInv
<1>9. ASSUME ~taken, RunningOn(s) = {}, Go(c, "account"), claims' = [claims EXCEPT ![s] = c]
      PROVE  IInv'
  <2>1. Moves(c, "account")
    BY <1>9 DEF Go, Moves, IInv, TypeOK
  <2>2. claims'[s] = c /\ \A t \in Session \ {s} : claims'[t] = claims[t]
    BY <1>2, <1>9 DEF IInv, TypeOK
  <2>3. Stages'
    BY <1>1, <1>2, <2>1 DEF IInv, Stages, Moves, Asking
  <2>4. ClaimsAreHeld'
    BY <1>1, <1>2, <1>3, <2>1, <2>2 DEF IInv, ClaimsAreHeld, Moves, TypeOK, Starting
  <2>5. NewSessions'
    BY <1>1, <1>2, <2>1 DEF IInv, NewSessions, Moves
  <2>6. \A d \in Chat \ {c} : Owner(d) /\ session[d] = s => Overwritten(s)
    BY <1>6, <1>9 DEF Owner, RunningOn
  <2>7. ClaimsOfOwners'
    <3> SUFFICES ASSUME NEW e \in Chat,
                        \/ at'[e] \in Starting /\ resumes[e]
                        \/ e \in chats /\ phase[e] = "live"
                 PROVE  /\ at'[e] \in Starting /\ resumes[e] =>
                             claims'[session[e]] = e \/ Overwritten(session[e])
                        /\ e \in chats /\ phase[e] = "live" =>
                             claims'[session[e]] \in {e, None} \/ Overwritten(session[e])
      BY <1>1, <1>4 DEF ClaimsOfOwners
    <3>1. CASE e = c
      BY <2>2, <3>1
    <3>2. CASE e # c
      <4>1. at'[e] = at[e] /\ session[e] \in Session
        BY <2>1, <3>2 DEF Moves, IInv, Stages, TypeOK, Starting
      <4>2. CASE session[e] # s
        BY <2>2, <4>1, <4>2 DEF IInv, ClaimsOfOwners
      <4>3. CASE session[e] = s
        BY <2>6, <3>2, <4>1, <4>3, NoneAssumption DEF Owner
      <4> QED
        BY <4>2, <4>3
    <3> QED
      BY <3>1, <3>2
  <2>8. OneOwner'
    <3>1. \A d \in Chat \ {c} : Owner(d)' => Owner(d)
      BY <1>1, <2>1 DEF Owner, Moves
    <3> QED
      BY <1>1, <1>4, <2>6, <3>1 DEF IInv, OneOwner
  <2> QED
    BY <2>3, <2>4, <2>5, <2>7, <2>8 DEF IInv
<1> QED
  BY <1>7, <1>8, <1>9, Zenon DEF Claim

\* The conversation is in the registry: a claim on its session is its own.
LEMMA InsertKeeps ==
  ASSUME IInv, TypeOK', NEW c \in Chat, Insert(c)
  PROVE  IInv'
<1>1. /\ at[c] = "insert" /\ chats' = chats \cup {c}
      /\ UNCHANGED <<resumes, session, phase, claims, loose>>
  BY DEF Insert, runtime
<1>2. Moves(c, "register")
  BY DEF Insert, Go, Moves, IInv, TypeOK
<1>3. \A s : Overwritten(s)' <=> Overwritten(s)
  BY <1>1 DEF Overwritten
<1>4. session[c] \in Session
  BY <1>1 DEF IInv, Stages, TypeOK
<1>5. claims[session[c]] \in {c, None} \/ Overwritten(session[c])
  <2> DEFINE d == claims[session[c]]
  <2>1. CASE resumes[c]
    BY <1>1, <2>1 DEF IInv, ClaimsOfOwners, Starting
  <2>2. CASE ~resumes[c] /\ d # None
    <3>1. d \in Chat /\ session[d] = session[c]
      BY <1>4, <2>2 DEF IInv, ClaimsAreHeld, TypeOK
    <3>2. ~resumes[d]
      BY <1>1, <2>2, <3>1 DEF IInv, NewSessions
    <3>3. d = c
      BY <1>4, <2>2, <3>1, <3>2, NoneAssumption DEF IInv, NewSessions
    <3> QED
      BY <3>3
  <2> QED
    BY <2>1, <2>2
<1>6. Stages'
  BY <1>1, <1>2 DEF IInv, Stages, Moves, Asking
<1>7. ClaimsAreHeld'
  BY <1>1, <1>2 DEF IInv, ClaimsAreHeld, Moves, TypeOK
<1>8. NewSessions'
  BY <1>1, <1>2 DEF IInv, NewSessions, Moves
<1>9. ClaimsOfOwners'
  BY <1>1, <1>2, <1>3, <1>5 DEF IInv, ClaimsOfOwners, Moves, Starting
<1>10. OneOwner'
  <2>1. \A d \in Chat : Owner(d)' => Owner(d)
    BY <1>1, <1>2 DEF Owner, Moves, Starting
  <2> QED
    BY <1>1, <1>3, <2>1 DEF IInv, OneOwner
<1> QED
  BY <1>6, <1>7, <1>8, <1>9, <1>10 DEF IInv

\* It takes the claim, from nobody who may have it, unless it has ended.
LEMMA RegisterKeeps ==
  ASSUME IInv, TypeOK', NEW c \in Chat, Register(c)
  PROVE  IInv'
<1> DEFINE s == session[c]
<1>1. at[c] = "register" /\ UNCHANGED <<resumes, session, phase, chats>>
  BY DEF Register, runtime
<1>2. Moves(c, "run")
  BY DEF Register, Go, Moves, IInv, TypeOK
<1>3. c \in chats /\ s \in Session
  BY <1>1 DEF IInv, Stages, TypeOK
<1>4. claims'[s] = c /\ \A t \in Session \ {s} : claims'[t] = claims[t]
  BY <1>3 DEF Register, IInv, TypeOK
<1>5. /\ \A d \in Chat : "late" \in loose[d] => "late" \in loose'[d]
      /\ \A d \in Chat \ {c} : loose'[d] = loose[d]
      /\ phase[c] # "live" => "late" \in loose'[c]
  <2>1. loose' = [loose EXCEPT ![c] = @ \cup IF phase[c] = "live" THEN {} ELSE {"late"}]
    BY DEF Register, Note
  <2> QED
    BY <2>1 DEF IInv, TypeOK
<1>6. \A t : Overwritten(t) => Overwritten(t)'
  BY <1>1, <1>5 DEF Overwritten
<1>7. Overwritten(s)' \/ phase[c] = "live"
  BY <1>1, <1>5 DEF Overwritten
<1>8. Stages'
  BY <1>1, <1>2, <1>5 DEF IInv, Stages, Moves, Asking
<1>9. ClaimsAreHeld'
  BY <1>1, <1>2, <1>3, <1>4 DEF IInv, ClaimsAreHeld, Moves, TypeOK
<1>10. NewSessions'
  BY <1>1, <1>2 DEF IInv, NewSessions, Moves
<1>11. \A d \in Chat : Owner(d)' <=> Owner(d)
  BY <1>1, <1>2 DEF Owner, Moves, Starting
<1>12. ClaimsOfOwners'
  <2> SUFFICES ASSUME NEW e \in Chat,
                      \/ at'[e] \in Starting /\ resumes[e]
                      \/ e \in chats /\ phase[e] = "live"
               PROVE  /\ at'[e] \in Starting /\ resumes[e] =>
                           claims'[session[e]] = e \/ Overwritten(session[e])'
                      /\ e \in chats /\ phase[e] = "live" =>
                           claims'[session[e]] \in {e, None} \/ Overwritten(session[e])'
    BY <1>1 DEF ClaimsOfOwners
  <2>1. at'[e] \in Starting => e # c /\ at[e] \in Starting
    BY <1>2 DEF Moves, Starting
  <2>2. session[e] \in Session /\ Owner(e)
    BY <2>1 DEF IInv, Stages, TypeOK, Starting, Owner
  <2>3. CASE session[e] # s
    BY <1>1, <1>4, <1>6, <2>1, <2>2, <2>3 DEF IInv, ClaimsOfOwners
  <2>4. CASE session[e] = s /\ ~Overwritten(s)'
    <3>1. Owner(c)
      BY <1>3, <1>7, <2>4, NoneAssumption DEF Owner
    <3>2. e = c
      BY <1>1, <1>6, <2>2, <2>4, <3>1 DEF IInv, OneOwner
    <3> QED
      BY <1>4, <2>1, <3>2
  <2> QED
    BY <1>1, <2>3, <2>4
<1>13. OneOwner'
  BY <1>1, <1>6, <1>11 DEF IInv, OneOwner
<1> QED
  BY <1>8, <1>9, <1>10, <1>12, <1>13 DEF IInv

\* When the backend ends nobody owns anything.
LEMMA CrashKeeps ==
  ASSUME IInv, TypeOK', Crash
  PROVE  IInv'
<1>1. /\ chats' = {} /\ UNCHANGED <<resumes, session, phase>>
      /\ \A c \in Chat : at'[c] = IF at[c] = "idle" THEN "idle" ELSE "over"
      /\ \A s \in Session : claims'[s] = None
  BY DEF Crash, runtime
<1>2. \A c \in Chat : "late" \in loose'[c] => "late" \in loose[c]
  BY DEF Crash
<1>3. Stages'
  BY <1>1, <1>2 DEF IInv, Stages, Asking
<1>4. ClaimsAreHeld'
  BY <1>1 DEF ClaimsAreHeld
<1>5. NewSessions'
  <2>1. \A c, d \in Chat : ~resumes[c] /\ resumes[d] /\ session[c] = session[d] => at'[c] = "over"
    BY <1>1 DEF IInv, NewSessions
  <2> QED
    BY <1>1, <2>1 DEF IInv, NewSessions
<1>6. \A c \in Chat : at'[c] \notin Starting /\ c \notin chats'
  BY <1>1 DEF Starting
<1>7. ClaimsOfOwners' /\ OneOwner'
  BY <1>6 DEF ClaimsOfOwners, OneOwner, Owner
<1> QED
  BY <1>3, <1>4, <1>5, <1>7 DEF IInv

-----------------------------------------------------------------------------
(* All steps.                                                              *)

LEMMA StartKeeps ==
  ASSUME IInv, TypeOK', NEW c \in Chat, Start(c)
  PROVE  IInv'
<1>1. CASE Begin(c)
  BY <1>1, BeginKeeps
<1>2. CASE RetryStale(c)
  <2>1. /\ at[c] = "stale" /\ UNCHANGED <<resumes, session, phase, chats, claims, loose>>
        /\ Go(c, "claim") \/ Go(c, "over")
    BY <1>2 DEF RetryStale, runtime
  <2>2. Moves(c, "claim") \/ Moves(c, "over")
    BY <2>1 DEF Go, Moves, IInv, TypeOK
  <2> QED
    BY <2>1, <2>2, AsksOn DEF Asking
<1>3. CASE Claim(c)
  BY <1>3, ClaimKeeps
<1>4. CASE FailEarly(c)
  BY <1>4, ReturnKeeps DEF FailEarly, Starting, runtime, SameLate
<1>5. CASE Acquire(c)
  <2>1. /\ at[c] = "account" /\ UNCHANGED <<resumes, phase, chats, claims, loose>>
        /\ \/ UNCHANGED session
           \/ ~resumes[c] /\ \E s \in Session : Fresh(s) /\ session' = [session EXCEPT ![c] = s]
    BY <1>5, Zenon DEF Acquire, supervisor
  <2>2. Moves(c, "launch")
    BY <1>5 DEF Acquire, Go, Moves, IInv, TypeOK
  <2>3. ~resumes[c] => session[c] = None
    BY <2>1 DEF IInv, Stages
  <2> QED
    BY <2>1, <2>2, <2>3, GoesOn, IsNamed DEF Starting
<1>6. CASE Launch(c)
  <2>1. at[c] = "launch" /\ UNCHANGED <<resumes, session, phase, chats, claims, loose>>
    BY <1>6 DEF Launch, runtime, supervisor
  <2>2. Moves(c, "handshake")
    BY <1>6 DEF Launch, Go, Moves, IInv, TypeOK
  <2> QED
    BY <2>1, <2>2, GoesOn DEF Starting
<1>7. CASE Discard(c)
  BY <1>7, ReturnKeeps DEF Discard, Starting, runtime, SameLate
<1>8. CASE Record(c)
  <2>1. /\ at[c] = "handshake" /\ UNCHANGED <<resumes, phase, chats, claims, loose>>
        /\ \/ session[c] # None /\ UNCHANGED session
           \/ session[c] = None /\ \E s \in Session : Fresh(s) /\ session' = [session EXCEPT ![c] = s]
    BY <1>8, Zenon DEF Record, supervisor
  <2>2. Moves(c, "insert")
    BY <1>8 DEF Record, Go, Moves, IInv, TypeOK
  <2>3. session[c] = None => ~resumes[c]
    BY DEF IInv, Stages
  <2> QED
    BY <2>1, <2>2, <2>3, GoesOn, IsNamed DEF Starting
<1>9. CASE RecordFails(c) \/ Cancelled(c)
  <2>1. at[c] \in Starting /\ UNCHANGED <<resumes, session, phase, chats, claims, loose>>
    BY <1>9 DEF RecordFails, Cancelled, runtime, supervisor, Starting
  <2>2. Moves(c, "undo")
    BY <1>9 DEF RecordFails, Cancelled, Go, Moves, IInv, TypeOK
  <2> QED
    BY <2>1, <2>2, GoesOn DEF Starting
<1>10. CASE Insert(c)
  BY <1>10, InsertKeeps
<1>11. CASE Register(c)
  BY <1>11, RegisterKeeps
<1>12. CASE Undone(c)
  <2>1. at[c] = "undo" /\ Return(c) /\ UNCHANGED <<resumes, session, phase, chats>>
    BY <1>12 DEF Undone, runtime
  <2>2. SameLate
    BY <1>12 DEF Undone, Note, SameLate, IInv, TypeOK
  <2> QED
    BY <2>1, <2>2, ReturnKeeps DEF Starting
<1> QED
  BY <1>1, <1>2, <1>3, <1>4, <1>5, <1>6, <1>7, <1>8, <1>9, <1>10, <1>11, <1>12 DEF Start

LEMMA EndKeeps ==
  ASSUME IInv, TypeOK', NEW c \in Chat, End(c)
  PROVE  IInv'
<1>1. UNCHANGED <<at, resumes, session, chats, claims>>
  BY DEF End, Stop, Kill, KillFails, Clear, Settle, Release, GiveUp, Poll, MonitorReleases,
         settle_persistent_exit, RefreshReads, RefreshWrites, runtime, supervisor
<1>2. SameLate
  <2>1. CASE GiveUp(c)
    BY <2>1 DEF GiveUp, Note, SameLate, IInv, TypeOK
  <2>2. CASE ~GiveUp(c)
    BY <2>2 DEF End, Stop, Kill, KillFails, Clear, Settle, Release, Poll, MonitorReleases,
                settle_persistent_exit, RefreshReads, RefreshWrites, SameLate
  <2> QED
    BY <2>1, <2>2
<1>3. \A d \in Chat : phase'[d] = "live" => phase[d] = "live"
  <2>1. UNCHANGED phase \/ \E p \in {"stopped", "failed"} : phase' = [phase EXCEPT ![c] = p]
    BY DEF End, Stop, Kill, KillFails, Clear, Settle, Release, GiveUp, Poll, MonitorReleases,
           settle_persistent_exit, RefreshReads, RefreshWrites, runtime
  <2> QED
    BY <2>1 DEF IInv, TypeOK
<1> QED
  BY <1>1, <1>2, <1>3, QuietStep

LEMMA ShutdownKeeps == IInv /\ TypeOK' /\ Shutdown => IInv'
<1> SUFFICES ASSUME IInv, TypeOK', Shutdown PROVE IInv'
  OBVIOUS
<1>1. UNCHANGED <<at, resumes, session, phase, chats, claims, loose>>
  BY DEF Shutdown, BeginShutdown, Snapshot, Count, StopNext, runtime, supervisor
<1> QED
  BY <1>1, QuietStep DEF SameLate

LEMMA WorldKeeps == IInv /\ TypeOK' /\ World => IInv'
<1> SUFFICES ASSUME IInv, TypeOK', World PROVE IInv'
  OBVIOUS
<1>1. ASSUME ~Crash
      PROVE  UNCHANGED <<at, resumes, session, phase, chats, claims, loose>>
  BY <1>1 DEF World, Restart, Ready, Recover, Exit, Reuse, runtime, supervisor
<1> QED
  BY <1>1, CrashKeeps, QuietStep DEF SameLate

LEMMA StepIInv == IInv /\ [Next]_vars => IInv'
<1> SUFFICES ASSUME IInv, [Next]_vars PROVE IInv'
  OBVIOUS
<1>1. TypeOK'
  BY StepTypeOK DEF IInv
<1>2. CASE UNCHANGED vars
  BY <1>1, <1>2, QuietStep DEF vars, runtime, supervisor, SameLate
<1>3. CASE Next
  BY <1>1, <1>3, StartKeeps, EndKeeps, ShutdownKeeps, WorldKeeps DEF Next
<1> QED
  BY <1>2, <1>3

(* The inductive invariant holds in every reachable state.                 *)
THEOREM SupervisorInvariant == Spec => []IInv
BY InitIInv, StepIInv, PTL DEF Spec

(* A session has one owner, however many starts race for it, fail, are     *)
(* cancelled or registered, unless a conversation that had ended took the  *)
(* claim on it (claim_resume_session, register_runtime_session_claim).     *)
THEOREM SessionHasOneOwner == Spec => []OneOwner
<1>1. IInv => OneOwner
  BY DEF IInv
<1> QED
  BY <1>1, SupervisorInvariant, PTL

(* No claim is left to a conversation that is over: ResumeClaimGuard gives *)
(* it back on every way out of a start.                                    *)
THEOREM ClaimsAreGivenBack == Spec => []NoDeadClaims
<1>1. IInv => NoDeadClaims
  BY DEF IInv, ClaimsAreHeld, NoDeadClaims
<1> QED
  BY <1>1, SupervisorInvariant, PTL

-----------------------------------------------------------------------------
(* What becomes of processes: at most one works on a session (OneWriter),  *)
(* one that nobody holds is on disk (Recoverable), and a clean shutdown    *)
(* left none (ShutdownIsHonest).                                           *)
(*                                                                         *)
(* The first rests on the theorem about owners: a process that a backend   *)
(* holds belongs to an owner of its session.  A process no backend holds   *)
(* is an orphan: it has a lease, a backend that runs has tried to end it   *)
(* and blocks its session, and so nobody has got past retry_stale_         *)
(* runtime_recovery on that session since.                                 *)

\* Before its process is started a conversation has none of what follows it.
NotStarted(c) ==
  /\ at[c] \in Asking \cup {"idle", "account", "launch"} => ~Alive(c) /\ phase[c] = "live"
  /\ at[c] \in Asking \cup {"idle", "account", "launch", "handshake"} => watching[c] = "off"

\* What the handles, the stop and the monitor say of the process.
Handled(c) ==
  /\ stopping[c] # "no" => at[c] \in {"undo", "register", "run"}
  /\ stopping[c] \in {"clear", "settle", "release"} => ~Alive(c)
  /\ watching[c] \in {"account", "settle"} => ~Alive(c)
  /\ phase[c] # "live" => ~Alive(c) \/ loose[c] # {}
  /\ at[c] = "undo" /\ stopping[c] = "no" => ~Alive(c) \/ loose[c] # {}
  /\ Alive(c) /\ at[c] \in {"insert", "undo", "register", "run"} => "child" \in held[c]

\* An account is held from before the process is started until it is gone.
Accounted(c) ==
  /\ at[c] \in {"launch", "handshake"} => "account" \in held[c]
  /\ Alive(c) /\ "child" \in held[c] => "account" \in held[c]

\* A lease on disk names the session, and a process has one from its record on.
Leased(c) ==
  /\ "identity" \in held[c] \/ refreshing[c] => session[c] # None
  /\ leases[c] # None => leases[c] = session[c]
  /\ Alive(c) /\ at[c] \notin {"handshake", "undo"} => leases[c] # None \/ "unrecorded" \in loose[c]

Sound(c) == NotStarted(c) /\ Handled(c) /\ Accounted(c) /\ Leased(c)

\* The backend recovers before it starts anything, and shuts down what it started.
Backend ==
  /\ up # "up" => \A c \in Chat : at[c] \in {"idle", "over"}
  /\ up = "up" => pending = {}
  /\ closing.todo \subseteq chats

Orphan(c) == Alive(c) /\ at[c] = "over" /\ ~LetGo(session[c])

\* An orphan is on disk; a backend that runs has tried to end it and blocks its session.
Orphans ==
  \A c \in Chat : Orphan(c) =>
    /\ leases[c] # None
    /\ up = "down" \/ c \in pending \/ stale[session[c]] = c
    /\ \A d \in Chat \ {c} : session[d] = session[c] => at[d] \in {"stale", "over"}

\* After a clean shutdown nothing is under way but what was past the door without an account.
Clean ==
  closing.stage = "clean" =>
    \A c \in Chat \ closing.late :
      /\ at[c] \notin Asking \cup {"account", "launch", "handshake"}
      /\ Alive(c) => "child" \notin held[c]

AllSound == \A c \in Chat : Sound(c)

PInv == IInv /\ AllSound /\ Backend /\ Orphans /\ OneWriter /\ Clean

LEMMA InitPInv == Init => PInv
<1> SUFFICES ASSUME Init PROVE PInv
  OBVIOUS
<1>1. AllSound
  BY DEF Init, AllSound, Sound, NotStarted, Handled, Accounted, Leased, Alive
<1>2. Backend /\ Orphans /\ OneWriter /\ Clean
  BY DEF Init, Backend, Orphans, Orphan, OneWriter, Clean, Alive, Open
<1> QED
  BY <1>1, <1>2, InitIInv DEF PInv

-----------------------------------------------------------------------------
(* One conversation at a time.                                             *)

\* A conversation that is left alone stays sound, also when its process ends, its
\* lease goes with the process, or something is noted of it.
Alone(c) ==
  /\ at'[c] = at[c] /\ phase'[c] = phase[c] /\ watching'[c] = watching[c]
  /\ stopping'[c] = stopping[c] /\ held'[c] = held[c] /\ refreshing'[c] = refreshing[c]
  /\ session'[c] = session[c]
  /\ proc'[c] = proc[c] \/ ~Alive(c)'
  /\ leases'[c] = leases[c] \/ (leases'[c] = None /\ ~Alive(c)')
  /\ loose[c] \subseteq loose'[c]

LEMMA AloneStaysSound ==
  ASSUME NEW c, Sound(c), Alone(c)
  PROVE  Sound(c)'
<1>1. Alive(c)' => Alive(c)
  BY DEF Alone, Alive
<1>2. NotStarted(c)'
  BY <1>1 DEF Sound, NotStarted, Alone
<1>3. Handled(c)'
  BY <1>1 DEF Sound, Handled, Alone
<1>4. Accounted(c)'
  BY <1>1 DEF Sound, Accounted, Alone
<1>5. Leased(c)'
  BY <1>1 DEF Sound, Leased, Alone
<1> QED
  BY <1>2, <1>3, <1>4, <1>5 DEF Sound

\* What a step of the start of c may touch of another conversation: its orphan may end.
LEMMA StartLeavesAlone ==
  ASSUME TypeOK, NEW c \in Chat, Start(c)
  PROVE  \A d \in Chat \ {c} : Alone(d)
<1> USE DEF Alone, runtime, threads, TypeOK
<1>1. CASE Begin(c)
  <2>1. UNCHANGED <<proc, leases, phase, watching, stopping, held, refreshing, loose>>
    BY <1>1 DEF Begin
  <2>2. /\ \A d \in Chat \ {c} : at'[d] = at[d]
        /\ session' = session \/ \E s \in Session : session' = [session EXCEPT ![c] = s]
    BY <1>1 DEF Begin, Go
  <2> QED
    BY <2>1, <2>2
<1>2. CASE RetryStale(c)
  <2>1. /\ UNCHANGED <<phase, watching, stopping, held, refreshing, session, loose>>
        /\ \A d \in Chat \ {c} : at'[d] = at[d]
    BY <1>2 DEF RetryStale, Go
  <2>2. UNCHANGED <<proc, leases>> \/ Recovered(stale[session[c]])
    BY <1>2, Zenon DEF RetryStale, Stuck
  <2>3. ASSUME NEW o, Recovered(o), NEW d \in Chat
        PROVE  /\ proc'[d] = proc[d] \/ ~Alive(d)'
               /\ leases'[d] = leases[d] \/ (leases'[d] = None /\ ~Alive(d)')
    BY <2>3 DEF Recovered, Unleased, exact_match, Alive
  <2> QED
    BY <2>1, <2>2, <2>3
<1>3. CASE Claim(c)
  BY <1>3 DEF Claim, Go
<1>4. CASE FailEarly(c)
  BY <1>4 DEF FailEarly, Return, Go
<1>5. CASE Acquire(c)
  <2>1. UNCHANGED <<proc, leases, phase, watching, stopping, refreshing, loose>>
    BY <1>5 DEF Acquire
  <2>2. \A d \in Chat \ {c} : at'[d] = at[d] /\ held'[d] = held[d] /\ session'[d] = session[d]
    BY <1>5 DEF Acquire, Go, Hold
  <2> QED
    BY <2>1, <2>2
<1>6. CASE Launch(c)
  BY <1>6 DEF Launch, Go
<1>7. CASE Discard(c)
  BY <1>7 DEF Discard, Return, Ended, Go
<1>8. CASE Record(c)
  <2>1. UNCHANGED <<proc, phase, stopping, refreshing, loose>>
    BY <1>8 DEF Record
  <2>2. \A d \in Chat \ {c} : /\ at'[d] = at[d] /\ held'[d] = held[d] /\ session'[d] = session[d]
                              /\ watching'[d] = watching[d] /\ leases'[d] = leases[d]
    BY <1>8 DEF Record, Go, Hold, Watch
  <2> QED
    BY <2>1, <2>2
<1>9. CASE RecordFails(c)
  BY <1>9 DEF RecordFails, Go, Hold, Step
<1>10. CASE Cancelled(c)
  BY <1>10 DEF Cancelled, Go, Step
<1>11. CASE Insert(c)
  BY <1>11 DEF Insert, Go
<1>12. CASE Register(c)
  BY <1>12 DEF Register, Go, Note
<1>13. CASE Undone(c)
  BY <1>13 DEF Undone, Return, Go, Note
<1> QED
  BY <1>1, <1>2, <1>3, <1>4, <1>5, <1>6, <1>7, <1>8, <1>9, <1>10, <1>11, <1>12, <1>13 DEF Start

\* A step of the start of c leaves c sound.
LEMMA StartStaysSound ==
  ASSUME IInv, AllSound, TypeOK', NEW c \in Chat, Start(c)
  PROVE  Sound(c)'
<1> USE DEF runtime, threads, TypeOK, Alive, Asking
<1>1. Sound(c) /\ TypeOK /\ Stages
  BY DEF AllSound, IInv
<1>2. CASE Begin(c)
  <2>1. /\ at[c] = "idle" /\ at'[c] \in {"stale", "account"}
        /\ UNCHANGED <<proc, leases, phase, watching, stopping, held, refreshing, loose>>
    BY <1>1, <1>2 DEF Begin, Go
  <2>2. session[c] = None /\ ~("identity" \in held[c] \/ refreshing[c]) /\ leases[c] = None
    BY <1>1, <2>1 DEF Stages, Sound, Leased
  <2> QED
    BY <1>1, <2>1, <2>2 DEF Sound, NotStarted, Handled, Accounted, Leased
<1>3. CASE RetryStale(c)
  <2>1. /\ at[c] = "stale" /\ at'[c] \in {"claim", "over"}
        /\ UNCHANGED <<phase, watching, stopping, held, refreshing, session, loose>>
    BY <1>1, <1>3 DEF RetryStale, Go
  <2>2. UNCHANGED <<proc, leases>> \/ Recovered(stale[session[c]])
    BY <1>3, Zenon DEF RetryStale, Stuck
  <2>3. leases'[c] \in {leases[c], None} /\ (~Alive(c) => ~Alive(c)')
    BY <1>1, <2>2 DEF Recovered, Unleased, exact_match
  <2>4. ~Alive(c)
    BY <1>1, <2>1 DEF Sound, NotStarted
  <2> QED
    BY <1>1, <2>1, <2>3, <2>4 DEF Sound, NotStarted, Handled, Accounted, Leased
<1>4. CASE Claim(c)
  <2>1. /\ at[c] = "claim" /\ at'[c] \in {"account", "over"}
        /\ UNCHANGED <<proc, leases, phase, watching, stopping, held, refreshing, session, loose>>
    BY <1>1, <1>4 DEF Claim, Go
  <2> QED
    BY <1>1, <2>1 DEF Sound, NotStarted, Handled, Accounted, Leased
<1>5. CASE FailEarly(c) \/ Discard(c)
  <2>1. /\ at[c] \in {"account", "launch", "handshake"} /\ at'[c] = "over" /\ ~Alive(c)'
        /\ held'[c] \subseteq held[c]
        /\ UNCHANGED <<leases, phase, watching, stopping, refreshing, session, loose>>
    BY <1>1, <1>5 DEF FailEarly, Discard, Return, Go, Ended, Sound, NotStarted
  <2> QED
    BY <1>1, <2>1 DEF Sound, NotStarted, Handled, Accounted, Leased
<1>6. CASE Acquire(c)
  <2>1. /\ at[c] = "account" /\ at'[c] = "launch" /\ held'[c] = held[c] \cup {"account"}
        /\ UNCHANGED <<proc, leases, phase, watching, stopping, refreshing, loose>>
    BY <1>1, <1>6 DEF Acquire, Go, Hold
  <2>2. session'[c] = session[c] \/ (~resumes[c] /\ session'[c] \in Session)
    BY <1>1, <1>6 DEF Acquire
  <2>3. ~resumes[c] => session[c] = None /\ leases[c] = None
    BY <1>1, <2>1 DEF Stages, Sound, Leased
  <2> QED
    BY <1>1, <2>1, <2>2, <2>3, NoneAssumption DEF Sound, NotStarted, Handled, Accounted, Leased
<1>7. CASE Launch(c)
  <2>1. /\ at[c] = "launch" /\ at'[c] = "handshake"
        /\ UNCHANGED <<leases, phase, watching, stopping, held, refreshing, session, loose>>
    BY <1>1, <1>7 DEF Launch, Go
  <2> QED
    BY <1>1, <2>1 DEF Sound, NotStarted, Handled, Accounted, Leased
<1>8. CASE Record(c)
  <2>1. /\ at[c] = "handshake" /\ at'[c] = "insert" /\ held'[c] = held[c] \cup {"child", "identity"}
        /\ watching'[c] = "on" /\ leases'[c] = session'[c] /\ session'[c] # None
        /\ UNCHANGED <<proc, phase, stopping, refreshing, loose>>
    BY <1>1, <1>8, NoneAssumption DEF Record, Go, Hold, Watch
  <2> QED
    BY <1>1, <2>1 DEF Sound, NotStarted, Handled, Accounted, Leased
<1>9. CASE RecordFails(c)
  <2>1. /\ at[c] = "handshake" /\ at'[c] = "undo" /\ stopping'[c] = "kill"
        /\ held'[c] = held[c] \cup {"child"}
        /\ UNCHANGED <<proc, leases, phase, watching, refreshing, session, loose>>
    BY <1>1, <1>9 DEF RecordFails, Go, Hold, Step
  <2> QED
    BY <1>1, <2>1 DEF Sound, NotStarted, Handled, Accounted, Leased
<1>10. CASE Cancelled(c)
  <2>1. /\ at[c] = "insert" /\ at'[c] = "undo" /\ stopping'[c] = "kill"
        /\ UNCHANGED <<proc, leases, phase, watching, held, refreshing, session, loose>>
    BY <1>1, <1>10 DEF Cancelled, Go, Step
  <2> QED
    BY <1>1, <2>1 DEF Sound, NotStarted, Handled, Accounted, Leased
<1>11. CASE Insert(c) \/ Register(c)
  <2>1. /\ at[c] \in {"insert", "register"} /\ at'[c] \in {"register", "run"}
        /\ UNCHANGED <<proc, leases, phase, watching, stopping, held, refreshing, session>>
        /\ loose[c] \subseteq loose'[c]
    BY <1>1, <1>11 DEF Insert, Register, Go, Note
  <2> QED
    BY <1>1, <2>1 DEF Sound, NotStarted, Handled, Accounted, Leased
<1>12. CASE Undone(c)
  <2>1. /\ at[c] = "undo" /\ at'[c] = "over" /\ stopping[c] = "no" /\ held'[c] \in {held[c], {}}
        /\ UNCHANGED <<proc, leases, phase, watching, stopping, refreshing, session>>
        /\ loose[c] \subseteq loose'[c]
        /\ Alive(c) /\ leases[c] = None => "unrecorded" \in loose'[c]
    BY <1>1, <1>12 DEF Undone, Return, Go, Note
  <2> QED
    BY <1>1, <2>1 DEF Sound, NotStarted, Handled, Accounted, Leased
<1> QED
  BY <1>2, <1>3, <1>4, <1>5, <1>6, <1>7, <1>8, <1>9, <1>10, <1>11, <1>12 DEF Start

\* A step of the end of c touches no other conversation.
LEMMA EndLeavesAlone ==
  ASSUME TypeOK, NEW c \in Chat, End(c)
  PROVE  \A d \in Chat \ {c} : Alone(d)
<1> USE DEF Alone, runtime, threads, TypeOK
<1>1. CASE Stop(c) \/ KillFails(c)
  BY <1>1 DEF Stop, KillFails, Step
<1>2. CASE Kill(c)
  BY <1>2 DEF Kill, Drop, Step, Ended
<1>3. CASE Clear(c)
  BY <1>3 DEF Clear, Step, Drop, Unleased
<1>4. CASE Settle(c) \/ Release(c)
  BY <1>4 DEF Settle, Release, Step, Drop
<1>5. CASE GiveUp(c)
  BY <1>5 DEF GiveUp, Step, Note
<1>6. CASE Poll(c)
  BY <1>6 DEF Poll, Watch, Drop, Unleased
<1>7. CASE MonitorReleases(c)
  BY <1>7 DEF MonitorReleases, Watch, Drop
<1>8. CASE settle_persistent_exit(c)
  BY <1>8 DEF settle_persistent_exit, Watch
<1>9. CASE RefreshReads(c) \/ RefreshWrites(c)
  BY <1>9 DEF RefreshReads, RefreshWrites
<1> QED
  BY <1>1, <1>2, <1>3, <1>4, <1>5, <1>6, <1>7, <1>8, <1>9 DEF End

\* A stop finds the conversation in the registry.
LEMMA StoppedIsSound ==
  ASSUME IInv, AllSound, NEW c \in Chat, c \in chats, Step(c, "kill"),
         UNCHANGED <<leases, proc, at, session, phase, held, watching, refreshing, loose>>
  PROVE  Sound(c)'
<1>1. Sound(c) /\ at[c] \in {"register", "run"} /\ stopping'[c] = "kill"
  BY DEF AllSound, IInv, Stages, Step, TypeOK
<1> QED
  BY <1>1 DEF Sound, NotStarted, Handled, Accounted, Leased, Alive

\* A step of the end of c leaves c sound.
LEMMA EndStaysSound ==
  ASSUME IInv, AllSound, NEW c \in Chat, End(c)
  PROVE  Sound(c)'
<1> USE DEF runtime, threads, TypeOK, Alive
<1>1. Sound(c) /\ TypeOK /\ Stages
  BY DEF AllSound, IInv
<1>2. CASE Stop(c)
  BY <1>2, StoppedIsSound DEF Stop
<1>3. CASE Kill(c)
  <2>1. /\ stopping[c] = "kill" /\ stopping'[c] = "clear" /\ held'[c] = held[c] \ {"child"}
        /\ IF "child" \in held[c] /\ Alive(c) THEN proc'[c] = "gone" ELSE proc'[c] = proc[c]
        /\ UNCHANGED <<leases, at, phase, watching, refreshing, session, loose>>
    BY <1>1, <1>3 DEF Kill, Step, Drop, Ended
  <2>2. ~Alive(c)'
    BY <1>1, <2>1 DEF Sound, Handled
  <2> QED
    BY <1>1, <2>1, <2>2 DEF Sound, NotStarted, Handled, Accounted, Leased
<1>4. CASE KillFails(c)
  <2>1. /\ stopping[c] = "kill" /\ stopping'[c] = "fail"
        /\ UNCHANGED <<leases, proc, at, phase, watching, held, refreshing, session, loose>>
    BY <1>1, <1>4 DEF KillFails, Step
  <2> QED
    BY <1>1, <2>1 DEF Sound, NotStarted, Handled, Accounted, Leased
<1>5. CASE Clear(c)
  <2>1. /\ stopping[c] = "clear" /\ stopping'[c] = "settle" /\ held'[c] = held[c] \ {"identity"}
        /\ leases'[c] = None
        /\ UNCHANGED <<proc, at, phase, watching, refreshing, session, loose>>
    BY <1>1, <1>5 DEF Clear, Step, Drop, Unleased
  <2> QED
    BY <1>1, <2>1 DEF Sound, NotStarted, Handled, Accounted, Leased
<1>6. CASE Settle(c)
  <2>1. /\ stopping[c] = "settle" /\ stopping'[c] = "release" /\ at[c] \in {"undo", "register", "run"}
        /\ UNCHANGED <<leases, proc, at, watching, held, refreshing, session, loose>>
    BY <1>1, <1>6 DEF Settle, Step, Sound, Handled
  <2> QED
    BY <1>1, <2>1 DEF Sound, NotStarted, Handled, Accounted, Leased, Asking
<1>7. CASE Release(c)
  <2>1. /\ stopping[c] = "release" /\ stopping'[c] = "no" /\ held'[c] = held[c] \ {"account"}
        /\ UNCHANGED <<leases, proc, at, phase, watching, refreshing, session, loose>>
    BY <1>1, <1>7 DEF Release, Step, Drop
  <2> QED
    BY <1>1, <2>1 DEF Sound, NotStarted, Handled, Accounted, Leased
<1>8. CASE GiveUp(c)
  <2>1. /\ stopping[c] = "fail" /\ stopping'[c] = "no" /\ at[c] \in {"undo", "register", "run"}
        /\ loose[c] \subseteq loose'[c] /\ (Alive(c) => "survivor" \in loose'[c])
        /\ UNCHANGED <<leases, proc, at, watching, held, refreshing, session>>
    BY <1>1, <1>8 DEF GiveUp, Step, Note, Sound, Handled
  <2> QED
    BY <1>1, <2>1 DEF Sound, NotStarted, Handled, Accounted, Leased, Asking
<1>9. CASE Poll(c)
  <2>1. /\ watching[c] = "on"
        /\ UNCHANGED <<proc, at, phase, stopping, refreshing, session, loose>>
        /\ \/ /\ ~Alive(c) /\ watching'[c] = "account" /\ leases'[c] = None
              /\ held'[c] = held[c] \ {"child", "identity"}
           \/ watching'[c] = "off" /\ UNCHANGED <<held, leases>>
    BY <1>1, <1>9 DEF Poll, Watch, Drop, Unleased
  <2> QED
    BY <1>1, <2>1 DEF Sound, NotStarted, Handled, Accounted, Leased
<1>10. CASE MonitorReleases(c)
  <2>1. /\ watching[c] = "account" /\ watching'[c] = "settle" /\ held'[c] = held[c] \ {"account"}
        /\ UNCHANGED <<leases, proc, at, phase, stopping, refreshing, session, loose>>
    BY <1>1, <1>10 DEF MonitorReleases, Watch, Drop
  <2>2. at[c] \notin {"launch", "handshake"}
    BY <1>1, <2>1 DEF Sound, NotStarted
  <2> QED
    BY <1>1, <2>1, <2>2 DEF Sound, NotStarted, Handled, Accounted, Leased
<1>11. CASE settle_persistent_exit(c)
  <2>1. /\ watching[c] = "settle" /\ watching'[c] = "off"
        /\ UNCHANGED <<leases, proc, at, stopping, held, refreshing, session, loose>>
    BY <1>1, <1>11 DEF settle_persistent_exit, Watch
  <2> QED
    BY <1>1, <2>1 DEF Sound, NotStarted, Handled, Accounted, Leased
<1>12. CASE RefreshReads(c)
  <2>1. /\ "identity" \in held[c] /\ UNCHANGED <<leases, proc, at, phase, watching, stopping, held, session, loose>>
    BY <1>12 DEF RefreshReads
  <2> QED
    BY <1>1, <2>1 DEF Sound, NotStarted, Handled, Accounted, Leased
<1>13. CASE RefreshWrites(c)
  <2>1. /\ refreshing[c] /\ leases'[c] = session[c]
        /\ UNCHANGED <<proc, at, phase, watching, stopping, held, session, loose>>
    BY <1>1, <1>13 DEF RefreshWrites
  <2>2. session[c] # None
    BY <1>1, <2>1 DEF Sound, Leased
  <2> QED
    BY <1>1, <2>1, <2>2 DEF Sound, NotStarted, Handled, Accounted, Leased
<1> QED
  BY <1>2, <1>3, <1>4, <1>5, <1>6, <1>7, <1>8, <1>9, <1>10, <1>11, <1>12, <1>13 DEF End

\* A shutdown stops conversations of the registry.
LEMMA ShutdownStaysSound ==
  ASSUME PInv, Shutdown
  PROVE  AllSound'
<1> USE DEF runtime, threads
<1>1. ASSUME NEW c \in Chat, StopNext(c)
      PROVE  AllSound'
  <2>1. Sound(c)'
    BY <1>1, StoppedIsSound DEF StopNext, PInv, Backend
  <2>2. \A d \in Chat \ {c} : Alone(d)
    BY <1>1 DEF StopNext, Step, Alone, PInv, IInv, TypeOK
  <2> QED
    BY <2>1, <2>2, AloneStaysSound DEF PInv, AllSound
<1>2. CASE BeginShutdown \/ Snapshot \/ Count
  <2>1. \A d \in Chat : Alone(d)
    BY <1>2 DEF BeginShutdown, Snapshot, Count, Alone
  <2> QED
    BY <2>1, AloneStaysSound DEF PInv, AllSound
<1> QED
  BY <1>1, <1>2 DEF Shutdown

\* When the backend ends, what was not on disk yet is known to be lost.
LEMMA CrashStaysSound ==
  ASSUME PInv, Crash, NEW c \in Chat
  PROVE  Sound(c)'
<1>1. /\ UNCHANGED <<leases, proc, session, phase>>
      /\ at'[c] = (IF at[c] = "idle" THEN "idle" ELSE "over")
      /\ stopping'[c] = "no" /\ watching'[c] = "off" /\ held'[c] = {} /\ ~refreshing'[c]
      /\ loose[c] \subseteq loose'[c]
      /\ Alive(c) /\ leases[c] = None /\ at[c] \in {"handshake", "undo"} => "unrecorded" \in loose'[c]
  BY DEF Crash, runtime
<1>2. Sound(c)
  BY DEF PInv, AllSound
<1> QED
  BY <1>1, <1>2 DEF Sound, NotStarted, Handled, Accounted, Leased, Alive, Asking

\* The world ends processes, recovers orphans and gives pids to strangers.
LEMMA WorldStaysSound ==
  ASSUME PInv, World
  PROVE  AllSound'
<1> USE DEF runtime, threads
<1>1. CASE Crash
  BY <1>1, CrashStaysSound DEF AllSound
<1>2. CASE ~Crash
  <2>1. UNCHANGED <<at, phase, watching, stopping, held, refreshing, session, loose>>
    BY <1>2 DEF World, Restart, Ready, Recover, Exit, Reuse
  <2>2. ASSUME NEW c \in Chat, Recovered(c), NEW d \in Chat
        PROVE  /\ proc'[d] = proc[d] \/ ~Alive(d)'
               /\ leases'[d] = leases[d] \/ (leases'[d] = None /\ ~Alive(d)')
    BY <2>2 DEF Recovered, Unleased, exact_match, Alive, PInv, IInv, TypeOK
  <2>3. ASSUME NEW c \in Chat, Exit(c) \/ Reuse(c), NEW d \in Chat
        PROVE  UNCHANGED leases /\ (proc'[d] = proc[d] \/ ~Alive(d)')
    BY <2>3 DEF Exit, Reuse, Ended, Alive, PInv, IInv, TypeOK
  <2>4. \/ UNCHANGED <<proc, leases>>
        \/ \E c \in Chat : Recovered(c) \/ Exit(c) \/ Reuse(c)
    BY <1>2, Zenon DEF World, Restart, Ready, Recover, Stuck
  <2>5. \A d \in Chat : /\ proc'[d] = proc[d] \/ ~Alive(d)'
                        /\ leases'[d] = leases[d] \/ (leases'[d] = None /\ ~Alive(d)')
    BY <2>2, <2>3, <2>4
  <2>6. \A d \in Chat : Alone(d)
    BY <2>1, <2>5 DEF Alone
  <2> QED
    BY <2>6, AloneStaysSound DEF PInv, AllSound
<1> QED
  BY <1>1, <1>2

LEMMA StepStaysSound ==
  ASSUME PInv, TypeOK', [Next]_vars
  PROVE  AllSound'
<1>1. ASSUME NEW c \in Chat, Start(c) \/ End(c) PROVE AllSound'
  <2>1. Sound(c)'
    BY <1>1, StartStaysSound, EndStaysSound DEF PInv
  <2>2. \A d \in Chat \ {c} : Alone(d)
    BY <1>1, StartLeavesAlone, EndLeavesAlone DEF PInv, IInv
  <2> QED
    BY <2>1, <2>2, AloneStaysSound DEF PInv, AllSound
<1>2. CASE UNCHANGED vars
  <2>1. \A d \in Chat : Alone(d)
    BY <1>2 DEF vars, runtime, threads, Alone
  <2> QED
    BY <2>1, AloneStaysSound DEF PInv, AllSound
<1> QED
  BY <1>1, <1>2, ShutdownStaysSound, WorldStaysSound DEF Next

-----------------------------------------------------------------------------
(* What steps do to all.                                                   *)

\* Only its start, or the end of the backend, moves a conversation to another stage.
LEMMA OnlyItsStart ==
  ASSUME TypeOK, [Next]_vars, NEW d \in Chat, at'[d] # at[d]
  PROVE  Crash \/ Start(d)
<1>1. ASSUME NEW c \in Chat, Start(c), c # d PROVE FALSE
  BY <1>1, StartLeavesAlone DEF Alone
<1>2. ASSUME NEW c \in Chat, End(c) PROVE FALSE
  BY <1>2 DEF End, Stop, Kill, KillFails, Clear, Settle, Release, GiveUp, Poll, MonitorReleases,
         settle_persistent_exit, RefreshReads, RefreshWrites
<1>3. ~Shutdown
  BY DEF Shutdown, BeginShutdown, Snapshot, Count, StopNext
<1>4. World => Crash
  BY DEF World, Restart, Ready, Recover, Exit, Reuse
<1> QED
  BY <1>1, <1>2, <1>3, <1>4 DEF Next, vars

\* Only its launch makes a process.
LEMMA OnlyItsLaunch ==
  ASSUME TypeOK, [Next]_vars, NEW d \in Chat, Alive(d)', ~Alive(d)
  PROVE  Launch(d)
<1> USE DEF Alive
<1>1. ASSUME NEW c \in Chat, Start(c), c # d PROVE FALSE
  BY <1>1, StartLeavesAlone DEF Alone
<1>2. ASSUME Start(d), ~Launch(d) PROVE FALSE
  <2>1. UNCHANGED proc \/ Recovered(stale[session[d]]) \/ Ended(d)
    BY <1>2, Zenon DEF Start, Begin, RetryStale, Stuck, Claim, FailEarly, Acquire, Discard, Record,
         RecordFails, Cancelled, Insert, Register, Undone
  <2> QED
    BY <2>1 DEF Recovered, exact_match, Ended, TypeOK
<1>3. ASSUME NEW c \in Chat, End(c) PROVE FALSE
  <2>1. UNCHANGED proc \/ Ended(c)
    BY <1>3, Zenon DEF End, Stop, Kill, KillFails, Clear, Settle, Release, GiveUp, Poll, MonitorReleases,
         settle_persistent_exit, RefreshReads, RefreshWrites
  <2> QED
    BY <2>1 DEF Ended, TypeOK
<1>4. ~Shutdown
  BY DEF Shutdown, BeginShutdown, Snapshot, Count, StopNext
<1>5. ~World
  <2>1. World => UNCHANGED proc \/ \E c \in Chat : Recovered(c) \/ Ended(c) \/ Reuse(c)
    BY Zenon DEF World, Crash, Restart, Ready, Recover, Stuck, Exit
  <2> QED
    BY <2>1 DEF Recovered, exact_match, Ended, Reuse, TypeOK
<1> QED
  BY <1>1, <1>2, <1>3, <1>4, <1>5 DEF Next, vars

\* A conversation gets its session once: one that is known when it begins, a fresh one later.
LEMMA SessionsStay ==
  ASSUME IInv, [Next]_vars, NEW d \in Chat, session'[d] # session[d]
  PROVE  /\ session[d] = None
         /\ \/ at[d] = "idle" /\ at'[d] = "stale"
            \/ at[d] \in {"account", "handshake"} /\ at'[d] \in {"launch", "insert"} /\ Fresh(session'[d])
<1>1. ASSUME NEW c \in Chat, Start(c), c # d PROVE FALSE
  BY <1>1, StartLeavesAlone DEF Alone, IInv
<1>2. ASSUME Start(d)
      PROVE  /\ session[d] = None
             /\ \/ at[d] = "idle" /\ at'[d] = "stale"
                \/ at[d] \in {"account", "handshake"} /\ at'[d] \in {"launch", "insert"} /\ Fresh(session'[d])
  <2>1. Begin(d) \/ Acquire(d) \/ Record(d)
    BY <1>2 DEF Start, RetryStale, Claim, FailEarly, Launch, Discard, RecordFails, Cancelled,
         Insert, Register, Undone, runtime
  <2>2. CASE Begin(d)
    BY <2>2 DEF Begin, Go, IInv, TypeOK, Stages
  <2>3. CASE Acquire(d)
    BY <2>3 DEF Acquire, Go, IInv, TypeOK, Stages
  <2>4. CASE Record(d)
    BY <2>4 DEF Record, Go, IInv, TypeOK
  <2> QED
    BY <2>1, <2>2, <2>3, <2>4
<1>3. ASSUME NEW c \in Chat, End(c) PROVE FALSE
  BY <1>3 DEF End, Stop, Kill, KillFails, Clear, Settle, Release, GiveUp, Poll, MonitorReleases,
         settle_persistent_exit, RefreshReads, RefreshWrites, runtime
<1>4. ~Shutdown
  BY DEF Shutdown, BeginShutdown, Snapshot, Count, StopNext, runtime
<1>5. ~World
  BY DEF World, Crash, Restart, Ready, Recover, Exit, Reuse, runtime
<1> QED
  BY <1>1, <1>2, <1>3, <1>4, <1>5 DEF Next, vars, runtime

\* What went wrong with a conversation stays known.
LEMMA LooseGrows ==
  ASSUME TypeOK, [Next]_vars, NEW d \in Chat
  PROVE  loose[d] \subseteq loose'[d]
<1>1. ASSUME NEW c \in Chat, Start(c) \/ End(c)
      PROVE  UNCHANGED loose \/ \E what : Note(c, what)
  BY <1>1, Zenon DEF Start, Begin, RetryStale, Claim, FailEarly, Acquire, Launch, Discard, Record,
       RecordFails, Cancelled, Insert, Register, Undone, End, Stop, Kill, KillFails, Clear, Settle,
       Release, GiveUp, Poll, MonitorReleases, settle_persistent_exit, RefreshReads, RefreshWrites
<1>2. Shutdown => UNCHANGED loose
  BY DEF Shutdown, BeginShutdown, Snapshot, Count, StopNext
<1>3. World => UNCHANGED loose \/ Crash
  BY DEF World, Restart, Ready, Recover, Exit, Reuse
<1>4. Crash => loose[d] \subseteq loose'[d]
  BY DEF Crash
<1> QED
  BY <1>1, <1>2, <1>3, <1>4 DEF Next, vars, Note, TypeOK

LEMMA LetGoStays ==
  ASSUME IInv, [Next]_vars, NEW s \in Session, LetGo(s)
  PROVE  LetGo(s)'
<1>1. PICK x \in Chat : session[x] = s /\ loose[x] # {}
  BY DEF LetGo
<1>2. session'[x] = s
  BY <1>1, SessionsStay, NoneAssumption
<1>3. loose'[x] # {}
  BY <1>1, LooseGrows DEF IInv
<1> QED
  BY <1>2, <1>3 DEF LetGo

LEMMA BackendMoves ==
  ASSUME [Next]_vars
  PROVE  UNCHANGED backend \/ Crash \/ Restart \/ Ready \/ \E c \in Chat : Recover(c)
<1>1. ASSUME NEW c \in Chat, Start(c) \/ End(c) PROVE UNCHANGED backend
  BY <1>1, Zenon DEF Start, Begin, RetryStale, Claim, FailEarly, Acquire, Launch, Discard, Record,
       RecordFails, Cancelled, Insert, Register, Undone, End, Stop, Kill, KillFails, Clear, Settle,
       Release, GiveUp, Poll, MonitorReleases, settle_persistent_exit, RefreshReads, RefreshWrites
<1>2. Shutdown => UNCHANGED backend
  BY DEF Shutdown, BeginShutdown, Snapshot, Count, StopNext
<1>3. ASSUME NEW c \in Chat, Exit(c) \/ Reuse(c) PROVE UNCHANGED backend
  BY <1>3 DEF Exit, Reuse
<1> QED
  BY <1>1, <1>2, <1>3 DEF Next, World, vars

LEMMA ClosingMoves ==
  ASSUME [Next]_vars
  PROVE  UNCHANGED closing \/ Crash \/ Shutdown
<1>1. ASSUME NEW c \in Chat, Start(c) \/ End(c) PROVE UNCHANGED closing
  BY <1>1, Zenon DEF Start, Begin, RetryStale, Claim, FailEarly, Acquire, Launch, Discard, Record,
       RecordFails, Cancelled, Insert, Register, Undone, End, Stop, Kill, KillFails, Clear, Settle,
       Release, GiveUp, Poll, MonitorReleases, settle_persistent_exit, RefreshReads, RefreshWrites
<1>2. World => UNCHANGED closing \/ Crash
  BY DEF World, Restart, Ready, Recover, Exit, Reuse
<1> QED
  BY <1>1, <1>2 DEF Next, vars

\* A conversation leaves the registry only with the backend.
LEMMA ChatsGrow ==
  ASSUME [Next]_vars, ~Crash
  PROVE  chats \subseteq chats'
<1>1. ASSUME NEW c \in Chat, Start(c) \/ End(c) PROVE UNCHANGED chats \/ Insert(c)
  BY <1>1, Zenon DEF Start, Begin, RetryStale, Claim, FailEarly, Acquire, Launch, Discard, Record,
       RecordFails, Cancelled, Register, Undone, End, Stop, Kill, KillFails, Clear, Settle,
       Release, GiveUp, Poll, MonitorReleases, settle_persistent_exit, RefreshReads, RefreshWrites,
       supervisor
<1>2. Shutdown => UNCHANGED chats
  BY DEF Shutdown, BeginShutdown, Snapshot, Count, StopNext, supervisor
<1>3. World => UNCHANGED chats
  BY DEF World, Restart, Ready, Recover, Exit, Reuse, supervisor
<1> QED
  BY <1>1, <1>2, <1>3 DEF Next, vars, supervisor, Insert

\* The registry of sessions that are blocked changes with a retry, or a recovery.
LEMMA StaleMoves ==
  ASSUME [Next]_vars, ~Crash
  PROVE  UNCHANGED stale \/ \E e \in Chat : RetryStale(e) \/ Recover(e)
<1>1. ASSUME NEW c \in Chat, Start(c) \/ End(c) PROVE UNCHANGED stale \/ RetryStale(c)
  BY <1>1, Zenon DEF Start, Begin, Claim, FailEarly, Acquire, Launch, Discard, Record,
       RecordFails, Cancelled, Insert, Register, Undone, End, Stop, Kill, KillFails, Clear, Settle,
       Release, GiveUp, Poll, MonitorReleases, settle_persistent_exit, RefreshReads, RefreshWrites,
       supervisor
<1>2. Shutdown => UNCHANGED stale
  BY DEF Shutdown, BeginShutdown, Snapshot, Count, StopNext, supervisor
<1>3. World => UNCHANGED stale \/ \E e \in Chat : Recover(e)
  BY DEF World, Restart, Ready, Exit, Reuse, supervisor
<1> QED
  BY <1>1, <1>2, <1>3 DEF Next, vars, supervisor

\* Only a start that has its process takes the process as its own.
LEMMA ChildIsTaken ==
  ASSUME TypeOK, [Next]_vars, NEW d \in Chat, "child" \in held'[d], "child" \notin held[d]
  PROVE  at[d] = "handshake"
<1> USE DEF TypeOK
<1>1. ASSUME NEW c \in Chat, Start(c), c # d PROVE FALSE
  BY <1>1, StartLeavesAlone DEF Alone
<1>2. ASSUME Start(d) PROVE at[d] = "handshake"
  BY <1>2 DEF Start, Begin, RetryStale, Claim, FailEarly, Acquire, Launch, Discard, Record,
       RecordFails, Cancelled, Insert, Register, Undone, Return, Hold
<1>3. ASSUME NEW c \in Chat, End(c) PROVE FALSE
  <2>1. UNCHANGED held \/ \E handles : Drop(c, handles)
    BY <1>3, Zenon DEF End, Stop, Kill, KillFails, Clear, Settle, Release, GiveUp, Poll, MonitorReleases,
         settle_persistent_exit, RefreshReads, RefreshWrites
  <2> QED
    BY <2>1 DEF Drop
<1>4. ~Shutdown
  BY DEF Shutdown, BeginShutdown, Snapshot, Count, StopNext
<1>5. ~World
  BY DEF World, Crash, Restart, Ready, Recover, Exit, Reuse
<1> QED
  BY <1>1, <1>2, <1>3, <1>4, <1>5 DEF Next, vars

-----------------------------------------------------------------------------
(* The four global parts of the invariant.                                 *)

LEMMA BackendStays ==
  ASSUME PInv, [Next]_vars
  PROVE  Backend'
<1>1. TypeOK /\ Backend
  BY DEF PInv, IInv
<1>2. ASSUME up' # "up", NEW c \in Chat PROVE at'[c] \in {"idle", "over"}
  <2>1. CASE Crash
    BY <2>1 DEF Crash
  <2>2. CASE ~Crash
    <3>1. up # "up"
      BY <1>2, <2>2, BackendMoves DEF backend, Restart, Ready, Recover
    <3>2. at[c] \in {"idle", "over"}
      BY <1>1, <3>1 DEF Backend
    <3>3. ~Start(c)
      BY <3>1, <3>2 DEF Start, Begin, RetryStale, Claim, FailEarly, Acquire, Launch, Discard, Record,
           RecordFails, Cancelled, Insert, Register, Undone
    <3> QED
      BY <1>1, <2>2, <3>2, <3>3, OnlyItsStart
  <2> QED
    BY <2>1, <2>2
<1>3. up' = "up" => pending' = {}
  <2>1. CASE UNCHANGED backend
    BY <1>1, <2>1 DEF backend, Backend
  <2>2. CASE Crash \/ Restart \/ Ready
    BY <2>2 DEF Crash, Restart, Ready
  <2>3. ASSUME NEW c \in Chat, Recover(c) PROVE up' # "up"
    BY <1>1, <2>3 DEF Recover, Backend
  <2> QED
    BY <2>1, <2>2, <2>3, BackendMoves
<1>4. (closing.todo)' \subseteq chats'
  <2>1. CASE Crash
    BY <2>1 DEF Crash, Open
  <2>2. CASE ~Crash
    <3>1. (closing.todo)' \subseteq chats
      <4>1. UNCHANGED closing => (closing.todo)' = closing.todo
        OBVIOUS
      <4>2. ASSUME Shutdown PROVE (closing.todo)' \subseteq closing.todo \cup chats
        <5>1. CASE BeginShutdown
          BY <1>1, <5>1 DEF BeginShutdown, TypeOK, Closing
        <5>2. CASE Snapshot
          BY <1>1, <5>2 DEF Snapshot, TypeOK, Closing
        <5>3. CASE Count
          BY <1>1, <5>3 DEF Count, TypeOK, Closing
        <5>4. ASSUME NEW c \in Chat, StopNext(c) PROVE (closing.todo)' \subseteq closing.todo
          BY <1>1, <5>4 DEF StopNext, TypeOK, Closing
        <5> QED
          BY <4>2, <5>1, <5>2, <5>3, <5>4 DEF Shutdown
      <4> QED
        BY <1>1, <2>2, <4>1, <4>2, ClosingMoves DEF Backend
    <3> QED
      BY <2>2, <3>1, ChatsGrow
  <2> QED
    BY <2>1, <2>2
<1> QED
  BY <1>2, <1>3, <1>4 DEF Backend

\* A retry meets an orphan of its session: it ends it, or is refused.
LEMMA RetryMeetsOrphan ==
  ASSUME PInv, NEW d \in Chat, Orphan(d), Alive(d)', leases[d] # None,
         NEW e \in Chat, RetryStale(e), session[e] = session[d]
  PROVE  at'[e] = "over" /\ UNCHANGED stale
<1>1. up = "up" /\ pending = {} /\ TypeOK
  BY DEF RetryStale, PInv, IInv, Backend
<1>2. stale[session[e]] = d /\ d # None
  BY <1>1, NoneAssumption DEF PInv, Orphans
<1>3. ~Recovered(d)
  BY <1>1 DEF Recovered, exact_match, Orphan, Alive, TypeOK
<1>4. Go(e, "over") /\ UNCHANGED stale
  BY <1>2, <1>3, Zenon DEF RetryStale
<1> QED
  BY <1>1, <1>4 DEF Go, TypeOK

\* An orphan stays one: it is blocked, and nobody gets past the block.
LEMMA OldOrphan ==
  ASSUME PInv, [Next]_vars, NEW d \in Chat, Orphan(d), Orphan(d)', session'[d] = session[d],
         leases[d] # None, leases'[d] = session[d]
  PROVE  /\ up' = "down" \/ d \in pending' \/ stale'[session[d]] = d
         /\ \A e \in Chat \ {d} : session'[e] = session[d] => at'[e] \in {"stale", "over"}
<1>1. /\ TypeOK /\ leases[d] = session[d] /\ session[d] \in Session /\ session[d] # None
      /\ Alive(d) /\ Alive(d)' /\ ~LetGo(session[d])
  BY DEF PInv, IInv, AllSound, Sound, Leased, Orphan, TypeOK
<1>2. /\ up = "down" \/ d \in pending \/ stale[session[d]] = d
      /\ \A e \in Chat \ {d} : session[e] = session[d] => at[e] \in {"stale", "over"}
  BY DEF PInv, Orphans
<1>3. ~Recovered(d)
  BY <1>1 DEF Recovered, exact_match, Alive, TypeOK
<1>4. ASSUME NEW e \in Chat \ {d}, session'[e] = session[d]
      PROVE  at'[e] \in {"stale", "over"}
  <2>1. CASE session'[e] # session[e]
    BY <1>4, <2>1, SessionsStay DEF PInv, Fresh
  <2>2. CASE session'[e] = session[e]
    <3>1. at[e] \in {"stale", "over"}
      BY <1>2, <1>4, <2>2
    <3>2. CASE Crash
      BY <3>1, <3>2 DEF Crash
    <3>3. CASE Start(e)
      <4>1. RetryStale(e)
        BY <3>1, <3>3 DEF Start, Begin, Claim, FailEarly, Acquire, Launch, Discard, Record,
             RecordFails, Cancelled, Insert, Register, Undone
      <4> QED
        BY <1>1, <1>4, <2>2, <4>1, RetryMeetsOrphan
    <3> QED
      BY <1>1, <3>1, <3>2, <3>3, OnlyItsStart
  <2> QED
    BY <2>1, <2>2
<1>5. up' = "down" \/ d \in pending' \/ stale'[session[d]] = d
  <2>1. CASE Crash
    BY <2>1 DEF Crash
  <2>2. CASE Restart
    BY <2>2 DEF Restart
  <2>3. ASSUME NEW e \in Chat, Recover(e) PROVE up' = "down" \/ d \in pending' \/ stale'[session[d]] = d
    <3>1. CASE UNCHANGED stale /\ e # d
      BY <1>2, <2>3, <3>1 DEF Recover
    <3>2. CASE Stuck(e) /\ stale' = [stale EXCEPT ![leases[e]] = e]
      <4>1. e = d \/ leases[e] # session[d]
        <5> SUFFICES ASSUME e # d, leases[e] = session[d] PROVE FALSE
          OBVIOUS
        <5>1. session[e] = session[d]
          BY <1>1 DEF PInv, AllSound, Sound, Leased
        <5> QED
          BY <1>1, <3>2, <5>1 DEF PInv, OneWriter, Stuck
      <4> QED
        BY <1>1, <1>2, <2>3, <3>2, <4>1 DEF Recover, TypeOK
    <3>3. (Recovered(e) /\ UNCHANGED stale) \/ (Stuck(e) /\ stale' = [stale EXCEPT ![leases[e]] = e])
      BY <2>3, Zenon DEF Recover
    <3> QED
      BY <1>3, <3>1, <3>2, <3>3
  <2>4. CASE (UNCHANGED backend \/ Ready) /\ ~Crash
    <3>1. up' = "down" \/ d \in pending' \/ stale[session[d]] = d
      BY <1>2, <2>4 DEF backend, Ready
    <3>2. ASSUME NEW e \in Chat, RetryStale(e) PROVE stale'[session[d]] = stale[session[d]]
      <4>1. CASE session[e] = session[d]
        BY <1>1, <3>2, <4>1, RetryMeetsOrphan
      <4>2. CASE session[e] # session[d]
        <5>1. UNCHANGED stale \/ stale' = [stale EXCEPT ![session[e]] = None]
          BY <3>2, Zenon DEF RetryStale
        <5> QED
          BY <1>1, <4>2, <5>1 DEF TypeOK
      <4> QED
        BY <4>1, <4>2
    <3> QED
      BY <2>3, <2>4, <3>1, <3>2, StaleMoves
  <2> QED
    BY <2>1, <2>2, <2>3, <2>4, BackendMoves
<1> QED
  BY <1>4, <1>5

\* Only a backend that ends makes an orphan of a process that was not let go.
LEMMA NewOrphan ==
  ASSUME PInv, [Next]_vars, NEW d \in Chat, Alive(d), ~LetGo(session[d]), at[d] # "over",
         Alive(d)', at'[d] = "over"
  PROVE  Crash
<1>1. TypeOK /\ NotStarted(d) /\ Handled(d)
  BY DEF PInv, IInv, AllSound, Sound
<1> SUFFICES ASSUME Start(d) PROVE FALSE
  BY <1>1, OnlyItsStart
<1>2. RetryStale(d) \/ Claim(d) \/ FailEarly(d) \/ Discard(d) \/ Undone(d)
  BY <1>1 DEF Start, Begin, Acquire, Launch, Record, RecordFails, Cancelled, Insert, Register, Go, TypeOK
<1>3. ~(RetryStale(d) \/ Claim(d) \/ FailEarly(d))
  BY <1>1 DEF RetryStale, Claim, FailEarly, NotStarted, Asking
<1>4. ~Discard(d)
  BY <1>1 DEF Discard, Ended, Alive, TypeOK
<1>5. ~Undone(d)
  BY <1>1 DEF Undone, Handled, LetGo
<1> QED
  BY <1>2, <1>3, <1>4, <1>5

LEMMA OrphansStay ==
  ASSUME PInv, TypeOK', AllSound', [Next]_vars
  PROVE  Orphans'
<1> SUFFICES ASSUME NEW d \in Chat, Orphan(d)'
             PROVE  /\ leases'[d] # None
                    /\ up' = "down" \/ d \in pending' \/ stale'[session'[d]] = d
                    /\ \A e \in Chat \ {d} : session'[e] = session'[d] => at'[e] \in {"stale", "over"}
  BY DEF Orphans
<1>1. TypeOK /\ IInv /\ Sound(d) /\ Alive(d)' /\ at'[d] = "over"
  BY DEF PInv, IInv, AllSound, Orphan
<1>2. Alive(d)
  BY <1>1, OnlyItsLaunch DEF Launch, Go, TypeOK
<1>3. session'[d] = session[d]
  BY <1>1, SessionsStay
<1>4. loose'[d] = {}
  BY DEF Orphan, LetGo
<1>5. leases'[d] # None /\ leases'[d] = session[d]
  BY <1>1, <1>3, <1>4 DEF AllSound, Sound, Leased
<1>6. session[d] \in Session /\ session[d] # None
  BY <1>1, <1>5 DEF TypeOK
<1>7. ~LetGo(session[d])
  BY <1>1, <1>3, <1>6, LetGoStays DEF Orphan, LetGo
<1>8. CASE at[d] = "over"
  <2>1. Orphan(d) /\ leases[d] # None
    BY <1>2, <1>7, <1>8 DEF Orphan, PInv, Orphans
  <2> QED
    BY <1>3, <1>5, <2>1, OldOrphan
<1>9. CASE at[d] # "over"
  <2>1. Crash
    BY <1>1, <1>2, <1>7, <1>9, NewOrphan
  <2>2. \A e \in Chat : at'[e] \in {"idle", "over"} /\ (at'[e] = "idle" => at[e] = "idle")
    BY <2>1 DEF Crash
  <2>3. up' = "down" /\ UNCHANGED session
    BY <2>1 DEF Crash, runtime
  <2> QED
    BY <1>1, <1>5, <1>6, <2>2, <2>3 DEF IInv, Stages
<1> QED
  BY <1>8, <1>9

\* A process that is started is the first on its session.
LEMMA LaunchIsFirst ==
  ASSUME PInv, NEW c \in Chat, Launch(c), NEW d \in Chat, c # d, Alive(d),
         session[c] = session[d], session[c] # None
  PROVE  LetGo(session[c])
<1>1. TypeOK /\ at[c] = "launch" /\ NotStarted(d) /\ Handled(d) /\ Stages
  BY DEF Launch, PInv, IInv, AllSound, Sound
<1> SUFFICES ASSUME ~LetGo(session[c]) PROVE FALSE
  OBVIOUS
<1>2. at[d] # "over"
  BY <1>1 DEF PInv, Orphans, Orphan
<1>3. at[d] \in {"handshake", "insert", "undo", "register", "run"}
  BY <1>1, <1>2 DEF NotStarted, TypeOK, Stage, Asking, Starting
<1>4. phase[d] = "live"
  BY <1>1 DEF Handled, LetGo
<1>5. Owner(c) /\ Owner(d)
  BY <1>1, <1>3, <1>4 DEF Owner, Starting, Stages
<1>6. Overwritten(session[c])
  BY <1>5 DEF PInv, IInv, OneOwner
<1> QED
  BY <1>6 DEF Overwritten, LetGo

\* Two processes of one session, one of which has just been started.
LEMMA StartedBeside ==
  ASSUME PInv, [Next]_vars, NEW c \in Chat, NEW d \in Chat, c # d, Alive(c)', Alive(d)', ~Alive(c),
         session'[c] # None, session'[c] = session'[d]
  PROVE  LetGo(session'[c])
<1>1. TypeOK /\ Launch(c) /\ UNCHANGED session
  BY OnlyItsLaunch DEF PInv, IInv, Launch, runtime
<1>2. proc'[d] = proc[d]
  BY <1>1 DEF Launch, TypeOK
<1> QED
  BY <1>1, <1>2, LaunchIsFirst DEF Alive

LEMMA OneWriterStays ==
  ASSUME PInv, [Next]_vars, TypeOK'
  PROVE  OneWriter'
<1> SUFFICES ASSUME NEW c \in Chat, NEW d \in Chat, Alive(c)', Alive(d)', c # d,
                    session'[c] # None, session'[c] = session'[d]
             PROVE  LetGo(session[c])'
  BY DEF OneWriter
<1>1. TypeOK /\ IInv /\ \A e \in Chat : Sound(e)
  BY DEF PInv, IInv, AllSound
<1>2. LetGo(session'[c]) => LetGo(session[c])'
  <2> SUFFICES ASSUME LetGo(session'[c]) PROVE LetGo(session[c])'
    OBVIOUS
  <2>1. PICK x \in Chat : session[x] = session'[c] /\ loose[x] # {}
    BY DEF LetGo
  <2>2. session'[x] = session[x]
    BY <1>1, <2>1, SessionsStay
  <2>3. loose'[x] # {}
    BY <1>1, <2>1, LooseGrows
  <2> QED
    BY <2>1, <2>2, <2>3 DEF LetGo
<1>3. CASE ~Alive(c) \/ ~Alive(d)
  BY <1>2, <1>3, StartedBeside
<1>4. CASE Alive(c) /\ Alive(d)
  <2>1. ASSUME NEW x \in Chat, NEW y \in Chat, x # y, Alive(x), session'[x] = session'[y],
               session'[x] # session[x]
        PROVE  FALSE
    <3>1. at'[x] \in {"stale", "launch", "insert"} /\ at'[x] # at[x] /\ at[x] = "handshake"
      BY <1>1, <2>1, SessionsStay DEF Sound, NotStarted
    <3>2. Fresh(session'[x])
      BY <1>1, <2>1, <3>1, SessionsStay
    <3>3. session'[y] # session[y]
      BY <2>1, <3>2 DEF Fresh
    <3>4. Start(x)
      BY <1>1, <3>1, OnlyItsStart DEF Crash
    <3> QED
      BY <1>1, <2>1, <3>3, <3>4, StartLeavesAlone DEF Alone
  <2>2. session'[c] = session[c] /\ session'[d] = session[d]
    BY <1>4, <2>1
  <2>3. LetGo(session[c])
    BY <1>4, <2>2 DEF PInv, OneWriter
  <2> QED
    BY <1>2, <2>2, <2>3
<1> QED
  BY <1>3, <1>4

LEMMA CleanStays ==
  ASSUME PInv, [Next]_vars
  PROVE  Clean'
<1> SUFFICES ASSUME (closing.stage)' = "clean", NEW c \in Chat \ (closing.late)'
             PROVE  /\ at'[c] \notin Asking \cup {"account", "launch", "handshake"}
                    /\ Alive(c)' => "child" \notin held'[c]
  BY DEF Clean
<1>1. TypeOK /\ Sound(c) /\ c \in Chat
  BY DEF PInv, IInv, AllSound
<1>2. ~Crash
  BY DEF Crash, Open
<1>3. CASE Shutdown
  <2>1. Count
    BY <1>1, <1>3 DEF Shutdown, BeginShutdown, Snapshot, StopNext, TypeOK, Closing
  <2>2. /\ UNCHANGED <<at, proc, held>>
        /\ closing' = [closing EXCEPT !.stage = IF /\ \A d \in closing.all : phase[d] = "stopped"
                                                   /\ \A d \in Chat : "account" \notin held[d]
                                                 THEN "clean" ELSE "failed",
                                      !.late = {d \in Chat : at[d] \in Asking \cup {"account"}}]
    BY <2>1, Zenon DEF Count
  <2>3. /\ \A d \in Chat : "account" \notin held[d]
        /\ at[c] \notin Asking \cup {"account"}
    BY <1>1, <2>2 DEF TypeOK, Closing
  <2> QED
    BY <1>1, <2>2, <2>3 DEF Sound, Accounted, Alive
<1>4. CASE UNCHANGED closing
  <2>1. /\ closing.stage = "clean" /\ c \notin closing.late
        /\ at[c] \notin Asking \cup {"account", "launch", "handshake"}
        /\ Alive(c) => "child" \notin held[c]
    BY <1>4 DEF PInv, Clean
  <2>2. at'[c] \notin Asking \cup {"account", "launch", "handshake"}
    <3>1. CASE at'[c] = at[c]
      BY <2>1, <3>1
    <3>2. CASE Start(c)
      <4>1. Cancelled(c) \/ Insert(c) \/ Register(c) \/ Undone(c)
        BY <2>1, <3>2 DEF Start, Begin, RetryStale, Claim, FailEarly, Acquire, Launch, Discard, Record,
             RecordFails, Asking
      <4> QED
        BY <1>1, <4>1 DEF Cancelled, Insert, Register, Undone, Return, Go, Asking, TypeOK
    <3> QED
      BY <1>1, <1>2, <3>1, <3>2, OnlyItsStart
  <2>3. Alive(c)' => Alive(c)
    BY <1>1, <2>1, OnlyItsLaunch DEF Launch
  <2>4. "child" \in held'[c] => "child" \in held[c]
    BY <1>1, <2>1, ChildIsTaken
  <2> QED
    BY <2>1, <2>2, <2>3, <2>4
<1> QED
  BY <1>2, <1>3, <1>4, ClosingMoves

LEMMA StepPInv == PInv /\ [Next]_vars => PInv'
<1> SUFFICES ASSUME PInv, [Next]_vars PROVE PInv'
  OBVIOUS
<1>1. IInv' /\ TypeOK'
  BY StepIInv DEF PInv, IInv
<1>2. AllSound'
  BY <1>1, StepStaysSound
<1> QED
  BY <1>1, <1>2, BackendStays, OrphansStay, OneWriterStays, CleanStays DEF PInv

-----------------------------------------------------------------------------
(* The inductive invariant of this module holds in every reachable state.  *)
THEOREM ProcessInvariant == Spec => []PInv
BY InitPInv, StepPInv, PTL DEF Spec

(* At most one process works on a session: the claims keep starts apart,   *)
(* and retry_stale_runtime_recovery keeps them from the processes that     *)
(* outlived their backend.                                                 *)
THEOREM SessionHasOneWriter == Spec => []OneWriter
<1>1. PInv => OneWriter
  BY DEF PInv
<1> QED
  BY <1>1, ProcessInvariant, PTL

(* A process that no backend holds has a lease on disk, by which the next  *)
(* recovery finds it; not counting one that was lost before its record.    *)
THEOREM OrphansAreOnDisk == Spec => []Recoverable
<1>1. PInv => Recoverable
  <2> SUFFICES ASSUME PInv, NEW c \in Chat, Alive(c), "child" \notin held[c], at[c] # "handshake"
               PROVE  leases[c] # None \/ "unrecorded" \in loose[c]
    BY DEF Recoverable
  <2>1. Handled(c) /\ Leased(c)
    BY DEF PInv, AllSound, Sound
  <2> QED
    BY <2>1 DEF Handled, Leased
<1> QED
  BY <1>1, ProcessInvariant, PTL

(* When shutdown_managed_runtimes reports success, no process is held by   *)
(* the backend but by starts that were past the door without an account.   *)
THEOREM CleanShutdown == Spec => []ShutdownIsHonest
<1>1. PInv => ShutdownIsHonest
  BY DEF PInv, Clean, ShutdownIsHonest
<1> QED
  BY <1>1, ProcessInvariant, PTL
=============================================================================
