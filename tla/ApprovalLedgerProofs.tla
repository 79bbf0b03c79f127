------------------------ MODULE ApprovalLedgerProofs ------------------------
(***************************************************************************)
(* Proofs about the ledger of approval tokens, for any number of           *)
(* conversations, requests, ids and callers, any limits and any TTL.       *)
(***************************************************************************)
EXTENDS ApprovalLedger, FiniteSetTheorems, TLAPS

-----------------------------------------------------------------------------
(* The inductive invariant.  The ledger forgets entries, the histories do  *)
(* not; so it says how the two agree while an entry is there, and keeps    *)
(* what the safety properties say of the ids whose entry has gone.         *)

\* An entry is for what its id was opened for.
EntryAsAsked ==
  \A i \in DOMAIN entries :
    /\ i \in DOMAIN asked
    /\ asked[i] = [chat |-> entries[i].chat, request |-> entries[i].request]

\* An entry holds the decision a caller was told, and no other was told.
ToldBy(granted) == IF granted = "unanswered" THEN {} ELSE {granted = "allowed"}

EntryAsTold == \A i \in DOMAIN entries : told[i] = ToldBy(entries[i].granted)

\* The mark of consumption counts the executions, and needs a permission.
EntryAsSpent ==
  \A i \in DOMAIN entries :
    /\ spent[i] = IF entries[i].consumed THEN 1 ELSE 0
    /\ entries[i].consumed => entries[i].granted = "allowed"

\* Nothing was decided or executed under an id before it was issued.
UnissuedUnused == \A i \in Id : i \notin DOMAIN asked => told[i] = {} /\ spent[i] = 0

History ==
  /\ EntryAsAsked /\ EntryAsTold /\ EntryAsSpent /\ UnissuedUnused
  /\ OneDecision /\ SpentAtMostOnce /\ SpentOnlyIfAllowed /\ RanAsAsked

IInv == TypeOK /\ History /\ NoTwinCards /\ WithinLimits

-----------------------------------------------------------------------------
(* What lock_live keeps: some of the entries, unchanged.                   *)
LEMMA LiveIsPart ==
  ASSUME NEW now
  PROVE  /\ DOMAIN lock_live(now) \subseteq DOMAIN entries
         /\ \A i \in DOMAIN lock_live(now) : lock_live(now)[i] = entries[i]
         /\ lock_live(now) = Restrict(entries, DOMAIN lock_live(now))
BY DEF lock_live, Restrict

(* Fewer entries that wait, among as many entries, stay within the limits. *)
LEMMA FewerAwaiting ==
  ASSUME IInv, DOMAIN entries' = DOMAIN entries,
         \A c \in Chat : AwaitingOf(c, entries') \subseteq AwaitingOf(c, entries)
  PROVE  WithinLimits'
<1>1. ASSUME NEW c \in Chat
      PROVE  Cardinality(AwaitingOf(c, entries')) <= MAX_PENDING_PER_CHAT
  <2>1. IsFiniteSet(DOMAIN entries)
    BY LedgerAssumption, FS_Subset DEF IInv, TypeOK
  <2>2. IsFiniteSet(AwaitingOf(c, entries))
    BY <2>1, FS_Subset DEF AwaitingOf
  <2>3. /\ Cardinality(AwaitingOf(c, entries')) <= Cardinality(AwaitingOf(c, entries))
        /\ Cardinality(AwaitingOf(c, entries)) \in Nat
        /\ Cardinality(AwaitingOf(c, entries')) \in Nat
    BY <2>2, FS_Subset, FS_CardinalityType
  <2> QED BY <2>3, LedgerAssumption DEF IInv, WithinLimits
<1> QED BY <1>1 DEF IInv, WithinLimits

(* An operation that only sweeps or discards entries, whatever it does to  *)
(* the clock and to its own reading of it, keeps the invariant.            *)
LEMMA SweepKeepsIInv ==
  ASSUME IInv, NEW S \in SUBSET DOMAIN entries,
         entries' = Restrict(entries, S),
         UNCHANGED <<asked, told, spent, ran>>,
         clock' \in Nat, reading' \in [Caller -> Nat \cup {NoCall}]
  PROVE  IInv'
<1>1. DOMAIN entries' = S /\ \A i \in S : entries'[i] = entries[i]
  BY DEF Restrict
<1>2. TypeOK'
  <2>1. entries' = [i \in S |-> entries[i]]
    BY DEF Restrict
  <2>2. entries' \in [S -> Entry]
    BY <2>1 DEF IInv, TypeOK
  <2> QED BY <1>1, <2>2 DEF IInv, TypeOK
<1>3. History'
  <2>1. \A i \in DOMAIN entries' : i \in DOMAIN entries /\ entries'[i] = entries[i]
    BY <1>1
  <2>2. EntryAsAsked'
    BY <2>1 DEF IInv, History, EntryAsAsked
  <2>3. EntryAsTold' /\ EntryAsSpent'
    BY <2>1 DEF IInv, History, EntryAsTold, EntryAsSpent
  <2>4. UnissuedUnused' /\ OneDecision' /\ SpentAtMostOnce' /\ SpentOnlyIfAllowed' /\ RanAsAsked'
    BY DEF IInv, History, UnissuedUnused, OneDecision, SpentAtMostOnce, SpentOnlyIfAllowed, RanAsAsked
  <2> QED BY <2>2, <2>3, <2>4 DEF History
<1>4. NoTwinCards'
  BY <1>1 DEF IInv, NoTwinCards, is_awaiting
<1>5. WithinLimits'
  <2>1. IsFiniteSet(DOMAIN entries)
    BY LedgerAssumption, FS_Subset DEF IInv, TypeOK
  <2>2. Cardinality(DOMAIN entries') <= MAX_ENTRIES
    <3>1. IsFiniteSet(S) /\ Cardinality(S) \in Nat /\ Cardinality(DOMAIN entries) \in Nat
          /\ Cardinality(S) <= Cardinality(DOMAIN entries)
      BY <2>1, FS_Subset, FS_CardinalityType
    <3> QED BY <3>1, <1>1, LedgerAssumption DEF IInv, WithinLimits
  <2>3. ASSUME NEW c \in Chat
        PROVE  Cardinality(AwaitingOf(c, entries')) <= MAX_PENDING_PER_CHAT
    <3>1. AwaitingOf(c, entries') \subseteq AwaitingOf(c, entries)
      BY <1>1 DEF AwaitingOf, is_awaiting
    <3>2. IsFiniteSet(AwaitingOf(c, entries))
      BY <2>1, FS_Subset DEF AwaitingOf
    <3>3. Cardinality(AwaitingOf(c, entries')) <= Cardinality(AwaitingOf(c, entries))
          /\ Cardinality(AwaitingOf(c, entries)) \in Nat
          /\ Cardinality(AwaitingOf(c, entries')) \in Nat
      BY <3>1, <3>2, FS_Subset, FS_CardinalityType
    <3> QED BY <3>3, LedgerAssumption DEF IInv, WithinLimits
  <2> QED BY <2>2, <2>3 DEF WithinLimits
<1> QED BY <1>2, <1>3, <1>4, <1>5 DEF IInv

(* A new entry keeps it: it is no twin, and both limits had room.          *)
LEMMA OpenNewKeepsIInv ==
  ASSUME IInv, NEW th \in Caller, NEW c \in Chat, NEW r \in Request, NEW i \in Id,
         OpenNew(th, c, r, i)
  PROVE  IInv'
<1> DEFINE live == lock_live(reading[th])
           e == NewEntry(c, r, reading[th])
<1>1. /\ DOMAIN live \subseteq DOMAIN entries
      /\ \A j \in DOMAIN live : live[j] = entries[j]
  BY LiveIsPart
<1>2. i \notin DOMAIN asked /\ i \notin DOMAIN entries /\ i \notin DOMAIN live
  BY <1>1 DEF OpenNew, IInv, History, EntryAsAsked
<1>3. reading[th] \in Nat
  BY DEF OpenNew, UnderLock, IInv, TypeOK, NoCall
<1>4. e \in Entry /\ e.granted = "unanswered" /\ ~ e.consumed /\ e.chat = c /\ e.request = r
  BY <1>3, LedgerAssumption DEF NewEntry, Entry
<1>5. /\ DOMAIN entries' = DOMAIN live \cup {i}
      /\ entries'[i] = e
      /\ \A j \in DOMAIN live : entries'[j] = entries[j]
  BY <1>1, <1>2 DEF OpenNew
<1>6. /\ DOMAIN asked' = DOMAIN asked \cup {i}
      /\ asked'[i] = [chat |-> c, request |-> r]
      /\ \A j \in DOMAIN asked : asked'[j] = asked[j]
  BY <1>2 DEF OpenNew
<1>7. told' = told /\ spent' = spent /\ ran' = ran
  BY DEF OpenNew
<1>8. TypeOK'
  <2>1. entries' \in [DOMAIN entries' -> Entry]
    <3>1. \A j \in DOMAIN entries' : entries'[j] \in Entry
      BY <1>1, <1>4, <1>5 DEF IInv, TypeOK
    <3>2. entries' = [j \in DOMAIN entries' |-> entries'[j]]
      BY <1>5 DEF OpenNew
    <3> QED BY <3>1, <3>2
  <2>2. asked' \in [DOMAIN asked' -> [chat : Chat, request : Request]]
    <3>1. \A j \in DOMAIN asked' : asked'[j] \in [chat : Chat, request : Request]
      BY <1>6 DEF IInv, TypeOK
    <3>2. asked' = [j \in DOMAIN asked' |-> asked'[j]]
      BY <1>6 DEF OpenNew
    <3> QED BY <3>1, <3>2
  <2>3. clock' \in Nat /\ reading' \in [Caller -> Nat \cup {NoCall}]
    BY DEF OpenNew, UnderLock, IInv, TypeOK
  <2> QED BY <1>1, <1>5, <1>6, <1>7, <2>1, <2>2, <2>3 DEF IInv, TypeOK
<1>9. History'
  <2>1. EntryAsAsked'
    BY <1>1, <1>2, <1>4, <1>5, <1>6 DEF IInv, History, EntryAsAsked
  <2>2. told[i] = {} /\ spent[i] = 0
    BY <1>2 DEF IInv, History, UnissuedUnused
  <2>3. EntryAsTold' /\ EntryAsSpent'
    BY <1>1, <1>4, <1>5, <1>7, <2>2 DEF IInv, History, EntryAsTold, EntryAsSpent, ToldBy
  <2>4. RanAsAsked'
    BY <1>6, <1>7 DEF IInv, History, RanAsAsked
  <2>5. UnissuedUnused' /\ OneDecision' /\ SpentAtMostOnce' /\ SpentOnlyIfAllowed'
    BY <1>6, <1>7 DEF IInv, History, UnissuedUnused, OneDecision, SpentAtMostOnce, SpentOnlyIfAllowed
  <2> QED BY <2>1, <2>3, <2>4, <2>5 DEF History
<1>10. NoTwinCards'
  <2>1. \A j \in DOMAIN live : is_awaiting(entries[j]) /\ entries[j].chat = c => entries[j].request # r
    BY <1>1 DEF OpenNew, Duplicates, AwaitingOf
  <2> QED BY <1>1, <1>4, <1>5, <2>1 DEF IInv, NoTwinCards, is_awaiting
<1>11. WithinLimits'
  <2>1. IsFiniteSet(DOMAIN entries) /\ IsFiniteSet(DOMAIN live)
    BY <1>1, LedgerAssumption, FS_Subset DEF IInv, TypeOK
  <2>2. Cardinality(DOMAIN entries') <= MAX_ENTRIES
    <3>1. Cardinality(DOMAIN live \cup {i}) = Cardinality(DOMAIN live) + 1
          /\ Cardinality(DOMAIN live) \in Nat
      BY <2>1, <1>2, FS_AddElement, FS_CardinalityType
    <3>2. Cardinality(DOMAIN live) < MAX_ENTRIES
      BY DEF OpenNew
    <3> QED BY <3>1, <3>2, <1>5, LedgerAssumption
  <2>3. ASSUME NEW d \in Chat
        PROVE  Cardinality(AwaitingOf(d, entries')) <= MAX_PENDING_PER_CHAT
    <3>1. CASE d = c
      <4>1. AwaitingOf(c, entries') = AwaitingOf(c, live) \cup {i}
        BY <1>1, <1>4, <1>5 DEF AwaitingOf, is_awaiting
      <4>2. IsFiniteSet(AwaitingOf(c, live)) /\ i \notin AwaitingOf(c, live)
        BY <2>1, <1>2, FS_Subset DEF AwaitingOf
      <4>3. Cardinality(AwaitingOf(c, entries')) = Cardinality(AwaitingOf(c, live)) + 1
            /\ Cardinality(AwaitingOf(c, live)) \in Nat
        BY <4>1, <4>2, FS_AddElement, FS_CardinalityType
      <4>4. Cardinality(AwaitingOf(c, live)) < MAX_PENDING_PER_CHAT
        BY DEF OpenNew
      <4> QED BY <3>1, <4>3, <4>4, LedgerAssumption
    <3>2. CASE d # c
      <4>1. AwaitingOf(d, entries') \subseteq AwaitingOf(d, entries)
        BY <1>1, <1>4, <1>5, <3>2 DEF AwaitingOf, is_awaiting
      <4>2. IsFiniteSet(AwaitingOf(d, entries))
        BY <2>1, FS_Subset DEF AwaitingOf
      <4>3. Cardinality(AwaitingOf(d, entries')) <= Cardinality(AwaitingOf(d, entries))
            /\ Cardinality(AwaitingOf(d, entries)) \in Nat
            /\ Cardinality(AwaitingOf(d, entries')) \in Nat
        BY <4>1, <4>2, FS_Subset, FS_CardinalityType
      <4> QED BY <4>3, LedgerAssumption DEF IInv, WithinLimits
    <3> QED BY <3>1, <3>2
  <2> QED BY <2>2, <2>3 DEF WithinLimits
<1> QED BY <1>8, <1>9, <1>10, <1>11 DEF IInv

(* A decision keeps it: no caller had been told another one.               *)
LEMMA ResolveKeepsIInv ==
  ASSUME IInv, NEW th \in Caller, NEW c \in Chat, NEW i \in Id, NEW granted \in BOOLEAN,
         Resolve(th, c, i, granted)
  PROVE  IInv'
<1> DEFINE word == IF granted THEN "allowed" ELSE "refused"
<1>1. /\ i \in DOMAIN entries
      /\ entries[i].granted = "unanswered" /\ ~ entries[i].consumed
  BY DEF Resolve, CanResolve, with_usable
<1>2. told[i] = {} /\ spent[i] = 0 /\ entries[i] \in Entry
  BY <1>1 DEF IInv, TypeOK, History, EntryAsTold, EntryAsSpent, ToldBy
<1>3. /\ DOMAIN entries' = DOMAIN entries
      /\ entries' = [entries EXCEPT ![i].granted = word]
      /\ entries'[i] = [entries[i] EXCEPT !.granted = word]
      /\ \A j \in DOMAIN entries : j # i => entries'[j] = entries[j]
  BY <1>1 DEF Resolve
<1>4. /\ entries'[i].granted = word /\ entries'[i].consumed = entries[i].consumed
      /\ entries'[i].chat = entries[i].chat /\ entries'[i].request = entries[i].request
      /\ entries'[i] \in Entry
  BY <1>2, <1>3 DEF Entry
<1>5. /\ told' = [told EXCEPT ![i] = @ \cup {granted}]
      /\ told'[i] = {granted}
      /\ \A j \in Id : j # i => told'[j] = told[j]
      /\ asked' = asked /\ spent' = spent /\ ran' = ran
  BY <1>2 DEF Resolve, IInv, TypeOK
<1>6. TypeOK'
  <2>1. entries' \in [DOMAIN entries -> Entry]
    BY <1>3, <1>4 DEF IInv, TypeOK
  <2>2. clock' \in Nat /\ reading' \in [Caller -> Nat \cup {NoCall}]
    BY DEF Resolve, UnderLock, IInv, TypeOK
  <2> QED BY <1>3, <1>5, <2>1, <2>2 DEF IInv, TypeOK
<1>7. History'
  <2>1. EntryAsAsked' /\ RanAsAsked'
    BY <1>3, <1>4, <1>5 DEF IInv, History, EntryAsAsked, RanAsAsked
  <2>2. EntryAsTold'
    <3>1. ASSUME NEW j \in DOMAIN entries, j # i
          PROVE  entries'[j] = entries[j] /\ told'[j] = told[j]
      BY <1>3, <1>5, <3>1 DEF IInv, TypeOK
    <3>2. told'[i] = ToldBy(word)
      BY <1>5 DEF ToldBy
    <3> QED BY <1>3, <1>4, <3>1, <3>2 DEF IInv, History, EntryAsTold
  <2>3. EntryAsSpent'
    BY <1>1, <1>3, <1>4, <1>5 DEF IInv, History, EntryAsSpent
  <2>4. i \in DOMAIN asked
    BY <1>1 DEF IInv, History, EntryAsAsked
  <2>5. UnissuedUnused'
    BY <1>5, <2>4 DEF IInv, History, UnissuedUnused
  <2>6. OneDecision' /\ SpentAtMostOnce' /\ SpentOnlyIfAllowed'
    <3>1. told'[i] # BOOLEAN
      BY <1>5
    <3> QED BY <1>2, <1>5, <3>1 DEF IInv, History, OneDecision, SpentAtMostOnce, SpentOnlyIfAllowed
  <2> QED BY <2>1, <2>2, <2>3, <2>5, <2>6 DEF History
<1>8. NoTwinCards'
  BY <1>3, <1>4 DEF IInv, NoTwinCards, is_awaiting
<1>9. WithinLimits'
  <2>1. \A d \in Chat : AwaitingOf(d, entries') \subseteq AwaitingOf(d, entries)
    BY <1>3, <1>4 DEF AwaitingOf, is_awaiting
  <2> QED BY <1>3, <2>1, FewerAwaiting DEF IInv
<1> QED BY <1>6, <1>7, <1>8, <1>9 DEF IInv

(* An execution keeps it: the entry was allowed and had not been consumed. *)
LEMMA ConsumeKeepsIInv ==
  ASSUME IInv, NEW th \in Caller, NEW c \in Chat, NEW i \in Id, NEW r \in Request,
         Consume(th, c, i, r)
  PROVE  IInv'
<1>1. /\ i \in DOMAIN entries /\ entries[i].granted = "allowed" /\ ~ entries[i].consumed
      /\ entries[i].chat = c /\ entries[i].request = r
  BY DEF Consume, CanConsume, with_usable
<1>2. told[i] = {TRUE} /\ spent[i] = 0 /\ entries[i] \in Entry
  <2>1. ToldBy("allowed") = {TRUE}
    BY DEF ToldBy
  <2> QED BY <1>1, <2>1 DEF IInv, TypeOK, History, EntryAsTold, EntryAsSpent
<1>3. /\ DOMAIN entries' = DOMAIN entries
      /\ entries' = [entries EXCEPT ![i].consumed = TRUE]
      /\ entries'[i] = [entries[i] EXCEPT !.consumed = TRUE]
      /\ \A j \in DOMAIN entries : j # i => entries'[j] = entries[j]
  BY <1>1 DEF Consume
<1>4. /\ entries'[i].consumed /\ entries'[i].granted = "allowed"
      /\ entries'[i].chat = entries[i].chat /\ entries'[i].request = entries[i].request
      /\ entries'[i] \in Entry
  BY <1>1, <1>2, <1>3 DEF Entry
<1>5. /\ spent' = [spent EXCEPT ![i] = @ + 1]
      /\ spent'[i] = 1
      /\ \A j \in Id : j # i => spent'[j] = spent[j]
      /\ ran' = ran \cup {[id |-> i, chat |-> c, request |-> r]}
      /\ asked' = asked /\ told' = told
  BY <1>2 DEF Consume, IInv, TypeOK
<1>6. TypeOK'
  <2>1. entries' \in [DOMAIN entries -> Entry]
    BY <1>3, <1>4 DEF IInv, TypeOK
  <2>2. clock' \in Nat /\ reading' \in [Caller -> Nat \cup {NoCall}]
    BY DEF Consume, UnderLock, IInv, TypeOK
  <2>3. spent' \in [Id -> Nat]
    BY <1>5 DEF IInv, TypeOK
  <2> QED BY <1>3, <1>5, <2>1, <2>2, <2>3 DEF IInv, TypeOK
<1>7. History'
  <2>1. EntryAsAsked'
    BY <1>3, <1>4, <1>5 DEF IInv, History, EntryAsAsked
  <2>2. RanAsAsked'
    <3>1. i \in DOMAIN asked /\ asked[i] = [chat |-> c, request |-> r]
      BY <1>1 DEF IInv, History, EntryAsAsked
    <3>2. ASSUME NEW x \in ran'
          PROVE  x.id \in DOMAIN asked /\ asked[x.id] = [chat |-> x.chat, request |-> x.request]
      <4>1. CASE x \in ran
        BY <4>1 DEF IInv, History, RanAsAsked
      <4>2. CASE x = [id |-> i, chat |-> c, request |-> r]
        BY <3>1, <4>2
      <4> QED BY <1>5, <4>1, <4>2
    <3> QED BY <1>5, <3>2 DEF RanAsAsked
  <2>3. EntryAsTold'
    BY <1>1, <1>3, <1>4, <1>5 DEF IInv, History, EntryAsTold
  <2>4. EntryAsSpent'
    <3>1. ASSUME NEW j \in DOMAIN entries, j # i
          PROVE  entries'[j] = entries[j] /\ spent'[j] = spent[j]
      BY <1>3, <1>5, <3>1 DEF IInv, TypeOK
    <3> QED BY <1>3, <1>4, <1>5, <3>1 DEF IInv, History, EntryAsSpent
  <2>5. UnissuedUnused' /\ OneDecision'
    <3>1. i \in DOMAIN asked
      BY <1>1 DEF IInv, History, EntryAsAsked
    <3> QED BY <3>1, <1>5 DEF IInv, History, UnissuedUnused, OneDecision
  <2>6. SpentAtMostOnce' /\ SpentOnlyIfAllowed'
    <3>1. SpentAtMostOnce'
      BY <1>5 DEF IInv, History, SpentAtMostOnce
    <3>2. ASSUME NEW j \in Id, spent'[j] > 0
          PROVE  told'[j] = {TRUE}
      BY <1>2, <1>5, <3>2 DEF IInv, History, SpentOnlyIfAllowed
    <3> QED BY <3>1, <3>2 DEF SpentOnlyIfAllowed
  <2> QED BY <2>1, <2>2, <2>3, <2>4, <2>5, <2>6 DEF History
<1>8. NoTwinCards'
  BY <1>3, <1>4 DEF IInv, NoTwinCards, is_awaiting
<1>9. WithinLimits'
  <2>1. \A d \in Chat : AwaitingOf(d, entries') \subseteq AwaitingOf(d, entries)
    BY <1>3, <1>4 DEF AwaitingOf, is_awaiting
  <2> QED BY <1>3, <2>1, FewerAwaiting DEF IInv
<1> QED BY <1>6, <1>7, <1>8, <1>9 DEF IInv

-----------------------------------------------------------------------------
(* The initial state satisfies the invariant.                              *)
LEMMA InitIInv == Init => IInv
<1> SUFFICES ASSUME Init PROVE IInv
  OBVIOUS
<1>1. DOMAIN entries = {} /\ DOMAIN asked = {}
  BY DEF Init
<1>2. TypeOK
  BY <1>1 DEF Init, TypeOK, NoCall
<1>3. History /\ NoTwinCards
  <2>1. EntryAsAsked /\ EntryAsTold /\ EntryAsSpent /\ NoTwinCards
    BY <1>1 DEF EntryAsAsked, EntryAsTold, EntryAsSpent, NoTwinCards
  <2>2. UnissuedUnused /\ SpentAtMostOnce /\ SpentOnlyIfAllowed
    BY DEF Init, UnissuedUnused, SpentAtMostOnce, SpentOnlyIfAllowed
  <2>3. OneDecision /\ RanAsAsked
    BY DEF Init, OneDecision, RanAsAsked
  <2> QED BY <2>1, <2>2, <2>3 DEF History
<1>4. \A c \in Chat : AwaitingOf(c, entries) = {}
  BY <1>1 DEF AwaitingOf
<1>5. WithinLimits
  BY <1>1, <1>4, FS_EmptySet, LedgerAssumption DEF WithinLimits
<1> QED BY <1>2, <1>3, <1>5 DEF IInv

(* Every step keeps it.                                                    *)
LEMMA NextIInv == IInv /\ [Next]_vars => IInv'
<1> SUFFICES ASSUME IInv, [Next]_vars PROVE IInv'
  OBVIOUS
<1> USE DEF IInv
<1>0. entries = Restrict(entries, DOMAIN entries)
  BY DEF IInv, TypeOK, Restrict
<1>1. CASE Tick
  BY <1>0, <1>1, SweepKeepsIInv DEF Tick, TypeOK
<1>2. ASSUME NEW th \in Caller, ReadClock(th) PROVE IInv'
  BY <1>0, <1>2, SweepKeepsIInv DEF ReadClock, TypeOK
<1>3. ASSUME NEW th \in Caller, UnderLock(th)
      PROVE  clock' \in Nat /\ reading' \in [Caller -> Nat \cup {NoCall}]
  BY <1>3 DEF UnderLock, TypeOK
<1>4. ASSUME NEW th \in Caller, Pending(th) PROVE IInv'
  BY <1>3, <1>4, LiveIsPart, SweepKeepsIInv DEF Pending
<1>5. ASSUME NEW th \in Caller, NEW c \in Chat, NEW r \in Request, OpenRefused(th, c, r)
      PROVE  IInv'
  BY <1>3, <1>5, LiveIsPart, SweepKeepsIInv DEF OpenRefused
<1>6. ASSUME NEW th \in Caller, NEW c \in Chat, NEW r \in Request, NEW i \in Id,
             OpenExisting(th, c, r, i)
      PROVE  IInv'
  BY <1>3, <1>6, LiveIsPart, SweepKeepsIInv DEF OpenExisting
<1>7. ASSUME NEW th \in Caller, NEW c \in Chat, NEW i \in Id,
             \/ ResolveRefused(th, c, i)
             \/ \E r \in Request : ConsumeRefused(th, c, i, r)
      PROVE  IInv'
  BY <1>0, <1>3, <1>7, SweepKeepsIInv DEF ResolveRefused, ConsumeRefused
<1>8. ASSUME NEW c \in Chat, discard_chat(c) PROVE IInv'
  BY <1>8, SweepKeepsIInv DEF discard_chat, TypeOK
<1>9. CASE UNCHANGED vars
  BY <1>0, <1>9, SweepKeepsIInv DEF vars, TypeOK
<1> QED BY <1>1, <1>2, <1>4, <1>5, <1>6, <1>7, <1>8, <1>9,
          OpenNewKeepsIInv, ResolveKeepsIInv, ConsumeKeepsIInv DEF Next

(* The invariant holds throughout every behavior of the ledger.            *)
THEOREM LedgerInvariant == Spec => []IInv
BY InitIInv, NextIInv, PTL DEF Spec

(* Type correctness of the ledger (approval_ledger.rs).                    *)
THEOREM LedgerTypeOK == Spec => []TypeOK
<1>1. IInv => TypeOK
  BY DEF IInv
<1> QED BY <1>1, LedgerInvariant, PTL

(* A token is executed at most once and only if it was allowed, whatever   *)
(* callers race, and of two answers one is taken (`consume`, `resolve`).   *)
THEOREM LedgerSpends == Spec => [](SpentAtMostOnce /\ SpentOnlyIfAllowed /\ OneDecision)
<1>1. IInv => SpentAtMostOnce /\ SpentOnlyIfAllowed /\ OneDecision
  BY DEF IInv, History
<1> QED BY <1>1, LedgerInvariant, PTL

(* What is executed is the request the card was opened for, and for that   *)
(* conversation, whoever presents the id (`consume`, `with_usable`).       *)
THEOREM LedgerRunsAsAsked == Spec => []RanAsAsked
<1>1. IInv => RanAsAsked
  BY DEF IInv, History
<1> QED BY <1>1, LedgerInvariant, PTL

(* No conversation has two cards waiting for one request (`open`).         *)
THEOREM LedgerHasNoTwins == Spec => []NoTwinCards
<1>1. IInv => NoTwinCards
  BY DEF IInv
<1> QED BY <1>1, LedgerInvariant, PTL

(* No conversation has more cards waiting than its limit, and the ledger   *)
(* never outgrows its own (`open`).                                        *)
THEOREM LedgerLimits == Spec => []WithinLimits
<1>1. IInv => WithinLimits
  BY DEF IInv
<1> QED BY <1>1, LedgerInvariant, PTL

-----------------------------------------------------------------------------
(* The ledger implements the one-shot token.                               *)

\* The tokens a step takes out of the ledger before they were spent.
Lost == {i \in DOMAIN entries \ DOMAIN entries' : spent[i] = 0}

\* The refinement mapping.
tok == [i \in Id |-> Phase(i)]

(* A token that waits, was allowed or was refused may leave.               *)
LEMMA LostMayLeave ==
  ASSUME IInv
  PROVE  Lost \in SUBSET {i \in Id : tok[i] \in {"unanswered", "allowed", "refused"}}
<1> SUFFICES ASSUME NEW i \in Lost
             PROVE  i \in Id /\ Phase(i) \in {"unanswered", "allowed", "refused"}
  BY DEF tok
<1>1. i \in DOMAIN entries /\ i \in Id /\ spent[i] = 0 /\ i \in DOMAIN asked
  BY DEF Lost, IInv, TypeOK, History, EntryAsAsked
<1>2. entries[i].granted \in {"unanswered", "allowed", "refused"}
  BY <1>1 DEF IInv, TypeOK, Entry
<1> QED BY <1>1, <1>2 DEF Phase

(* A step that only takes entries away loses exactly their tokens.         *)
LEMMA SweepLoses ==
  ASSUME IInv, NEW S \in SUBSET DOMAIN entries,
         entries' = Restrict(entries, S),
         UNCHANGED <<asked, told, spent, ran>>
  PROVE  Token!Next
<1>1. DOMAIN entries' = S /\ \A i \in S : entries'[i] = entries[i]
  BY DEF Restrict
<1>2. ASSUME NEW i \in Id
      PROVE  Phase(i)' = IF i \in Lost THEN "gone" ELSE Phase(i)
  <2>1. i \in DOMAIN entries => i \in DOMAIN asked
    BY DEF IInv, History, EntryAsAsked
  <2>2. spent[i] \in Nat
    BY DEF IInv, TypeOK
  <2> QED BY <1>1, <2>1, <2>2 DEF Phase, Lost
<1>3. Token!Lose(Lost)
  BY <1>2 DEF Token!Lose, tok
<1> QED BY <1>3, LostMayLeave DEF Token!Next, tok

(* Opening an entry asks for its token, while the swept ones leave.        *)
LEMMA OpenNewAsks ==
  ASSUME IInv, NEW th \in Caller, NEW c \in Chat, NEW r \in Request, NEW i \in Id,
         OpenNew(th, c, r, i)
  PROVE  Token!Next
<1> DEFINE live == lock_live(reading[th])
<1>1. /\ DOMAIN live \subseteq DOMAIN entries
      /\ \A j \in DOMAIN live : live[j] = entries[j]
  BY LiveIsPart
<1>2. i \notin DOMAIN asked /\ i \notin DOMAIN entries /\ spent[i] = 0
  BY DEF OpenNew, IInv, History, EntryAsAsked, UnissuedUnused
<1>3. /\ DOMAIN entries' = DOMAIN live \cup {i}
      /\ entries'[i].granted = "unanswered"
      /\ \A j \in DOMAIN live : entries'[j] = entries[j]
      /\ DOMAIN asked' = DOMAIN asked \cup {i}
      /\ spent' = spent
  BY <1>1, <1>2 DEF OpenNew, NewEntry
<1>4. Phase(i) = "unborn" /\ Phase(i)' = "unanswered" /\ i \notin Lost
  BY <1>2, <1>3 DEF Phase, Lost
<1>5. ASSUME NEW j \in Id, j # i
      PROVE  Phase(j)' = IF j \in Lost THEN "gone" ELSE Phase(j)
  <2>1. j \in DOMAIN entries => j \in DOMAIN asked
    BY DEF IInv, History, EntryAsAsked
  <2>2. spent[j] \in Nat
    BY DEF IInv, TypeOK
  <2> QED BY <1>1, <1>3, <1>5, <2>1, <2>2 DEF Phase, Lost
<1>6. tok' = [j \in Id |-> IF j = i THEN "unanswered" ELSE IF j \in Lost THEN "gone" ELSE tok[j]]
  BY <1>4, <1>5 DEF tok
<1>7. Token!Take(Lost, i, "unanswered")
  BY <1>4, <1>6 DEF Token!Take, Token!Moves, tok
<1> QED BY <1>7, LostMayLeave DEF Token!Next, tok

(* A decision and an execution are the two other moves of a token.         *)
LEMMA ResolveAnswers ==
  ASSUME IInv, NEW th \in Caller, NEW c \in Chat, NEW i \in Id, NEW granted \in BOOLEAN,
         Resolve(th, c, i, granted)
  PROVE  Token!Next
<1> DEFINE word == IF granted THEN "allowed" ELSE "refused"
<1>1. /\ i \in DOMAIN entries /\ i \in DOMAIN asked
      /\ entries[i].granted = "unanswered" /\ ~ entries[i].consumed
      /\ spent[i] = 0 /\ entries[i] \in Entry
  BY DEF Resolve, CanResolve, with_usable, IInv, TypeOK, History, EntryAsAsked, EntryAsSpent
<1>2. /\ DOMAIN entries' = DOMAIN entries
      /\ entries'[i] = [entries[i] EXCEPT !.granted = word]
      /\ \A j \in DOMAIN entries : j # i => entries'[j] = entries[j]
      /\ asked' = asked /\ spent' = spent
  BY <1>1 DEF Resolve
<1>3. entries'[i].granted = word
  BY <1>1, <1>2 DEF Entry
<1>4. Phase(i) = "unanswered" /\ Phase(i)' = word
  BY <1>1, <1>2, <1>3 DEF Phase
<1>5. \A j \in Id : j # i => Phase(j)' = Phase(j)
  BY <1>2 DEF Phase
<1>6. tok' = [j \in Id |-> IF j = i THEN word ELSE IF j \in {} THEN "gone" ELSE tok[j]]
  BY <1>4, <1>5 DEF tok
<1>7. Token!Take({}, i, word)
  BY <1>4, <1>6 DEF Token!Take, Token!Moves, tok
<1> QED BY <1>7 DEF Token!Next, tok

\* What consume takes, it spends.
LEMMA ConsumeSpends ==
  ASSUME IInv, NEW th \in Caller, NEW c \in Chat, NEW i \in Id, NEW r \in Request,
         Consume(th, c, i, r)
  PROVE  Token!Next
<1>1. /\ i \in DOMAIN entries /\ i \in DOMAIN asked
      /\ entries[i].granted = "allowed" /\ spent[i] = 0
  BY DEF Consume, CanConsume, with_usable, IInv, History, EntryAsAsked, EntryAsSpent
<1>2. /\ DOMAIN entries' = DOMAIN entries
      /\ entries' = [entries EXCEPT ![i].consumed = TRUE]
      /\ \A j \in DOMAIN entries : j # i => entries'[j] = entries[j]
      /\ asked' = asked /\ spent'[i] = 1
      /\ \A j \in Id : j # i => spent'[j] = spent[j]
  BY <1>1 DEF Consume, IInv, TypeOK
<1>3. Phase(i) = "allowed" /\ Phase(i)' = "spent"
  BY <1>1, <1>2 DEF Phase
<1>4. \A j \in Id : j # i => Phase(j)' = Phase(j)
  BY <1>2 DEF Phase
<1>5. tok' = [j \in Id |-> IF j = i THEN "spent" ELSE IF j \in {} THEN "gone" ELSE tok[j]]
  BY <1>3, <1>4 DEF tok
<1>6. Token!Take({}, i, "spent")
  BY <1>3, <1>5 DEF Token!Take, Token!Moves, tok
<1> QED BY <1>6 DEF Token!Next, tok

(* Every step of the ledger is a step of the token, or none.               *)
LEMMA StepImplementsToken == IInv /\ [Next]_vars => [Token!Next]_tok
<1> SUFFICES ASSUME IInv, [Next]_vars PROVE Token!Next \/ UNCHANGED tok
  OBVIOUS
<1>1. entries = Restrict(entries, DOMAIN entries)
  BY DEF IInv, TypeOK, Restrict
<1>2. CASE Tick \/ UNCHANGED vars
  BY <1>1, <1>2, SweepLoses DEF Tick, vars
<1>3. ASSUME NEW th \in Caller,
             \/ ReadClock(th)
             \/ \E c \in Chat, i \in Id : \/ ResolveRefused(th, c, i)
                                         \/ \E r \in Request : ConsumeRefused(th, c, i, r)
      PROVE  Token!Next
  BY <1>1, <1>3, SweepLoses DEF ReadClock, ResolveRefused, ConsumeRefused
<1>4. ASSUME NEW th \in Caller,
             \/ Pending(th)
             \/ \E c \in Chat, r \in Request :
                  OpenRefused(th, c, r) \/ \E i \in Id : OpenExisting(th, c, r, i)
      PROVE  Token!Next
  BY <1>4, LiveIsPart, SweepLoses DEF Pending, OpenRefused, OpenExisting
<1>5. ASSUME NEW c \in Chat, discard_chat(c) PROVE Token!Next
  BY <1>5, SweepLoses DEF discard_chat
<1> QED BY <1>2, <1>3, <1>4, <1>5, OpenNewAsks, ResolveAnswers, ConsumeSpends DEF Next

(* The ledger implements the one-shot token (ApprovalToken).               *)
THEOREM LedgerImplementsToken == Spec => ImplementsToken
<1>1. Init => Token!Init
  BY DEF Init, Token!Init, Phase
<1>2. IInv /\ [Next]_vars => [Token!Next]_tok
  BY StepImplementsToken
<1> QED BY <1>1, <1>2, LedgerInvariant, PTL DEF Spec, ImplementsToken, Token!Spec, tok
=============================================================================
