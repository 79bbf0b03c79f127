---------------------- MODULE AccountCredentialsProofs ----------------------
(***************************************************************************)
(* Theorems about AccountCredentials, for any runs, tokens and troubles:   *)
(* its types, that the account keeps a token the server accepts            *)
(* (NewestLives), and that the application leaves the tokens of its runs   *)
(* alone (AppDefers).                                                      *)
(*                                                                         *)
(* As long as no token is lost in one of the ways that Slip names, neither *)
(* place ever goes back to an older token: what a thread has read is never *)
(* newer than what is there now, and so what it writes is not either.  A   *)
(* token the application has had exchanged is older than the one in the    *)
(* vault; a run that is counted while no refresh is under way reads the    *)
(* vault, and then the profile, after that.                                *)
(***************************************************************************)
EXTENDS AccountCredentials, TLAPS

\* What a thread has read, and when.
ShapeOf(t) ==
  /\ seen[t].vault <= issued /\ seen[t].profile <= issued
  /\ seen[t].read => seen[t].vault # 0
  /\ at[t] \notin Calls \cup {"adopt"} => seen[t] = Blank
  /\ at[t] = "adopt" => seen[t].profile # 0
  /\ t \in Uncounted => at[t] \notin {"count", "launch"}

Shape ==
  /\ vault <= issued /\ profile <= issued /\ hand <= issued
  /\ \A c \in Cli : mem[c] <= issued
  /\ \A token \in taken : token <= issued
  /\ \A t \in Thread : ShapeOf(t)
  /\ at["usage"] \in {"check", "submit", "put", "mirror"} => hand # 0

TInv == TypeOK /\ Shape

LEMMA InitTInv == Init => TInv
BY MaxTokenAssumption, MaxTroublesAssumption, CliAssumption
   DEF Init, TInv, TypeOK, Shape, ShapeOf, Token, Thread, Stage, Calls, Blank, Slip

\* Tokens are numbered as they are issued.
LEMMA ExchangeKeepsOrder ==
  ASSUME NEW token, Exchange(token), TypeOK
  PROVE  living' \subseteq 1..issued'
<1>1. issued \in Nat /\ issued' = issued + 1 /\ living \subseteq 1..issued
  BY MaxTokenAssumption DEF Exchange, TypeOK, Token
<1>2. living' = (living \ {token}) \cup {issued'}
  BY <1>1 DEF Exchange
<1> SUFFICES ASSUME NEW x \in living' PROVE x \in 1..issued'
  OBVIOUS
<1> QED
  BY <1>1, <1>2

LEMMA StepTInv == TInv /\ [Next]_vars => TInv'
<1> SUFFICES ASSUME TInv, [Next]_vars PROVE TInv'
  OBVIOUS
<1> USE MaxTokenAssumption, MaxTroublesAssumption, CliAssumption, UncountedAssumption
<1> USE DEF TInv, TypeOK, Shape, ShapeOf, Token, Thread, Stage, Calls, Blank, Slip,
            stores, server, history, Go, Note, Trouble, Unseen
<1>1. ASSUME NEW t \in Thread, SyncVault(t) PROVE TInv'
  BY <1>1 DEF SyncVault, ReadVault
<1>2. ASSUME NEW t \in Thread, SyncProfile(t) PROVE TInv'
  <2>1. CASE seen' = [seen EXCEPT ![t].profile = profile, ![t].read = TRUE] /\ UNCHANGED <<slips, troubles>>
    BY <1>2, <2>1 DEF SyncProfile
  <2>2. CASE Trouble /\ Note({"unreadable"}) /\ seen' = [seen EXCEPT ![t].read = TRUE]
    BY <1>2, <2>2 DEF SyncProfile
  <2> QED
    BY <1>2, <2>1, <2>2 DEF SyncProfile
<1>3. ASSUME NEW t \in Thread, Sync(t) PROVE TInv'
  BY <1>3 DEF Sync, SyncWrites, After
<1>4. ASSUME NEW t \in Thread, SyncFails(t) PROVE TInv'
  BY <1>4 DEF SyncFails, Released
<1>5. ASSUME NEW c \in Cli, Prepare(c) PROVE TInv'
  BY <1>5 DEF Prepare, ReadVault
<1>6. ASSUME NEW c \in Cli, Acquire(c) PROVE TInv'
  BY <1>6 DEF Acquire
<1>7. ASSUME NEW c \in Cli, Load(c) PROVE TInv'
  BY <1>7 DEF Load
<1>8. ASSUME NEW c \in Cli, Rotate(c) PROVE TInv'
  <2>1. at[c] = "run" /\ mem[c] \in living /\ issued < MaxToken /\ issued' = issued + 1
        /\ living' = (living \ {mem[c]}) \cup {issued + 1}
        /\ mem' = [mem EXCEPT ![c] = issued + 1] /\ at' = [at EXCEPT ![c] = "store"]
        /\ UNCHANGED <<stores, status, counted, seen, hand, history, troubles>>
    BY <1>8, Zenon DEF Rotate, Exchange, Go
  <2>2. TypeOK'
    <3>1. at' \in [Thread -> Stage] /\ \A d \in Cli : at'[d] = IF d = c THEN "store" ELSE at[d]
      BY <2>1
    <3>2. counted' = {d \in Cli \ Uncounted : at'[d] \in {"launch", "load", "run", "store"}}
      BY <2>1, <3>1
    <3>3. issued' \in Token /\ issued' = issued + 1
      BY <2>1
    <3>4. living' \subseteq 1..issued'
      BY <1>8, ExchangeKeepsOrder DEF Rotate
    <3>5. mem' \in [Cli -> Token \cup {0}]
      BY <2>1, <3>3
    <3> QED
      BY <2>1, <3>1, <3>2, <3>3, <3>4, <3>5
  <2>3. Shape'
    BY <2>1
  <2> QED
    BY <2>2, <2>3
<1>9. ASSUME NEW c \in Cli, Store(c) PROVE TInv'
  BY <1>9 DEF Store
<1>10. ASSUME NEW c \in Cli, Exit(c) PROVE TInv'
  <2>1. slips' \subseteq Slip /\ troubles' \in 0..MaxTroubles /\ at[c] \in {"run", "store"}
    <3>1. CASE at[c] = "run" /\ UNCHANGED <<slips, troubles>>
      BY <3>1
    <3>2. CASE at[c] = "store" /\ Trouble /\ Note({"killed"})
      <4>1. troubles' \in 0..MaxTroubles
        BY <3>2
      <4>2. slips' \subseteq Slip
        BY <3>2
      <4> QED
        BY <3>2, <4>1, <4>2
    <3> QED
      BY <1>10, <3>1, <3>2, Zenon DEF Exit
  <2>2. counted' = counted \ {c} /\ at' = [at EXCEPT ![c] = "idle"]
        /\ mem' = [mem EXCEPT ![c] = 0] /\ overtaken' = overtaken \ {c}
        /\ UNCHANGED <<stores, server, status, seen, hand, taken>>
    BY <1>10, Zenon DEF Exit, Released, Go
  <2> QED
    BY <2>1, <2>2
<1>11. CASE RefreshUsage
  BY <1>11 DEF RefreshUsage
<1>12. CASE AskUsage
  BY <1>12 DEF AskUsage
<1>13. CASE Check
  BY <1>13 DEF Check
<1>14. CASE Submit
  <2>1. at["usage"] = "submit" /\ UNCHANGED <<stores, status, counted, seen, mem, overtaken>>
    BY <1>14, Zenon DEF Submit
  <2>2. CASE /\ Exchange(hand) /\ taken' = taken \cup {hand}
             /\ hand' = issued' /\ Go("usage", "put") /\ UNCHANGED <<slips, troubles>>
    BY <2>1, <2>2 DEF Exchange
  <2>3. CASE /\ Exchange(hand) /\ taken' = taken \cup {hand}
             /\ hand' = 0 /\ Go("usage", "failed") /\ Trouble /\ Note({"lost"})
    BY <2>1, <2>3 DEF Exchange
  <2>4. CASE /\ hand' = 0 /\ (Go("usage", "rejected") \/ Go("usage", "failed"))
             /\ UNCHANGED <<server, slips, taken, troubles>>
    BY <2>1, <2>4
  <2> QED
    BY <1>14, <2>2, <2>3, <2>4, Zenon DEF Submit
<1>15. CASE Put
  <2>1. at["usage"] = "put" /\ UNCHANGED <<profile, server, status, counted, seen, mem, taken, overtaken>>
    BY <1>15, Zenon DEF Put
  <2>2. CASE /\ vault' = hand /\ Note(Unseen(0, vault, hand)) /\ Go("usage", "mirror")
             /\ UNCHANGED <<hand, troubles>>
    BY <2>1, <2>2
  <2>3. CASE /\ Trouble /\ Note({"unwritten"}) /\ Go("usage", "failed")
             /\ hand' = 0 /\ UNCHANGED vault
    BY <2>1, <2>3
  <2> QED
    BY <1>15, <2>2, <2>3, Zenon DEF Put
<1>16. CASE Mirror
  <2>1. /\ at["usage"] = "mirror" /\ hand' = 0
        /\ UNCHANGED <<vault, server, status, counted, seen, mem, taken, overtaken>>
    BY <1>16, Zenon DEF Mirror
  <2>2. /\ profile' \in {profile, hand} /\ slips' \subseteq Slip /\ troubles' \in 0..MaxTroubles
        /\ \E stage \in {"done", "rejected", "failed"} : at' = [at EXCEPT !["usage"] = stage]
    <3>1. CASE /\ profile' = (IF profile = 0 THEN 0 ELSE hand) /\ Note(Unseen(0, profile, hand))
               /\ \E stage \in {"done", "rejected", "failed"} : Go("usage", stage)
               /\ UNCHANGED troubles
      BY <3>1
    <3>2. CASE profile # 0 /\ Trouble /\ Go("usage", "failed") /\ UNCHANGED <<profile, slips>>
      BY <3>2
    <3> QED
      BY <1>16, <3>1, <3>2, Zenon DEF Mirror
  <2> QED
    BY <2>1, <2>2
<1>17. CASE Settle
  BY <1>17 DEF Settle
<1>18. CASE Verify
  BY <1>18 DEF Verify
<1>19. CASE Recoverable
  BY <1>19 DEF Recoverable
<1>20. CASE Adopt
  BY <1>20 DEF Adopt
<1>21. CASE Mark
  BY <1>21 DEF Mark
<1>22. CASE Login
  BY <1>22 DEF Login
<1>23. CASE Crash
  <2>1. /\ at' = [t \in Thread |-> "idle"] /\ seen' = [t \in Thread |-> Blank]
        /\ hand' = 0 /\ mem' = [c \in Cli |-> 0] /\ counted' = {} /\ overtaken' = {}
        /\ status' = [status EXCEPT !.copy = "ready"] /\ UNCHANGED <<stores, server, taken>>
        /\ slips' = slips \cup (IF at["usage"] = "put" \/ \E c \in Cli : at[c] = "store"
                                THEN {"killed"} ELSE {})
        /\ troubles < MaxTroubles /\ troubles' = troubles + 1
    BY <1>23, Zenon DEF Crash, Note, Trouble
  <2>2. slips' \subseteq Slip
    BY <2>1
  <2>3. troubles' \in 0..MaxTroubles
    BY <2>1
  <2>4. at' \in [Thread -> Stage] /\ mem' \in [Cli -> Token \cup {0}] /\ hand' \in Token \cup {0}
        /\ seen' \in [Thread -> [vault : Token \cup {0}, profile : Token \cup {0}, read : BOOLEAN]]
        /\ counted' = {c \in Cli \ Uncounted : at'[c] \in {"launch", "load", "run", "store"}}
    BY <2>1
  <2>5. TypeOK'
    BY <2>1, <2>2, <2>3, <2>4
  <2>6. Shape'
    BY <2>1
  <2> QED
    BY <2>5, <2>6
<1>24. CASE UNCHANGED vars
  BY <1>24 DEF vars
<1> QED
  BY <1>1, <1>2, <1>3, <1>4, <1>5, <1>6, <1>7, <1>8, <1>9, <1>10, <1>11, <1>12, <1>13, <1>14,
     <1>15, <1>16, <1>17, <1>18, <1>19, <1>20, <1>21, <1>22, <1>23, <1>24
     DEF Next, Usage, Recovery, Run, Syncing

-----------------------------------------------------------------------------
\* Nothing a thread has read is newer than what is there now.
Behind == \A t \in Thread : seen[t].vault <= vault /\ seen[t].profile <= profile

\* What the profile is given is in the vault.
Written == at["usage"] = "mirror" => hand <= vault

\* A token the application has had exchanged is older than what came of it.
Spent == \A token \in taken : token < vault \/ (at["usage"] = "put" /\ token < hand)

\* A refresh goes on beside those runs only that were acquired meanwhile.
Apart == Refreshing => counted \subseteq overtaken

\* What a run reads, and holds, is newer than any token the application had exchanged.
Fresh(c) ==
  c \in counted \ overtaken => \A token \in taken :
    /\ at[c] = "launch" /\ seen[c].vault # 0 => token < seen[c].vault
    /\ at[c] = "load" => token < profile
    /\ at[c] \in {"run", "store"} => token < mem[c]

Order == Behind /\ Written /\ Spent /\ Apart /\ \A c \in Cli : Fresh(c)

OInv == TInv /\ (slips = {} => Order)

LEMMA StepOInv == OInv /\ [Next]_vars => OInv'
<1> SUFFICES ASSUME OInv, [Next]_vars, slips' = {} PROVE Order'
  BY StepTInv DEF OInv
<1>0. TInv /\ TInv' /\ (slips = {} => Order)
  BY StepTInv DEF OInv
<1> USE MaxTokenAssumption, CliAssumption, UncountedAssumption
<1> USE DEF TInv, TypeOK, Shape, ShapeOf, Token, Thread, Stage, Calls, Blank,
            stores, server, history, Go, Note, Trouble, Unseen,
            Order, Behind, Written, Spent, Apart, Fresh, Refreshing
<1>1. ASSUME NEW t \in Thread, SyncVault(t) PROVE Order'
  BY <1>0, <1>1 DEF SyncVault, ReadVault
<1>2. ASSUME NEW t \in Thread, SyncProfile(t) PROVE Order'
  BY <1>0, <1>2 DEF SyncProfile
<1>3. ASSUME NEW t \in Thread, Sync(t) PROVE Order'
  <2>1. PICK proved \in BOOLEAN : SyncWrites(t, proved)
    BY <1>3, Zenon DEF Sync
  <2>2. /\ UNCHANGED <<server, hand, mem, counted, taken, overtaken>>
        /\ at' = [at EXCEPT ![t] = After(t)] /\ at[t] \in Calls /\ seen[t].read
        /\ seen' = [seen EXCEPT ![t] = Blank]
    BY <1>3, Zenon DEF Sync, server, Go
  <2>3. slips = {}
    BY <2>1 DEF SyncWrites
  <2>4. /\ vault \in Nat /\ profile \in Nat /\ seen[t].vault \in Nat /\ seen[t].profile \in Nat
        /\ seen[t].vault <= vault /\ seen[t].profile <= profile /\ seen[t].vault # 0
    BY <1>0, <2>2, <2>3
  <2>5. vault <= vault' /\ profile <= profile' /\ seen[t].vault <= profile'
    BY <2>1, <2>4 DEF SyncWrites, Adoptable, Kept, credential_chain_is_newer
  <2>6. vault' \in Nat /\ profile' \in Nat
    BY <1>0
  <2>7. Behind'
    BY <1>0, <2>2, <2>3, <2>5, <2>6
  <2>8. Written' /\ Spent' /\ Apart'
    BY <1>0, <2>2, <2>3, <2>5, <2>6 DEF After
  <2>9. ASSUME NEW c \in Cli PROVE Fresh(c)'
    <3>1. CASE c # t
      BY <1>0, <2>2, <2>3, <2>5, <2>6, <3>1
    <3>2. CASE c = t /\ at[t] = "launch"
      BY <1>0, <2>2, <2>3, <2>4, <2>5, <2>6, <3>2 DEF After
    <3>3. CASE c = t /\ at[t] # "launch"
      BY <1>0, <2>2, <2>3, <2>4, <2>5, <2>6, <3>3 DEF After
    <3> QED
      BY <3>1, <3>2, <3>3
  <2> QED
    BY <2>7, <2>8, <2>9
<1>4. ASSUME NEW t \in Thread, SyncFails(t) PROVE Order'
  BY <1>0, <1>4 DEF SyncFails, Released
<1>5. ASSUME NEW c \in Cli, Prepare(c) PROVE Order'
  BY <1>0, <1>5 DEF Prepare, ReadVault
<1>6. ASSUME NEW c \in Cli, Acquire(c) PROVE Order'
  BY <1>0, <1>6 DEF Acquire
<1>7. ASSUME NEW c \in Cli, Load(c) PROVE Order'
  BY <1>0, <1>7 DEF Load
<1>8. ASSUME NEW c \in Cli, Rotate(c) PROVE Order'
  BY <1>0, <1>8 DEF Rotate, Exchange
<1>9. ASSUME NEW c \in Cli, Store(c) PROVE Order'
  <2>1. /\ at[c] = "store" /\ profile' = mem[c] /\ at' = [at EXCEPT ![c] = "run"]
        /\ slips' = slips \cup (IF profile > mem[c] /\ profile # 0 THEN {"unseen"} ELSE {})
        /\ UNCHANGED <<vault, server, counted, seen, hand, mem, taken, overtaken>>
    BY <1>9, Zenon DEF Store, Note, Unseen, Go
  <2>2. slips = {} /\ ~ (profile > mem[c] /\ profile # 0)
    BY <2>1, Zenon
  <2>3. profile \in Nat /\ profile' \in Nat
    BY <1>0
  <2>4. profile <= profile'
    BY <2>1, <2>2, <2>3
  <2>5. Behind'
    BY <1>0, <2>1, <2>2, <2>3, <2>4
  <2>6. Written' /\ Spent' /\ Apart'
    BY <1>0, <2>1, <2>2
  <2>7. ASSUME NEW d \in Cli PROVE Fresh(d)'
    BY <1>0, <2>1, <2>2, <2>3, <2>4
  <2> QED
    BY <2>5, <2>6, <2>7
<1>10. ASSUME NEW c \in Cli, Exit(c) PROVE Order'
  BY <1>0, <1>10 DEF Exit, Released
<1>11. CASE RefreshUsage
  BY <1>0, <1>11 DEF RefreshUsage
<1>12. CASE AskUsage
  BY <1>0, <1>12 DEF AskUsage
<1>13. CASE Check
  BY <1>0, <1>13 DEF Check, claude_refresh_deferral
<1>14. CASE Submit
  BY <1>0, <1>14 DEF Submit, Exchange
<1>15. CASE Put
  <2>1. at["usage"] = "put" /\ UNCHANGED <<profile, server, counted, seen, mem, taken, overtaken>>
    BY <1>15, Zenon DEF Put
  <2>2. /\ vault' = hand /\ hand' = hand /\ at' = [at EXCEPT !["usage"] = "mirror"]
        /\ slips' = slips \cup (IF vault > hand /\ vault # 0 THEN {"unseen"} ELSE {})
    <3>1. slips' # slips \cup {"unwritten"}
      BY Zenon
    <3> QED
      BY <1>15, <3>1, Zenon DEF Put, Note, Unseen, Go
  <2>3. slips = {} /\ ~ (vault > hand /\ vault # 0)
    BY <2>2, Zenon
  <2>4. vault \in Nat /\ hand \in Nat
    BY <1>0
  <2>5. vault <= vault'
    BY <2>2, <2>3, <2>4
  <2>6. Behind'
    BY <1>0, <2>1, <2>2, <2>3, <2>4, <2>5
  <2>7. Written' /\ Spent'
    BY <1>0, <2>1, <2>2, <2>3, <2>4, <2>5
  <2>8. Apart' /\ \A c \in Cli : Fresh(c)'
    BY <1>0, <2>1, <2>2, <2>3
  <2> QED
    BY <2>6, <2>7, <2>8
<1>16. CASE Mirror
  BY <1>0, <1>16 DEF Mirror
<1>17. CASE Settle
  BY <1>0, <1>17 DEF Settle
<1>18. CASE Verify
  BY <1>0, <1>18 DEF Verify
<1>19. CASE Recoverable
  BY <1>0, <1>19 DEF Recoverable
<1>20. CASE Adopt
  <2>1. slips = {} /\ vault <= seen["verify"].profile
    <3>1. slips' = slips \cup (IF vault > seen["verify"].profile THEN {"recovered"} ELSE {})
      BY <1>20, Zenon DEF Adopt, Note
    <3>2. slips = {} /\ ~ (vault > seen["verify"].profile)
      BY <3>1, Zenon
    <3>3. vault \in Nat /\ seen["verify"].profile \in Nat
      BY <1>0
    <3> QED
      BY <3>2, <3>3
  <2>2. /\ vault' = seen["verify"].profile /\ at["verify"] = "adopt"
        /\ seen' = [seen EXCEPT !["verify"] = Blank] /\ at' = [at EXCEPT !["verify"] = "isolate"]
        /\ UNCHANGED <<profile, server, status, counted, hand, mem, taken, overtaken, troubles>>
    BY <1>20, Zenon DEF Adopt, Go
  <2> QED
    BY <1>0, <2>1, <2>2
<1>21. CASE Mark
  BY <1>0, <1>21 DEF Mark
<1>22. CASE Login
  BY <1>0, <1>22 DEF Login
<1>23. CASE Crash
  <2>1. slips = {} /\ at["usage"] # "put"
    BY <1>0, <1>23 DEF Crash
  <2>2. /\ at' = [t \in Thread |-> "idle"] /\ seen' = [t \in Thread |-> Blank] /\ hand' = 0
        /\ mem' = [c \in Cli |-> 0] /\ counted' = {} /\ overtaken' = {}
        /\ UNCHANGED <<stores, server, taken>>
    BY <1>23, Zenon DEF Crash
  <2>3. Behind' /\ Written'
    BY <1>0, <2>1, <2>2
  <2>4. Spent'
    BY <1>0, <2>1, <2>2
  <2>5. Apart' /\ \A c \in Cli : Fresh(c)'
    BY <2>2
  <2> QED
    BY <2>3, <2>4, <2>5
<1>24. CASE UNCHANGED vars
  BY <1>0, <1>24 DEF vars
<1> QED
  BY <1>1, <1>2, <1>3, <1>4, <1>5, <1>6, <1>7, <1>8, <1>9, <1>10, <1>11, <1>12, <1>13, <1>14, <1>15, <1>16, <1>17, <1>18, <1>19, <1>20, <1>21, <1>22, <1>23, <1>24
     DEF Next, Usage, Recovery, Run, Syncing

\* The tokens there are, and the one the comparison finds.
Held == {vault, profile} \cup InFlight
Best(n) == n \in Held /\ n \in living /\ \A other \in Held : other <= n

IInv == OInv /\ (slips = {} => \E n \in Held : Best(n))

LEMMA HeldAreNat == TInv => Held \subseteq Nat
BY MaxTokenAssumption DEF TInv, TypeOK, Token, Held, InFlight

\* Writing what is between the old token of a place and the newest there is.
LEMMA BestStays ==
  ASSUME NEW n \in Nat, NEW x \in Nat, NEW old \in Nat, NEW other \in Nat, NEW rest,
         n \in {old, other} \cup rest, \A o \in {old, other} \cup rest : o <= n,
         old <= x, x <= n
  PROVE  n \in {x, other} \cup rest /\ \A o \in {x, other} \cup rest : o <= n
<1>1. n = old => x = n
  OBVIOUS
<1> QED
  BY <1>1

\* A step of a thread that is not on its way to the profile.
LEMMA InFlightStays ==
  ASSUME \A d \in Cli : at'[d] = "store" <=> at[d] = "store",
         \A d \in Cli : at[d] = "store" => mem'[d] = mem[d],
         at'["usage"] \in {"put", "mirror"} <=> at["usage"] \in {"put", "mirror"}, hand' = hand
  PROVE  InFlight' = InFlight
<1>1. {d \in Cli : at'[d] = "store"} = {d \in Cli : at[d] = "store"}
  OBVIOUS
<1>2. {mem'[d] : d \in {e \in Cli : at'[e] = "store"}} = {mem[d] : d \in {e \in Cli : at[e] = "store"}}
  BY <1>1
<1> QED
  BY <1>2 DEF InFlight

LEMMA BestKept ==
  ASSUME \E n \in Held : Best(n), UNCHANGED <<vault, profile, living>>, InFlight' = InFlight
  PROVE  \E m \in Held' : Best(m)'
<1>1. Held' = Held
  BY Zenon DEF Held
<1> QED
  BY <1>1 DEF Best

LEMMA VaultFollows ==
  ASSUME TInv, \E n \in Held : Best(n), UNCHANGED <<profile, living>>, InFlight' = InFlight,
         vault <= vault', vault' <= profile, vault' \in Nat
  PROVE  \E m \in Held' : Best(m)'
<1>1. PICK n \in Held : Best(n)
  OBVIOUS
<1>2. n \in Nat /\ vault \in Nat /\ profile \in Nat
  BY <1>1, HeldAreNat, MaxTokenAssumption DEF TInv, TypeOK, Token
<1>3. n \in {vault, profile} \cup InFlight /\ n \in living
      /\ \A o \in {vault, profile} \cup InFlight : o <= n
  BY <1>1 DEF Held, Best
<1>4. profile <= n
  BY <1>3
<1>5. vault' <= n
  BY <1>2, <1>4
<1>6. n \in {vault', profile} \cup InFlight /\ \A o \in {vault', profile} \cup InFlight : o <= n
  BY <1>2, <1>3, <1>5, BestStays
<1>7. n \in Held' /\ Best(n)'
  BY <1>3, <1>6 DEF Held, Best
<1> QED
  BY <1>7

LEMMA ProfileFollows ==
  ASSUME TInv, \E n \in Held : Best(n), UNCHANGED <<vault, living>>, InFlight' = InFlight,
         profile <= profile', profile' <= vault, profile' \in Nat
  PROVE  \E m \in Held' : Best(m)'
<1>1. PICK n \in Held : Best(n)
  OBVIOUS
<1>2. n \in Nat /\ vault \in Nat /\ profile \in Nat
  BY <1>1, HeldAreNat, MaxTokenAssumption DEF TInv, TypeOK, Token
<1>3. n \in {profile, vault} \cup InFlight /\ n \in living
      /\ \A o \in {profile, vault} \cup InFlight : o <= n
  BY <1>1 DEF Held, Best
<1>4. vault <= n
  BY <1>3
<1>5. profile' <= n
  BY <1>2, <1>4
<1>6. n \in {profile', vault} \cup InFlight /\ \A o \in {profile', vault} \cup InFlight : o <= n
  BY <1>2, <1>3, <1>5, BestStays
<1>7. n \in Held' /\ Best(n)'
  BY <1>3, <1>6 DEF Held, Best
<1> QED
  BY <1>7

LEMMA InitIInv == Init => IInv
<1> SUFFICES ASSUME Init PROVE IInv
  OBVIOUS
<1>1. TInv
  BY InitTInv
<1>2. Order
  BY <1>1, CliAssumption
     DEF Init, Order, Behind, Written, Spent, Apart, Fresh, Refreshing, Blank, Thread
<1>3. InFlight = {} /\ vault = 1 /\ profile = 0 /\ living = {1}
  BY DEF Init, InFlight, Thread
<1>4. Best(1)
  BY <1>3 DEF Best, Held
<1> QED
  BY <1>1, <1>2, <1>3, <1>4 DEF IInv, OInv, Held

LEMMA StepIInv == IInv /\ [Next]_vars => IInv'
<1> SUFFICES ASSUME IInv, [Next]_vars, slips' = {} PROVE \E m \in Held' : Best(m)'
  BY StepOInv DEF IInv
<1>0. TInv /\ TInv' /\ (slips = {} => Order) /\ (slips = {} => \E n \in Held : Best(n))
  BY StepTInv DEF IInv, OInv
<1> USE MaxTokenAssumption, CliAssumption, UncountedAssumption
<1> USE DEF TInv, TypeOK, Shape, ShapeOf, Token, Thread, Stage, Calls, Blank,
            stores, server, history, Go, Note, Trouble, Unseen,
            Order, Behind, Written, Held, Best, InFlight
<1>1. ASSUME NEW t \in Thread, SyncVault(t) PROVE \E m \in Held' : Best(m)'
  BY <1>0, <1>1 DEF SyncVault, ReadVault
<1>2. ASSUME NEW t \in Thread, SyncProfile(t) PROVE \E m \in Held' : Best(m)'
  BY <1>0, <1>2 DEF SyncProfile
<1>3. ASSUME NEW t \in Thread, Sync(t) PROVE \E m \in Held' : Best(m)'
  <2>1. PICK proved \in BOOLEAN : SyncWrites(t, proved)
    BY <1>3, Zenon DEF Sync
  <2>2. UNCHANGED <<server, hand, mem>> /\ at' = [at EXCEPT ![t] = After(t)] /\ at[t] \in Calls
    BY <1>3, Zenon DEF Sync, server
  <2>3. InFlight' = InFlight
    <3>1. /\ \A d \in Cli : at'[d] = "store" <=> at[d] = "store"
          /\ \A d \in Cli : at[d] = "store" => mem'[d] = mem[d]
          /\ at'["usage"] \in {"put", "mirror"} <=> at["usage"] \in {"put", "mirror"}
          /\ hand' = hand
      BY <1>0, <2>2 DEF After
    <3> HIDE DEF InFlight
    <3> QED
      BY <3>1, InFlightStays, Zenon
  <2>4. seen[t].vault <= vault /\ seen[t].profile <= profile /\ slips = {} /\ vault \in Nat /\ profile \in Nat
        /\ seen[t].vault \in Nat /\ seen[t].profile \in Nat
    BY <1>0, <2>1 DEF SyncWrites
  <2>5. CASE UNCHANGED stores
    BY <1>0, <2>2, <2>3, <2>4, <2>5
  <2>6. CASE vault' = seen[t].profile /\ vault <= seen[t].profile /\ UNCHANGED profile
    BY <1>0, <2>2, <2>3, <2>4, <2>6, VaultFollows
  <2>7. CASE profile' = seen[t].vault /\ profile <= seen[t].vault /\ UNCHANGED vault
    BY <1>0, <2>2, <2>3, <2>4, <2>7, ProfileFollows
  <2>8. UNCHANGED stores \/ (vault' = seen[t].profile /\ vault <= seen[t].profile /\ UNCHANGED profile)
        \/ (profile' = seen[t].vault /\ profile <= seen[t].vault /\ UNCHANGED vault)
    BY <2>1, <2>4 DEF SyncWrites, Adoptable, Kept, credential_chain_is_newer
  <2> QED
    BY <2>5, <2>6, <2>7, <2>8
<1>4. ASSUME NEW t \in Thread, SyncFails(t) PROVE \E m \in Held' : Best(m)'
  BY <1>0, <1>4 DEF SyncFails, Released
<1>5. ASSUME NEW c \in Cli, Prepare(c) PROVE \E m \in Held' : Best(m)'
  BY <1>0, <1>5 DEF Prepare, ReadVault
<1>6. ASSUME NEW c \in Cli, Acquire(c) PROVE \E m \in Held' : Best(m)'
  BY <1>0, <1>6 DEF Acquire
<1>7. ASSUME NEW c \in Cli, Load(c) PROVE \E m \in Held' : Best(m)'
  <2>1. /\ at[c] = "load" /\ at' = [at EXCEPT ![c] = "run"] /\ mem' = [mem EXCEPT ![c] = profile]
        /\ UNCHANGED <<vault, profile, living, hand, slips>>
    BY <1>7, Zenon DEF Load, Go, stores, server, history
  <2>2. /\ \A d \in Cli : at'[d] = "store" <=> at[d] = "store"
        /\ \A d \in Cli : at[d] = "store" => mem'[d] = mem[d]
        /\ at'["usage"] \in {"put", "mirror"} <=> at["usage"] \in {"put", "mirror"}
        /\ hand' = hand
    BY <1>0, <2>1
  <2>3. \E n \in Held : Best(n)
    BY <1>0, <2>1
  <2> HIDE DEF InFlight, Held, Best
  <2>4. InFlight' = InFlight
    BY <2>2, InFlightStays, Zenon
  <2> QED
    BY <2>1, <2>3, <2>4, BestKept, Zenon
<1>8. ASSUME NEW c \in Cli, Rotate(c) PROVE \E m \in Held' : Best(m)'
  BY <1>0, <1>8 DEF Rotate, Exchange
<1>9. ASSUME NEW c \in Cli, Store(c) PROVE \E m \in Held' : Best(m)'
  <2>1. slips = {} /\ profile <= mem[c] /\ at[c] = "store"
    <3>1. at[c] = "store" /\ slips' = slips \cup (IF profile > mem[c] /\ profile # 0 THEN {"unseen"} ELSE {})
      BY <1>9, Zenon DEF Store, Note, Unseen
    <3>2. slips = {} /\ ~ (profile > mem[c] /\ profile # 0)
      BY <3>1, Zenon
    <3>3. profile \in Nat /\ mem[c] \in Nat
      BY <1>0
    <3> QED
      BY <3>1, <3>2, <3>3
  <2>2. PICK n \in Held : Best(n)
    BY <1>0, <2>1
  <2>3. mem[c] \in InFlight /\ mem[c] \in Nat /\ profile \in Nat /\ n \in Nat /\ mem[c] <= n
    BY <1>0, <2>1, <2>2
  <2>4. profile' = mem[c] /\ UNCHANGED <<vault, server, hand, mem>> /\ at' = [at EXCEPT ![c] = "run"]
    BY <1>9, Zenon DEF Store, server, Go
  <2>5. InFlight' \subseteq InFlight /\ InFlight \ {mem[c]} \subseteq InFlight'
    BY <1>0, <2>1, <2>4
  <2>6. n \in Held'
    BY <2>1, <2>2, <2>3, <2>4, <2>5
  <2>7. \A other \in Held' : other <= n
    BY <2>2, <2>3, <2>4, <2>5
  <2> QED
    BY <2>2, <2>4, <2>6, <2>7
<1>10. ASSUME NEW c \in Cli, Exit(c) PROVE \E m \in Held' : Best(m)'
  <2>1. /\ slips = {} /\ at[c] # "store" /\ at' = [at EXCEPT ![c] = "idle"]
        /\ mem' = [mem EXCEPT ![c] = 0] /\ UNCHANGED <<vault, profile, living, hand>>
    <3>1. at[c] = "store" => slips' = slips \cup {"killed"} \/ (slips' = slips /\ at[c] = "run")
      BY <1>10, Zenon DEF Exit, Note
    <3>2. at[c] = "run" \/ at[c] = "store"
      BY <1>10, Zenon DEF Exit
    <3>3. at[c] # "store"
      BY <3>1
    <3>4. slips' = slips
      BY <1>10, <3>3, Zenon DEF Exit
    <3> QED
      BY <1>10, <3>3, <3>4, Zenon DEF Exit, Go, stores, server
  <2>2. /\ \A d \in Cli : at'[d] = "store" <=> at[d] = "store"
        /\ \A d \in Cli : at[d] = "store" => mem'[d] = mem[d]
        /\ at'["usage"] \in {"put", "mirror"} <=> at["usage"] \in {"put", "mirror"}
        /\ hand' = hand
    BY <1>0, <2>1
  <2>3. \E n \in Held : Best(n)
    BY <1>0, <2>1
  <2> HIDE DEF InFlight, Held, Best
  <2>4. InFlight' = InFlight
    BY <2>2, InFlightStays, Zenon
  <2> QED
    BY <2>1, <2>3, <2>4, BestKept, Zenon
<1>11. CASE RefreshUsage
  BY <1>0, <1>11 DEF RefreshUsage
<1>12. CASE AskUsage
  BY <1>0, <1>12 DEF AskUsage
<1>13. CASE Check
  BY <1>0, <1>13 DEF Check
<1>14. CASE Submit
  BY <1>0, <1>14 DEF Submit, Exchange
<1>15. CASE Put
  BY <1>0, <1>15 DEF Put
<1>16. CASE Mirror
  BY <1>0, <1>16 DEF Mirror
<1>17. CASE Settle
  BY <1>0, <1>17 DEF Settle
<1>18. CASE Verify
  BY <1>0, <1>18 DEF Verify
<1>19. CASE Recoverable
  BY <1>0, <1>19 DEF Recoverable
<1>20. CASE Adopt
  <2> DEFINE p == seen["verify"].profile
  <2>1. /\ vault' = p /\ at["verify"] = "adopt" /\ at' = [at EXCEPT !["verify"] = "isolate"]
        /\ UNCHANGED <<profile, server, hand, mem>>
        /\ slips' = slips \cup (IF vault > p THEN {"recovered"} ELSE {})
    BY <1>20, Zenon DEF Adopt, Go, Note, server
  <2>2. slips = {} /\ ~ (vault > p)
    BY <2>1, Zenon
  <2>3. vault \in Nat /\ p \in Nat /\ profile \in Nat /\ p <= profile
    BY <1>0, <2>2
  <2>4. InFlight' = InFlight
    <3>1. /\ \A d \in Cli : at'[d] = "store" <=> at[d] = "store"
          /\ \A d \in Cli : at[d] = "store" => mem'[d] = mem[d]
          /\ at'["usage"] \in {"put", "mirror"} <=> at["usage"] \in {"put", "mirror"}
          /\ hand' = hand
      BY <1>0, <2>1
    <3> HIDE DEF InFlight
    <3> QED
      BY <3>1, InFlightStays, Zenon
  <2>5. PICK n \in Held : Best(n)
    BY <1>0, <2>2
  <2>6. n \in Nat /\ profile <= n
    <3>1. n \in Nat
      BY <1>0, <2>5, HeldAreNat, Zenon
    <3>2. profile <= n
      BY <2>5, Zenon
    <3> QED
      BY <3>1, <3>2
  <2>7. n \in Held' /\ \A other \in Held' : other <= n
    BY <2>1, <2>2, <2>3, <2>4, <2>5, <2>6
  <2> QED
    BY <2>1, <2>5, <2>7
<1>21. CASE Mark
  BY <1>0, <1>21 DEF Mark
<1>22. CASE Login
  BY <1>0, <1>22 DEF Login
<1>23. CASE Crash
  <2>1. /\ at' = [u \in Thread |-> "idle"] /\ UNCHANGED <<stores, server>>
        /\ slips' = slips \cup (IF at["usage"] = "put" \/ \E c \in Cli : at[c] = "store" THEN {"killed"} ELSE {})
    BY <1>23, Zenon DEF Crash, Note
  <2>2. slips = {} /\ at["usage"] # "put" /\ \A c \in Cli : at[c] # "store"
    BY <2>1, Zenon
  <2>3. PICK n \in Held : Best(n)
    BY <1>0, <2>2
  <2>4. InFlight' = {}
    BY <2>1
  <2>5. \A other \in InFlight : other <= vault
    BY <1>0, <2>2
  <2>6. n \in {vault, profile}
    <3>1. n \in Nat /\ vault \in Nat /\ vault <= n
      BY <1>0, <2>3, HeldAreNat
    <3>2. n \in InFlight => n = vault
      BY <2>5, <3>1
    <3> QED
      BY <2>3, <3>2
  <2> QED
    BY <2>1, <2>3, <2>4, <2>6
<1>24. CASE UNCHANGED vars
  BY <1>0, <1>24 DEF vars
<1> QED
  BY <1>1, <1>2, <1>3, <1>4, <1>5, <1>6, <1>7, <1>8, <1>9, <1>10, <1>11, <1>12, <1>13, <1>14, <1>15, <1>16, <1>17, <1>18, <1>19, <1>20, <1>21, <1>22, <1>23, <1>24
     DEF Next, Usage, Recovery, Run, Syncing

-----------------------------------------------------------------------------
\* Every variable has its type, and the runs that are counted are exactly those
\* between acquire_runtime and release_runtime (accounts.rs 3245-3275, 3530-3545).
THEOREM CredentialTypeOK == Spec => []TypeOK
<1>1. TInv => TypeOK
  BY DEF TInv
<1> QED
  BY InitTInv, StepTInv, <1>1, PTL DEF Spec

\* The invariant the two properties rest on.
THEOREM CredentialInvariant == Spec => []IInv
BY InitIInv, StepIInv, PTL DEF Spec

\* As long as no token is lost in one of the ways that Slip names, the newest
\* token among the vault, the profile and those on their way to them is one the
\* server accepts: sync_profile_credential, which goes by that order, finds it.
THEOREM AccountKeepsAToken == Spec => []NewestLives
<1>1. IInv => NewestLives
  BY DEF IInv, NewestLives, Held, Best
<1> QED
  BY CredentialInvariant, <1>1, PTL

\* The application never has a token exchanged that a run of the account holds,
\* if the run was not acquired while a refresh was past its look at the count.
THEOREM RunsAreLeftAlone == Spec => []AppDefers
<1>1. IInv => AppDefers
  <2> SUFFICES ASSUME IInv, slips = {}, NEW c \in counted \ overtaken, at[c] \in {"run", "store"},
                      mem[c] \in taken
               PROVE  FALSE
    BY DEF AppDefers
  <2>1. c \in Cli /\ mem[c] \in Nat
    BY MaxTokenAssumption DEF IInv, OInv, TInv, TypeOK, Token
  <2>2. mem[c] < mem[c]
    BY <2>1 DEF IInv, OInv, Order, Fresh
  <2> QED
    BY <2>1, <2>2
<1> QED
  BY CredentialInvariant, <1>1, PTL
=============================================================================
