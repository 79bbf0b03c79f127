------------------------- MODULE AccountCredentials -------------------------
(* The credential of one registered Claude account (accounts.rs).  It is in  *)
(* two places: the vault, which the application reads, and the account's     *)
(* profile, which the CLIs read and write.  Its refresh token is good for    *)
(* one use: the server takes it and hands out the next.  The application     *)
(* rotates it when it asks for the usage, a CLI when it needs to, and three  *)
(* kinds of threads bring the two places together, no lock around them: the  *)
(* question is whether the account keeps a token the server still accepts.   *)
(* A token is its place in the order of issue, which is what                 *)
(* credential_chain_issued_at compares.  An action is one read or write of   *)
(* one of the places, one lock section, or one call to the server.           *)
EXTENDS FiniteSets, Naturals

CONSTANTS
  Cli,        \* runs of a CLI on the account; an id is used again
  Uncounted,  \* those of translation.rs, for which no runtime is acquired
  MaxToken,   \* how many tokens the server issues
  MaxTroubles \* how many logins, crashes and failures there are

ASSUME UncountedAssumption == Uncounted \subseteq Cli
ASSUME MaxTokenAssumption == MaxToken \in Nat \ {0}
ASSUME MaxTroublesAssumption == MaxTroubles \in Nat
ASSUME CliAssumption == Cli \cap {"usage", "verify"} = {}

VARIABLES
  vault,      \* the token in the vault
  profile,    \* the token in the profile, 0 before there is one
  living,     \* the tokens the server accepts
  issued,     \* how many it has issued
  status,     \* AccountRecord.auth_status, Ready or not, and the copy refresh_usage made
  counted,    \* runtime_account_counts, as the set of runs
  at,         \* what a thread is doing
  seen,       \* what it has read of the two places and not yet used
  hand,       \* the token the usage thread submits, then the one it was given
  mem,        \* the token a CLI has in its memory
  slips,      \* history: how a token was lost (see Slip)
  taken,      \* history: the tokens the application has submitted
  overtaken,  \* history: the runs acquired while a refresh was past its look at the count
  troubles    \* how many logins, crashes and failures there were

stores == <<vault, profile>>
server == <<living, issued>>
history == <<slips, taken, overtaken>>
vars == <<stores, server, status, counted, at, seen, hand, mem, history, troubles>>

Token == 1..MaxToken
Thread == Cli \cup {"usage", "verify"}

\* The call of sync_profile_credential: before a run is counted, before it is
\* started, before the usage is asked for, after a recovery.
Calls == {"prepare", "launch", "align", "isolate"}
Stage == Calls \cup {"idle", "count", "load", "run", "store", "get", "check",
                     "submit", "put", "mirror", "done", "rejected", "failed", "guard", "adopt", "mark"}

\* Nothing read yet.
Blank == [vault |-> 0, profile |-> 0, read |-> FALSE]

\* How the application can lose a token all the same: it wrote over a newer token
\* that it had not seen (nothing holds the two places still between the read and
\* the write), it took a profile it could not read for an empty one, it put an
\* older profile into the vault in a recovery; a write failed; an answer of the
\* server was lost; a CLI or the backend ended between the answer and the write.
Slip == {"unseen", "unreadable", "recovered", "unwritten", "lost", "killed"}

TypeOK ==
  /\ vault \in Token /\ profile \in Token \cup {0}
  /\ living \subseteq 1..issued /\ issued \in Token
  /\ status \in [now : {"ready", "error"}, copy : {"ready", "error"}]
  /\ counted = {c \in Cli \ Uncounted : at[c] \in {"launch", "load", "run", "store"}}
  /\ at \in [Thread -> Stage]
  /\ seen \in [Thread -> [vault : Token \cup {0}, profile : Token \cup {0}, read : BOOLEAN]]
  /\ hand \in Token \cup {0} /\ mem \in [Cli -> Token \cup {0}]
  /\ slips \subseteq Slip /\ taken \subseteq Token /\ overtaken \subseteq Cli
  /\ troubles \in 0..MaxTroubles

Init ==
  /\ vault = 1 /\ profile = 0 /\ living = {1} /\ issued = 1
  /\ status \in [now : {"ready", "error"}, copy : {"ready"}] /\ counted = {}
  /\ at = [t \in Thread |-> "idle"] /\ seen = [t \in Thread |-> Blank]
  /\ hand = 0 /\ mem = [c \in Cli |-> 0]
  /\ slips = {} /\ taken = {} /\ overtaken = {}
  /\ troubles = 0

Go(t, stage) == at' = [at EXCEPT ![t] = stage]
Trouble == troubles < MaxTroubles /\ troubles' = troubles + 1
Note(what) == slips' = slips \cup what

\* Mutant: nobody gives the runtime back.
KeepsCount(t) == UNCHANGED counted

\* release_runtime
Released(t) == counted' = counted \ {t}

\* Writing a token over one the writer has not seen and that is newer.
Unseen(known, present, new) == IF present > new /\ present # known THEN {"unseen"} ELSE {}

\* The server takes a token it has issued and not taken yet, and issues the next.
Exchange(token) ==
  /\ token \in living /\ issued < MaxToken
  /\ issued' = issued + 1 /\ living' = (living \ {token}) \cup {issued + 1}

-----------------------------------------------------------------------------
(* sync_profile_credential, from its four callers.                         *)

\* What comes after the call.
After(t) ==
  CASE at[t] = "prepare" -> IF t \in Uncounted THEN "load" ELSE "count"
    [] at[t] = "launch" -> "load"
    [] at[t] = "align" -> "get"
    [] at[t] = "isolate" -> "mark"

ReadVault(t) == seen' = [seen EXCEPT ![t].vault = vault]

SyncVault(t) ==
  /\ at[t] \in Calls /\ seen[t] = Blank /\ ReadVault(t)
  /\ UNCHANGED <<stores, server, status, counted, at, hand, mem, history, troubles>>

\* A profile that cannot be read is taken for one that is not there.
SyncProfile(t) ==
  /\ at[t] \in Calls /\ seen[t].vault # 0 /\ ~ seen[t].read
  /\ \/ seen' = [seen EXCEPT ![t].profile = profile, ![t].read = TRUE] /\ UNCHANGED <<slips, troubles>>
     \/ /\ profile # 0 /\ Trouble /\ Note({"unreadable"})
        /\ seen' = [seen EXCEPT ![t].read = TRUE]
  /\ UNCHANGED <<stores, server, status, counted, at, hand, mem, taken, overtaken>>

credential_chain_is_newer(candidate, current) == candidate > current

\* Mutant: what can still be used is adopted, whatever its age.
AdoptableIfUsable(t, proved) == proved

\* Which of two different chains goes on: the profile's, if it is newer, goes to
\* the vault when the account is proved to be its owner, and stays where it is
\* when not; else the vault's goes to the profile.
Adoptable(t, proved) == credential_chain_is_newer(seen[t].profile, seen[t].vault) /\ proved
Kept(t) == credential_chain_is_newer(seen[t].profile, seen[t].vault)

SyncWrites(t, proved) ==
  LET v == seen[t].vault
      p == seen[t].profile
      same == p = v
      adopted == p # 0 /\ ~ same /\ Adoptable(t, proved)
      kept == p # 0 /\ ~ same /\ ~ adopted /\ Kept(t)
  IN  \/ (same \/ kept) /\ UNCHANGED <<stores, slips>>
      \/ adopted /\ vault' = p /\ Note(Unseen(v, vault, p)) /\ UNCHANGED profile
      \/ /\ ~ same /\ ~ adopted /\ ~ kept
         /\ profile' = v /\ Note(Unseen(p, profile, v)) /\ UNCHANGED vault

\* Whether the owner is proved may need the server, and so may turn out either way.
Sync(t) ==
  /\ at[t] \in Calls /\ seen[t].read
  /\ \E proved \in BOOLEAN : SyncWrites(t, proved)
  /\ seen' = [seen EXCEPT ![t] = Blank] /\ Go(t, After(t))
  /\ UNCHANGED <<server, status, counted, hand, mem, taken, overtaken, troubles>>

\* The place that is behind could not be written: the usage is asked for all the
\* same, a run whose profile was good before goes on to be counted, others are
\* refused, and a recovery goes no further.
SyncFails(t) ==
  /\ at[t] \in Calls /\ seen[t].read /\ seen[t].profile # seen[t].vault
  /\ Trouble /\ Released(t)
  /\ seen' = [seen EXCEPT ![t] = Blank]
  /\ \/ at[t] = "align" /\ Go(t, "get")
     \/ at[t] = "prepare" /\ t \notin Uncounted /\ profile # 0 /\ Go(t, "count")
     \/ at[t] # "align" /\ Go(t, "idle")
  /\ UNCHANGED <<stores, server, status, hand, mem, history>>

-----------------------------------------------------------------------------
(* A run of a CLI on the account.                                          *)

\* acquire_runtime prepares the profile before it takes its locks, and
\* apply_system_credential_env takes none.
Prepare(c) ==
  /\ at[c] = "idle" /\ Go(c, "prepare") /\ ReadVault(c)
  /\ UNCHANGED <<stores, server, status, counted, hand, mem, history, troubles>>

\* The stages of a refresh after its look at the count.
Refreshing == at["usage"] \in {"submit", "put", "mirror"}

\* The guard of the account switch, which a recovery holds meanwhile.
SwitchFree == at["verify"] \notin {"adopt", "isolate", "mark"}

\* acquire_runtime counts the run.
Acquire(c) ==
  /\ at[c] = "count" /\ SwitchFree
  /\ counted' = counted \cup {c} /\ Go(c, "launch")
  /\ overtaken' = IF Refreshing THEN overtaken \cup {c} ELSE overtaken \ {c}
  /\ UNCHANGED <<stores, server, status, seen, hand, mem, slips, taken, troubles>>

\* The process starts and reads its profile.
Load(c) ==
  /\ at[c] = "load" /\ profile # 0
  /\ mem' = [mem EXCEPT ![c] = profile] /\ Go(c, "run")
  /\ UNCHANGED <<stores, server, status, counted, seen, hand, history, troubles>>

\* It has its token exchanged and writes the new one to the profile.
Rotate(c) ==
  /\ at[c] = "run" /\ Exchange(mem[c])
  /\ mem' = [mem EXCEPT ![c] = issued + 1] /\ Go(c, "store")
  /\ UNCHANGED <<stores, status, counted, seen, hand, history, troubles>>

Store(c) ==
  /\ at[c] = "store" /\ profile' = mem[c] /\ Go(c, "run")
  /\ Note(Unseen(0, profile, mem[c]))
  /\ UNCHANGED <<vault, server, status, counted, seen, hand, mem, taken, overtaken, troubles>>

\* It ends, and release_runtime follows; it may be killed before it has written.
Exit(c) ==
  /\ \/ at[c] = "run" /\ UNCHANGED <<slips, troubles>>
     \/ at[c] = "store" /\ Trouble /\ Note({"killed"})
  /\ Released(c) /\ Go(c, "idle")
  /\ mem' = [mem EXCEPT ![c] = 0] /\ overtaken' = overtaken \ {c}
  /\ UNCHANGED <<stores, server, status, seen, hand, taken>>

-----------------------------------------------------------------------------
(* refresh_usage; the usage lock of the account keeps it to one at a time.  *)

\* With a profile on disk the two places are brought together first.
RefreshUsage ==
  /\ at["usage"] = "idle" /\ Go("usage", IF profile = 0 THEN "get" ELSE "align")
  /\ status' = [status EXCEPT !.copy = status.now]
  /\ UNCHANGED <<stores, server, counted, seen, hand, mem, history, troubles>>

\* fetch_claude_usage_with_refresh: the usage is told, or the access token has
\* expired or is refused, or the call fails; the access token of a chain that has
\* gone on may be good for a while.
AskUsage ==
  /\ at["usage"] = "get"
  /\ \E stage \in {"done", "check", "failed"} :
       Go("usage", stage) /\ hand' = IF stage = "check" THEN vault ELSE 0
  /\ UNCHANGED <<stores, server, status, counted, seen, mem, history, troubles>>

\* Mutant: the runs of the account are not looked at.
NeverDeferred(account_runtime_running) == FALSE

claude_refresh_deferral(account_runtime_running) == account_runtime_running

\* claude_refresh_deferred; a wait the server asked for ends here as well.
Check ==
  /\ at["usage"] = "check"
  /\ \/ Go("usage", "failed") /\ hand' = 0
     \/ ~ claude_refresh_deferral(counted # {}) /\ Go("usage", "submit") /\ UNCHANGED hand
  /\ UNCHANGED <<stores, server, status, counted, seen, mem, history, troubles>>

\* refresh_claude_oauth_secret: the token is exchanged, refused, or the call fails;
\* the answer may be lost.
Submit ==
  /\ at["usage"] = "submit"
  /\ \/ /\ Exchange(hand) /\ taken' = taken \cup {hand}
        /\ \/ hand' = issued' /\ Go("usage", "put") /\ UNCHANGED <<slips, troubles>>
           \/ hand' = 0 /\ Go("usage", "failed") /\ Trouble /\ Note({"lost"})
     \/ /\ hand \notin living /\ hand' = 0 /\ Go("usage", "rejected")
        /\ UNCHANGED <<server, slips, taken, troubles>>
     \/ /\ hand' = 0 /\ Go("usage", "failed")
        /\ UNCHANGED <<server, slips, taken, troubles>>
  /\ UNCHANGED <<stores, status, counted, seen, mem, overtaken>>

\* commit_refreshed_claude_credential: the vault first, then the profile.
Put ==
  /\ at["usage"] = "put"
  /\ \/ /\ vault' = hand /\ Note(Unseen(0, vault, hand)) /\ Go("usage", "mirror")
        /\ UNCHANGED <<hand, troubles>>
     \/ /\ Trouble /\ Note({"unwritten"}) /\ Go("usage", "failed")
        /\ hand' = 0 /\ UNCHANGED vault
  /\ UNCHANGED <<profile, server, status, counted, seen, mem, taken, overtaken>>

\* mirror_credential_to_profile, which leaves a profile that is not there alone
Mirror ==
  /\ at["usage"] = "mirror" /\ hand' = 0
  /\ \/ /\ profile' = (IF profile = 0 THEN 0 ELSE hand) /\ Note(Unseen(0, profile, hand))
        /\ \E stage \in {"done", "rejected", "failed"} : Go("usage", stage)
        /\ UNCHANGED troubles
     \/ profile # 0 /\ Trouble /\ Go("usage", "failed") /\ UNCHANGED <<profile, slips>>
  /\ UNCHANGED <<vault, server, status, counted, seen, mem, taken, overtaken>>

\* reconciled_auth_status_after_usage; a failure says nothing, and what is written
\* back is the status of the copy.
Settle ==
  /\ at["usage"] \in {"done", "rejected", "failed"} /\ Go("usage", "idle")
  /\ status' = [copy |-> "ready",
                now |-> CASE at["usage"] = "done" -> "ready"
                          [] at["usage"] = "rejected" -> "error"
                          [] at["usage"] = "failed" -> status.copy]
  /\ UNCHANGED <<stores, server, counted, seen, hand, mem, history, troubles>>

-----------------------------------------------------------------------------
(* Recoveries, logins, crashes.                                            *)

\* verify_registered_active_accounts: the status is looked at before the guard
\* of the switch is taken, and not again.
Verify ==
  /\ at["verify"] = "idle" /\ status.now = "error" /\ Go("verify", "guard")
  /\ UNCHANGED <<stores, server, status, counted, seen, hand, mem, history, troubles>>

\* recoverable_profile_credential: whether the access token is good and the owner
\* proved may turn out either way.
Recoverable ==
  /\ at["verify"] = "guard"
  /\ \/ Go("verify", "idle") /\ UNCHANGED seen
     \/ /\ profile # 0 /\ Go("verify", "adopt")
        /\ seen' = [seen EXCEPT !["verify"].profile = profile]
  /\ UNCHANGED <<stores, server, status, counted, hand, mem, history, troubles>>

\* recover_active_credential_from_profile
Adopt ==
  LET p == seen["verify"].profile
  IN  /\ at["verify"] = "adopt" /\ vault' = p
      /\ Note(IF vault > p THEN {"recovered"} ELSE {})
      /\ seen' = [seen EXCEPT !["verify"] = Blank] /\ Go("verify", "isolate")
      /\ UNCHANGED <<profile, server, status, counted, hand, mem, taken, overtaken, troubles>>

Mark ==
  /\ at["verify"] = "mark" /\ status' = [status EXCEPT !.now = "ready"] /\ Go("verify", "idle")
  /\ UNCHANGED <<stores, server, counted, seen, hand, mem, history, troubles>>

\* finish_login, upsert_captured_account: a chain of its own, older ones may live on.
Login ==
  /\ SwitchFree /\ Trouble /\ issued < MaxToken
  /\ issued' = issued + 1 /\ living' = living \cup {issued + 1}
  /\ vault' = issued + 1 /\ status' = [status EXCEPT !.now = "ready"]
  /\ UNCHANGED <<profile, counted, at, seen, hand, mem, history>>

\* The backend ends, its CLIs with it.
Crash ==
  /\ Trouble
  /\ at' = [t \in Thread |-> "idle"] /\ seen' = [t \in Thread |-> Blank]
  /\ hand' = 0 /\ mem' = [c \in Cli |-> 0] /\ counted' = {} /\ overtaken' = {}
  /\ Note(IF at["usage"] = "put" \/ \E c \in Cli : at[c] = "store" THEN {"killed"} ELSE {})
  /\ status' = [status EXCEPT !.copy = "ready"]
  /\ UNCHANGED <<stores, server, taken>>

Usage == RefreshUsage \/ AskUsage \/ Check \/ Submit \/ Put \/ Mirror \/ Settle
Recovery == Verify \/ Recoverable \/ Adopt \/ Mark
Run(c) == Prepare(c) \/ Acquire(c) \/ Load(c) \/ Rotate(c) \/ Store(c) \/ Exit(c)
Syncing(t) == SyncVault(t) \/ SyncProfile(t) \/ Sync(t) \/ SyncFails(t)

Next == Usage \/ Recovery \/ Login \/ Crash \/ (\E c \in Cli : Run(c)) \/ \E t \in Thread : Syncing(t)

Spec == Init /\ [][Next]_vars

-----------------------------------------------------------------------------

\* Tokens on their way from the server to one of the places.
InFlight == {mem[c] : c \in {d \in Cli : at[d] = "store"}}
              \cup IF at["usage"] \in {"put", "mirror"} THEN {hand} ELSE {}

\* The account keeps a token the server accepts, and it is the newest of those in
\* the vault, in the profile or on their way to them, so that the comparison of
\* sync_profile_credential finds it; unless it was lost in one of the ways that
\* Slip names.
NewestLives ==
  slips = {} => \E token \in {vault, profile} \cup InFlight :
                  token \in living /\ \A other \in {vault, profile} \cup InFlight : other <= token

\* While a run of the account holds a token the application does not have it
\* exchanged, so that the CLI is not cut off; but a refresh that has looked at the
\* count goes on beside a run that is acquired after that.
AppDefers ==
  slips = {} => \A c \in counted \ overtaken : at[c] \in {"run", "store"} => mem[c] \notin taken
=============================================================================
