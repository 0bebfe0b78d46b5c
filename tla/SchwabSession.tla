--------------------------- MODULE SchwabSession ---------------------------
(***************************************************************************)
(* The Schwab session: access and refresh token with their local expiry,   *)
(* kept in a token file and, on macOS, in the keychain.  Every call of the *)
(* API server or the desktop that needs Schwab makes a client of its own,  *)
(* loads the tokens, refreshes them when the access token ran out, and     *)
(* saves them; completing the OAuth flow exchanges a code for new ones.    *)
(* Schwab is configured throughout.                                        *)
(***************************************************************************)
EXTENDS SecretFile

CONSTANTS
  Servers,      \* the processes that offer the OAuth workflow
  AccessLife,   \* how long an access token lasts, the safety margin taken off
  RefreshLife,  \* how long the code takes a refresh token to last
  MaxCalls,     \* bound: calls ever begun
  MaxGrants,    \* bound: token responses of the broker
  MaxTime,      \* bound: time
  MaxFaults     \* bound: crashes, lost answers, failed writes

TokenSet == [access : Nat, refresh : Nat, accessUntil : Nat, refreshUntil : Nat]

ASSUME ServersAssumption == Servers \subseteq Procs
ASSUME LivesAssumption == AccessLife \in Nat /\ RefreshLife \in Nat
ASSUME SessionBounds == {MaxCalls, MaxGrants, MaxTime, MaxFaults} \subseteq Nat

VARIABLES
  dir,        \* the directory of the token file
  keychain,   \* the keychain: in use or not, and the copy it holds
  pc,         \* what each process is doing
  call,       \* the call it serves, and whether it is to save or to sync
  mem,        \* the tokens of its client
  text,       \* the text it is about to write
  now,        \* system_clock
  grants,     \* the broker: token responses so far; they number the tokens
  honoured,   \* the broker: the refresh token it honours, 0 for none
  granted,    \* history: the token sets that made successful responses
  newest,     \* history: when the last one came
  clashed,    \* history: two writers had the temporary file, or one failed
  overlapped, \* history: two processes served calls at the same time
  calls,      \* number of calls so far
  faults      \* number of faults so far

disk == <<dir, keychain>>
broker == <<grants, honoured, granted, newest>>
session == <<pc, call, mem, text>>
history == <<clashed, overlapped, calls>>
vars == <<disk, session, now, broker, history, faults>>

NoTokens == [access |-> 0, refresh |-> 0, accessUntil |-> 0, refreshUntil |-> 0]

Init ==
  /\ dir = NewDirectory
  /\ keychain \in [used : BOOLEAN, copy : {Absent}]
  /\ pc = [p \in Procs |-> "idle"]
  /\ call = [p \in Procs |-> [kind |-> "none", saves |-> FALSE]]
  /\ mem = [p \in Procs |-> NoTokens]
  /\ text = [p \in Procs |-> Absent]
  /\ now = 1
  /\ grants = 0 /\ honoured = 0 /\ granted = {} /\ newest = 0
  /\ clashed = FALSE /\ overlapped = FALSE
  /\ calls = 0 /\ faults = 0

Goto(p, phase) == pc' = [pc EXCEPT ![p] = phase]
Fault == faults < MaxFaults /\ faults' = faults + 1

Finish(p) ==
  /\ Goto(p, "idle")
  /\ call' = [call EXCEPT ![p] = [kind |-> "none", saves |-> FALSE]]
  /\ mem' = [mem EXCEPT ![p] = NoTokens]
  /\ text' = [text EXCEPT ![p] = Absent]

------------------------------------------------------------------------------
(* ResolveTokenPath: a copy in the keychain replaces the file; a file      *)
(* without one is copied to it.                                            *)

Begin(p, kind) ==
  /\ pc[p] = "idle" /\ calls < MaxCalls
  /\ calls' = calls + 1
  /\ overlapped' = (overlapped \/ \E q \in Procs : pc[q] # "idle")
  /\ call' = [call EXCEPT ![p] = [kind |-> kind, saves |-> FALSE]]
  /\ IF keychain.copy # Absent
     THEN /\ text' = [text EXCEPT ![p] = keychain.copy]
          /\ Goto(p, "open")
          /\ UNCHANGED keychain
     ELSE /\ keychain' = IF keychain.used THEN [keychain EXCEPT !.copy = dir.secret]
                         ELSE keychain
          /\ Goto(p, "load")
          /\ UNCHANGED text
  /\ UNCHANGED <<dir, mem, now, broker, clashed, faults>>

UseSchwab(p) == Begin(p, "use")
GetConnections(p) == Begin(p, "status")
CompleteOAuth(p) == p \in Servers /\ Begin(p, "complete")

------------------------------------------------------------------------------
(* WriteSecureText, for the copy of the keychain and for new tokens.       *)

InWriting(p) == pc[p] \in {"flush", "rename", "clear", "retry", "discard"}

OpenTemp(p) ==
  /\ pc[p] = "open"
  /\ dir' = Opened(dir, p)
  /\ clashed' = (clashed \/ \E q \in Procs : InWriting(q))
  /\ Goto(p, "flush")
  /\ UNCHANGED <<keychain, call, mem, text, now, broker, overlapped, calls, faults>>

Flush(p) ==
  /\ pc[p] = "flush"
  /\ dir' \in Flushed(dir, p, text[p])
  /\ Goto(p, "rename")
  /\ UNCHANGED <<keychain, call, mem, text, now, broker, history, faults>>

(* A full device: the stream's failure is not looked at. *)
FlushFails(p) ==
  /\ pc[p] = "flush" /\ Fault
  /\ dir' = Closed(dir, p)
  /\ clashed' = TRUE
  /\ Goto(p, "rename")
  /\ UNCHANGED <<keychain, call, mem, text, now, broker, overlapped, calls>>

Written(p) == Goto(p, IF call[p].saves THEN "remember" ELSE "load")

(* The temporary file cannot be opened. *)
OpenFails(p) ==
  /\ pc[p] = "open" /\ Fault
  /\ Written(p)
  /\ UNCHANGED <<disk, call, mem, text, now, broker, history>>

(* Faulty: the old secret is removed before the new one takes its name. *)
RenameRemovesFirst(p) ==
  /\ pc[p] = "rename"
  /\ dir' = Removed(dir)
  /\ Goto(p, "retry")
  /\ UNCHANGED <<keychain, call, mem, text, now, broker, history, faults>>

Rename(p) ==
  /\ pc[p] = "rename"
  /\ IF dir.temp # Absent THEN dir' = Renamed(dir) /\ Written(p)
     ELSE Goto(p, "clear") /\ UNCHANGED dir
  /\ UNCHANGED <<keychain, call, mem, text, now, broker, history, faults>>

(* Whatever made the rename fail, the secret is removed for a second try;  *)
(* after that the temporary file is, whose ever it is by now.  The other   *)
(* process may run in between.                                             *)
Clear(p) ==
  /\ pc[p] = "clear"
  /\ dir' = Removed(dir)
  /\ Goto(p, "retry")
  /\ UNCHANGED <<keychain, call, mem, text, now, broker, history, faults>>

Retry(p) ==
  /\ pc[p] = "retry"
  /\ IF dir.temp # Absent THEN dir' = Renamed(dir) /\ Written(p)
     ELSE Goto(p, "discard") /\ UNCHANGED dir
  /\ UNCHANGED <<keychain, call, mem, text, now, broker, history, faults>>

Discard(p) ==
  /\ pc[p] = "discard"
  /\ dir' = Discarded(dir)
  /\ Written(p)
  /\ UNCHANGED <<keychain, call, mem, text, now, broker, history, faults>>

(* SaveSecret follows, whether the file was written or not. *)
Remember(p) ==
  /\ pc[p] = "remember"
  /\ keychain' = IF keychain.used THEN [keychain EXCEPT !.copy = text[p]] ELSE keychain
  /\ Finish(p)
  /\ UNCHANGED <<dir, now, broker, history, faults>>

RememberFails(p) ==
  /\ pc[p] = "remember" /\ keychain.used /\ Fault
  /\ Finish(p)
  /\ UNCHANGED <<disk, now, broker, history>>

------------------------------------------------------------------------------
(* The client.                                                             *)

Loaded == IF dir.secret.kind = "ok" THEN dir.secret.says ELSE NoTokens

HasValidAccessToken(t) == t.access # 0 /\ now < t.accessUntil
HasValidRefreshToken(t) == t.refresh # 0 /\ now < t.refreshUntil

Status ==
  IF HasValidAccessToken(Loaded) THEN "connected"
  ELSE IF HasValidRefreshToken(Loaded) THEN "degraded"
  ELSE IF dir.secret # Absent THEN "reauthRequired" ELSE "notConnected"

(* LoadAuthorizedClient asks for new tokens, CompleteOAuth has a code.     *)
Asks(kind) == \/ kind = "complete"
              \/ /\ kind = "use"
                 /\ ~HasValidAccessToken(Loaded)
                 /\ HasValidRefreshToken(Loaded)

Load(p) ==
  /\ pc[p] = "load"
  /\ IF Asks(call[p].kind)
     THEN /\ mem' = [mem EXCEPT ![p] = Loaded]
          /\ Goto(p, "ask")
          /\ UNCHANGED <<call, text>>
     ELSE Finish(p)
  /\ UNCHANGED <<disk, now, broker, history, faults>>

(* Faulty: a refresh token in the response is overlooked. *)
ParsedOldToken(old, access, refresh) ==
  [access |-> access, refresh |-> IF old.refresh = 0 THEN refresh ELSE old.refresh,
   accessUntil |-> now + AccessLife, refreshUntil |-> now + RefreshLife]

(* Faulty: only a new refresh token starts a new week. *)
ParsedOldWeek(old, access, refresh) ==
  [access |-> access, refresh |-> IF refresh = 0 THEN old.refresh ELSE refresh,
   accessUntil |-> now + AccessLife,
   refreshUntil |-> IF refresh = 0 THEN old.refreshUntil ELSE now + RefreshLife]

(* Faulty: the margin is taken off a lifetime in other units. *)
ParsedInMinutes(old, access, refresh) ==
  [access |-> access, refresh |-> IF refresh = 0 THEN old.refresh ELSE refresh,
   accessUntil |-> now + AccessLife - 60, refreshUntil |-> now + RefreshLife]

(* ParseTokenResponse: a response without a refresh token leaves the old   *)
(* one in place; both windows start again.                                 *)
Parsed(old, access, refresh) ==
  [access |-> access, refresh |-> IF refresh = 0 THEN old.refresh ELSE refresh,
   accessUntil |-> now + AccessLife, refreshUntil |-> now + RefreshLife]

(* The broker grants tokens: for a code always a new refresh token, for a  *)
(* refresh token it honours a new one or none.                             *)
NewRefreshToken(p, g) ==
  IF call[p].kind = "complete" THEN {g}
  ELSE IF mem[p].refresh = honoured THEN {0, g} ELSE {}

Granted(p) ==
  /\ pc[p] = "ask" /\ grants < MaxGrants
  /\ \E refresh \in NewRefreshToken(p, grants + 1) :
       LET new == Parsed(mem[p], grants + 1, refresh)
       IN  /\ mem' = [mem EXCEPT ![p] = new]
           /\ text' = [text EXCEPT ![p] = Saying(new)]
           /\ honoured' = IF refresh = 0 THEN honoured ELSE refresh
           /\ granted' = granted \cup {new}
  /\ grants' = grants + 1 /\ newest' = now
  /\ call' = [call EXCEPT ![p].saves = TRUE]
  /\ Goto(p, "open")
  /\ UNCHANGED <<disk, now, history, faults>>

(* The broker did, but its answer gets lost. *)
AnswerLost(p) ==
  /\ pc[p] = "ask" /\ grants < MaxGrants /\ Fault
  /\ \E refresh \in NewRefreshToken(p, grants + 1) :
       honoured' = IF refresh = 0 THEN honoured ELSE refresh
  /\ grants' = grants + 1
  /\ Finish(p)
  /\ UNCHANGED <<disk, now, granted, newest, history>>

(* Faulty: what a response without an access token left in the client is   *)
(* saved.                                                                  *)
RefusalSaved(p) ==
  /\ pc[p] = "ask"
  /\ mem' = [mem EXCEPT ![p] = Parsed(mem[p], 0, 0)]
  /\ text' = [text EXCEPT ![p] = Saying(Parsed(mem[p], 0, 0))]
  /\ call' = [call EXCEPT ![p].saves = TRUE]
  /\ Goto(p, "open")
  /\ UNCHANGED <<disk, now, broker, history, faults>>

(* An error, no answer, or a response without an access token: the client  *)
(* is dropped with what it parsed.                                         *)
Refused(p) ==
  /\ pc[p] = "ask"
  /\ Finish(p)
  /\ UNCHANGED <<disk, now, broker, history, faults>>

------------------------------------------------------------------------------
Crash(p) ==
  /\ pc[p] # "idle" /\ Fault
  /\ dir' = Closed(dir, p)
  /\ Finish(p)
  /\ UNCHANGED <<keychain, now, broker, history>>

(* The broker ends the session. *)
Revoke ==
  /\ honoured # 0
  /\ honoured' = 0
  /\ UNCHANGED <<disk, session, now, grants, granted, newest, history, faults>>

Tick ==
  /\ now < MaxTime
  /\ now' = now + 1
  /\ UNCHANGED <<disk, session, broker, history, faults>>

Next ==
  \/ \E p \in Procs :
       \/ UseSchwab(p) \/ GetConnections(p) \/ CompleteOAuth(p)
       \/ OpenTemp(p) \/ OpenFails(p) \/ Flush(p) \/ FlushFails(p)
       \/ Rename(p) \/ Clear(p) \/ Retry(p) \/ Discard(p)
       \/ Remember(p) \/ RememberFails(p)
       \/ Load(p) \/ Granted(p) \/ AnswerLost(p) \/ Refused(p) \/ Crash(p)
  \/ Revoke \/ Tick

Spec == Init /\ [][Next]_vars

------------------------------------------------------------------------------
(* PROPERTIES *)

Phases == {"idle", "open", "flush", "rename", "clear", "retry", "discard", "remember",
           "load", "ask"}
Kinds == {"none", "use", "status", "complete"}

TypeOK ==
  /\ dir \in Directory(TokenSet)
  /\ keychain \in [used : BOOLEAN, copy : Text(TokenSet)]
  /\ pc \in [Procs -> Phases]
  /\ call \in [Procs -> [kind : Kinds, saves : BOOLEAN]]
  /\ mem \in [Procs -> TokenSet]
  /\ text \in [Procs -> Text(TokenSet)]
  /\ now \in Nat /\ grants \in Nat /\ honoured \in Nat /\ newest \in Nat
  /\ granted \subseteq TokenSet
  /\ clashed \in BOOLEAN /\ overlapped \in BOOLEAN
  /\ calls \in Nat /\ faults \in Nat

(* What can be read in the token file or the keychain is what one          *)
(* successful response made: tokens and times of different responses are   *)
(* never mixed, and nothing of a refused response is stored, whatever two  *)
(* processes, crashes and failed writes do to each other.                  *)
StoredWasGranted ==
  \A t \in {dir.secret, keychain.copy} : t.kind = "ok" => t.says \in granted

(* Saved tokens stay readable: no crash of a writer, before or after its   *)
(* rename, costs the session, as long as two writers do not meet in the    *)
(* temporary file and the device takes the text.                           *)
SessionKept ==
  [][dir.secret.kind = "ok" /\ ~clashed' => dir'.secret.kind = "ok"]_vars

(* While one process at a time serves calls and nothing fails, the stored  *)
(* refresh token is the one the broker honours, if it honours any, however *)
(* file and keychain take turns and whether the broker rotates or not.     *)
NewestStored ==
  ~overlapped /\ faults = 0 /\ honoured # 0 /\ (\A p \in Procs : pc[p] = "idle")
    => dir.secret.kind = "ok" /\ dir.secret.says.refresh = honoured

(* Under the same conditions the user is told to authorise again only when *)
(* the broker ended the session or no response came for a refresh token's  *)
(* life.                                                                   *)
AsksForReauth(p) ==
  /\ pc[p] = "load" /\ pc'[p] = "idle" /\ call[p].kind = "status"
  /\ Status \in {"reauthRequired", "notConnected"}

ReauthOnlyWhenEnded ==
  [][(\E p \in Procs : AsksForReauth(p)) /\ ~overlapped /\ faults' = 0 =>
       honoured = 0 \/ now >= newest + RefreshLife]_vars

(* Once tokens were granted and the calls are over, the subsequent runs    *)
(* find a session to load, in the file or in the keychain.                 *)
SubsequentRunsLoad ==
  granted # {} /\ (\A p \in Procs : pc[p] = "idle")
    => dir.secret.kind = "ok" \/ keychain.copy.kind = "ok"
==============================================================================
