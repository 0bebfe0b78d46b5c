------------------------ MODULE SchwabSessionProofs ------------------------
(***************************************************************************)
(* For any processes, lifetimes and bounds: SchwabSession keeps its types, *)
(* stores nothing but what a successful response made, and never loses a   *)
(* readable session as long as two writers do not meet.                    *)
(***************************************************************************)
EXTENDS SchwabSession, TLAPS

LEMMA TextTypes ==
  /\ Absent \in Text(TokenSet) /\ Blank \in Text(TokenSet)
  /\ Garbled \in Text(TokenSet)
  /\ \A t \in TokenSet : Saying(t) \in Text(TokenSet)
BY DEF Absent, Blank, Garbled, Saying, Text

LEMMA DirectoryTypes ==
  ASSUME NEW d \in Directory(TokenSet), NEW p \in Procs
  PROVE  /\ Opened(d, p) \in Directory(TokenSet)
         /\ Closed(d, p) \in Directory(TokenSet)
         /\ Renamed(d) \in Directory(TokenSet)
         /\ Removed(d) \in Directory(TokenSet)
         /\ Discarded(d) \in Directory(TokenSet)
<1>1. /\ d.secret \in Text(TokenSet) /\ d.temp \in Text(TokenSet)
      /\ d.open \in [Procs -> Names]
  BY DEF Directory
<1>2. \A n \in Names : Moved(n) \in Names /\ Unnamed(n) \in Names
  BY DEF Names, Moved, Unnamed
<1>3. Opened(d, p) \in Directory(TokenSet)
  BY <1>1, TextTypes DEF Opened, Directory, Names
<1>4. Closed(d, p) \in Directory(TokenSet)
  BY <1>1 DEF Closed, Directory, Names
<1>5. Renamed(d) \in Directory(TokenSet)
  BY <1>1, <1>2, TextTypes DEF Renamed, Directory
<1>6. Removed(d) \in Directory(TokenSet)
  BY <1>1, <1>2, TextTypes DEF Removed, Directory
<1>7. Discarded(d) \in Directory(TokenSet)
  BY <1>1, TextTypes DEF Discarded, Directory, Names
<1>8. QED
  BY <1>3, <1>4, <1>5, <1>6, <1>7

LEMMA FlushTypes ==
  ASSUME NEW d \in Directory(TokenSet), NEW p \in Procs,
         NEW t \in Text(TokenSet), NEW e \in Flushed(d, p, t)
  PROVE  e \in Directory(TokenSet)
<1>1. Closed(d, p) \in Directory(TokenSet)
  BY DirectoryTypes
<1>2. \A u : Over(u, t) \subseteq Text(TokenSet)
  BY TextTypes DEF Over
<1>3. CASE d.open[p] = "temp"
  BY <1>1, <1>2, <1>3 DEF Flushed, Directory
<1>4. CASE d.open[p] = "secret"
  BY <1>1, <1>2, <1>4 DEF Flushed, Directory
<1>5. CASE d.open[p] \notin {"temp", "secret"}
  BY <1>1, <1>5 DEF Flushed
<1>6. QED
  BY <1>3, <1>4, <1>5

LEMMA ParsedTypes ==
  ASSUME NEW old \in TokenSet, NEW access \in Nat, NEW refresh \in Nat, now \in Nat
  PROVE  Parsed(old, access, refresh) \in TokenSet
BY LivesAssumption DEF Parsed, TokenSet

LEMMA LoadedType ==
  ASSUME TypeOK
  PROVE  Loaded \in TokenSet
BY DEF TypeOK, Directory, Text, Loaded, NoTokens, TokenSet

LEMMA FinishTypes ==
  ASSUME TypeOK, NEW p \in Procs, Finish(p)
  PROVE  /\ pc' \in [Procs -> Phases]
         /\ call' \in [Procs -> [kind : Kinds, saves : BOOLEAN]]
         /\ mem' \in [Procs -> TokenSet]
         /\ text' \in [Procs -> Text(TokenSet)]
<1>1. NoTokens \in TokenSet
  BY DEF NoTokens, TokenSet
<1>2. QED
  BY <1>1, TextTypes DEF TypeOK, Finish, Goto, Phases, Kinds

LEMMA InitTypes == Init => TypeOK
<1> SUFFICES ASSUME Init
             PROVE  TypeOK
  OBVIOUS
<1>1. dir \in Directory(TokenSet)
  BY TextTypes DEF Init, NewDirectory, Directory, Names
<1>2. keychain \in [used : BOOLEAN, copy : Text(TokenSet)]
  BY TextTypes DEF Init
<1>3. /\ pc \in [Procs -> Phases]
      /\ call \in [Procs -> [kind : Kinds, saves : BOOLEAN]]
  BY DEF Init, Phases, Kinds
<1>4. mem \in [Procs -> TokenSet] /\ text \in [Procs -> Text(TokenSet)]
  BY TextTypes DEF Init, NoTokens, TokenSet
<1>5. QED
  BY <1>1, <1>2, <1>3, <1>4 DEF Init, TypeOK

LEMMA BeginTypes ==
  ASSUME TypeOK, NEW p \in Procs, NEW kind \in Kinds, Begin(p, kind)
  PROVE  TypeOK'
<1>1. pc' \in [Procs -> Phases]
  BY DEF Begin, Goto, TypeOK, Phases
<1>2. call' \in [Procs -> [kind : Kinds, saves : BOOLEAN]]
  BY DEF Begin, TypeOK
<1>3. text' \in [Procs -> Text(TokenSet)]
  BY DEF Begin, TypeOK
<1>4. keychain' \in [used : BOOLEAN, copy : Text(TokenSet)]
  BY DEF Begin, TypeOK, Directory
<1>5. calls' \in Nat /\ overlapped' \in BOOLEAN
  BY DEF Begin, TypeOK
<1>6. QED
  BY <1>1, <1>2, <1>3, <1>4, <1>5 DEF Begin, TypeOK, broker

LEMMA WriterTypes ==
  ASSUME TypeOK, NEW p \in Procs,
         \/ OpenTemp(p) \/ OpenFails(p) \/ Flush(p) \/ FlushFails(p)
         \/ Rename(p) \/ Clear(p) \/ Retry(p) \/ Discard(p)
  PROVE  TypeOK'
<1>1. dir \in Directory(TokenSet) /\ text[p] \in Text(TokenSet)
  BY DEF TypeOK
<1>2. dir' \in Directory(TokenSet)
  BY <1>1, DirectoryTypes, FlushTypes
     DEF TypeOK, OpenTemp, OpenFails, Flush, FlushFails,
         Rename, Clear, Retry, Discard, disk
<1>3. pc' \in [Procs -> Phases]
  BY DEF TypeOK, OpenTemp, OpenFails, Flush, FlushFails,
         Rename, Clear, Retry, Discard, Written, Goto,
         Phases
<1>4. faults' \in Nat /\ clashed' \in BOOLEAN
  <2>1. faults' \in {faults, faults + 1}
    BY DEF OpenTemp, OpenFails, Flush, FlushFails, Rename, Clear, Retry, Discard, Fault
  <2>2. clashed' \in BOOLEAN
    BY DEF TypeOK, OpenTemp, OpenFails, Flush, FlushFails,
           Rename, Clear, Retry, Discard, history
  <2>3. QED
    BY <2>1, <2>2 DEF TypeOK
<1>5. UNCHANGED <<keychain, call, mem, text, now, broker, overlapped, calls>>
  BY DEF OpenTemp, OpenFails, Flush, FlushFails,
         Rename, Clear, Retry, Discard, disk, history
<1>6. QED
  BY <1>2, <1>3, <1>4, <1>5 DEF TypeOK, broker

LEMMA RememberTypes ==
  ASSUME TypeOK, NEW p \in Procs, Remember(p) \/ RememberFails(p)
  PROVE  TypeOK'
<1>1. keychain' \in [used : BOOLEAN, copy : Text(TokenSet)]
  BY DEF TypeOK, Remember, RememberFails, disk
<1>2. Finish(p) /\ UNCHANGED <<dir, now, broker, history>>
  BY DEF Remember, RememberFails, disk
<1>3. faults' \in Nat
  BY DEF TypeOK, Remember, RememberFails, Fault
<1>4. QED
  BY <1>1, <1>2, <1>3, FinishTypes DEF TypeOK, broker, history

LEMMA LoadTypes ==
  ASSUME TypeOK, NEW p \in Procs, Load(p)
  PROVE  TypeOK'
<1>1. UNCHANGED <<disk, now, broker, history, faults>>
  BY DEF Load
<1>2. CASE Asks(call[p].kind)
  BY <1>1, <1>2, LoadedType
     DEF Load, TypeOK, Goto, Phases, disk, broker, history
<1>3. CASE ~Asks(call[p].kind)
  BY <1>1, <1>3, FinishTypes DEF Load, TypeOK, disk, broker, history
<1>4. QED
  BY <1>2, <1>3

(* The tokens a granted call gets and saves. *)
GrantedAs(p, refresh) == Parsed(mem[p], grants + 1, refresh)

LEMMA GrantedStep ==
  ASSUME TypeOK, NEW p \in Procs, Granted(p)
  PROVE  \E refresh \in Nat :
           /\ GrantedAs(p, refresh) \in TokenSet
           /\ mem' = [mem EXCEPT ![p] = GrantedAs(p, refresh)]
           /\ text' = [text EXCEPT ![p] = Saying(GrantedAs(p, refresh))]
           /\ honoured' \in Nat
           /\ granted' = granted \cup {GrantedAs(p, refresh)}
<1>1. NewRefreshToken(p, grants + 1) \subseteq Nat
  BY DEF NewRefreshToken, TypeOK
<1>2. PICK refresh \in NewRefreshToken(p, grants + 1) :
        /\ mem' = [mem EXCEPT ![p] = GrantedAs(p, refresh)]
        /\ text' = [text EXCEPT ![p] = Saying(GrantedAs(p, refresh))]
        /\ honoured' = IF refresh = 0 THEN honoured ELSE refresh
        /\ granted' = granted \cup {GrantedAs(p, refresh)}
  BY DEF Granted, GrantedAs
<1>3. GrantedAs(p, refresh) \in TokenSet
  BY <1>1, <1>2, ParsedTypes DEF TypeOK, GrantedAs
<1>4. honoured' \in Nat
  BY <1>1, <1>2 DEF TypeOK
<1>5. QED
  BY <1>1, <1>2, <1>3, <1>4

LEMMA BrokerTypes ==
  ASSUME TypeOK, NEW p \in Procs, Granted(p) \/ AnswerLost(p) \/ Refused(p)
  PROVE  TypeOK'
<1>1. CASE Granted(p)
  <2>1. PICK refresh \in Nat :
          /\ GrantedAs(p, refresh) \in TokenSet
          /\ mem' = [mem EXCEPT ![p] = GrantedAs(p, refresh)]
          /\ text' = [text EXCEPT ![p] = Saying(GrantedAs(p, refresh))]
          /\ honoured' \in Nat
          /\ granted' = granted \cup {GrantedAs(p, refresh)}
    BY <1>1, GrantedStep
  <2>2. mem' \in [Procs -> TokenSet] /\ text' \in [Procs -> Text(TokenSet)]
    BY <2>1, TextTypes DEF TypeOK
  <2>3. granted' \subseteq TokenSet
    BY <2>1 DEF TypeOK
  <2>4. /\ grants' \in Nat /\ newest' \in Nat /\ pc' \in [Procs -> Phases]
        /\ call' \in [Procs -> [kind : Kinds, saves : BOOLEAN]]
    <3>1. grants' \in Nat /\ newest' \in Nat
      BY <1>1 DEF Granted, TypeOK
    <3>2. pc' \in [Procs -> Phases]
      BY <1>1 DEF Granted, TypeOK, Goto, Phases
    <3>3. call' \in [Procs -> [kind : Kinds, saves : BOOLEAN]]
      <4>1. call' = [call EXCEPT ![p] = [call[p] EXCEPT !.saves = TRUE]]
        BY <1>1 DEF Granted
      <4>2. call[p] \in [kind : Kinds, saves : BOOLEAN]
        BY DEF TypeOK
      <4>3. [call[p] EXCEPT !.saves = TRUE] \in [kind : Kinds, saves : BOOLEAN]
        BY <4>2
      <4>4. QED
        BY <4>1, <4>3 DEF TypeOK
    <3>4. QED
      BY <3>1, <3>2, <3>3
  <2>5. QED
    BY <1>1, <2>1, <2>2, <2>3, <2>4 DEF Granted, TypeOK, disk, history
<1>2. CASE AnswerLost(p)
  <2>1. NewRefreshToken(p, grants + 1) \subseteq Nat
    BY DEF NewRefreshToken, TypeOK
  <2>2. honoured' \in Nat /\ grants' \in Nat /\ faults' \in Nat
    BY <1>2, <2>1 DEF AnswerLost, TypeOK, Fault
  <2>3. Finish(p) /\ UNCHANGED <<disk, now, granted, newest, history>>
    BY <1>2 DEF AnswerLost
  <2>4. QED
    BY <2>2, <2>3, FinishTypes DEF TypeOK, disk, history
<1>3. CASE Refused(p)
  BY <1>3, FinishTypes DEF Refused, TypeOK, disk, broker, history
<1>4. QED
  BY <1>1, <1>2, <1>3

LEMMA OtherTypes ==
  ASSUME TypeOK, (\E p \in Procs : Crash(p)) \/ Revoke \/ Tick \/ UNCHANGED vars
  PROVE  TypeOK'
<1>1. ASSUME NEW p \in Procs, Crash(p)
      PROVE  TypeOK'
  <2>1. dir' \in Directory(TokenSet) /\ faults' \in Nat
    <3>1. dir' \in Directory(TokenSet)
      BY <1>1, DirectoryTypes DEF Crash, TypeOK
    <3>2. faults' \in Nat
      BY <1>1 DEF Crash, TypeOK, Fault
    <3>3. QED
      BY <3>1, <3>2
  <2>2. Finish(p) /\ UNCHANGED <<keychain, now, broker, history>>
    BY <1>1 DEF Crash
  <2>3. QED
    BY <2>1, <2>2, FinishTypes DEF TypeOK, broker, history
<1>2. CASE Revoke
  BY <1>2 DEF Revoke, TypeOK, disk, session, history
<1>3. CASE Tick
  BY <1>3 DEF Tick, TypeOK, disk, session, broker, history
<1>4. CASE UNCHANGED vars
  BY <1>4 DEF vars, TypeOK, disk, session, broker, history
<1>5. QED
  BY <1>1, <1>2, <1>3, <1>4

LEMMA TypeStep == TypeOK /\ [Next]_vars => TypeOK'
<1> SUFFICES ASSUME TypeOK, [Next]_vars
             PROVE  TypeOK'
  OBVIOUS
<1>1. ASSUME NEW p \in Procs, UseSchwab(p) \/ GetConnections(p) \/ CompleteOAuth(p)
      PROVE  TypeOK'
  BY <1>1, BeginTypes DEF UseSchwab, GetConnections, CompleteOAuth, Kinds
<1>2. QED
  BY <1>1, WriterTypes, RememberTypes, LoadTypes, BrokerTypes, OtherTypes DEF Next

(* Whatever processes share the token file, every variable keeps its type. *)
THEOREM TypeCorrect == Spec => []TypeOK
<1>1. QED
  BY InitTypes, TypeStep, PTL DEF Spec

------------------------------------------------------------------------------
(* Every text that is stored, on its way to be stored, or left behind in   *)
(* the temporary file comes from a successful response.                    *)

Comes(t) == t.kind = "ok" => t.says \in granted

AllGranted ==
  /\ Comes(dir.secret) /\ Comes(dir.temp) /\ Comes(keychain.copy)
  /\ \A p \in Procs : Comes(text[p])

LEMMA Plain == Comes(Absent) /\ Comes(Blank) /\ Comes(Garbled)
BY DEF Comes, Absent, Blank, Garbled

LEMMA InitGranted == Init => AllGranted
BY Plain DEF Init, NewDirectory, AllGranted

LEMMA FlushGranted ==
  ASSUME NEW d \in Directory(TokenSet), NEW p \in Procs, NEW t \in Text(TokenSet),
         NEW e \in Flushed(d, p, t), Comes(d.secret), Comes(d.temp), Comes(t)
  PROVE  Comes(e.secret) /\ Comes(e.temp)
<1>1. \A u, v : v \in Over(u, t) => Comes(v)
  BY Plain DEF Over
<1>2. /\ Closed(d, p).secret = d.secret /\ Closed(d, p).temp = d.temp
      /\ \A v : [Closed(d, p) EXCEPT !.temp = v].temp = v
      /\ \A v : [Closed(d, p) EXCEPT !.temp = v].secret = d.secret
      /\ \A v : [Closed(d, p) EXCEPT !.secret = v].secret = v
      /\ \A v : [Closed(d, p) EXCEPT !.secret = v].temp = d.temp
  BY DEF Closed, Directory
<1>3. CASE d.open[p] = "temp"
  <2>1. PICK v \in Over(d.temp, t) : e = [Closed(d, p) EXCEPT !.temp = v]
    BY <1>3 DEF Flushed
  <2>2. e.temp = v /\ e.secret = d.secret
    BY <1>2, <2>1
  <2>3. QED
    BY <1>1, <2>1, <2>2
<1>4. CASE d.open[p] = "secret"
  <2>1. PICK v \in Over(d.secret, t) : e = [Closed(d, p) EXCEPT !.secret = v]
    BY <1>4 DEF Flushed
  <2>2. e.secret = v /\ e.temp = d.temp
    BY <1>2, <2>1
  <2>3. QED
    BY <1>1, <2>1, <2>2
<1>5. CASE d.open[p] \notin {"temp", "secret"}
  BY <1>2, <1>5 DEF Flushed
<1>6. QED
  BY <1>3, <1>4, <1>5

LEMMA DirectoryGranted ==
  ASSUME NEW d \in Directory(TokenSet), NEW p \in Procs,
         Comes(d.secret), Comes(d.temp),
         NEW e \in {Opened(d, p), Closed(d, p), Renamed(d), Removed(d), Discarded(d)}
  PROVE  Comes(e.secret) /\ Comes(e.temp)
<1>1. Opened(d, p).secret = d.secret /\ Opened(d, p).temp = Blank
  BY DEF Opened, Directory
<1>2. Closed(d, p).secret = d.secret /\ Closed(d, p).temp = d.temp
  BY DEF Closed, Directory
<1>3. Renamed(d).secret = d.temp /\ Renamed(d).temp = Absent
  BY DEF Renamed
<1>4. Removed(d).secret = Absent /\ Removed(d).temp = d.temp
  BY DEF Removed, Directory
<1>5. Discarded(d).secret = d.secret /\ Discarded(d).temp = Absent
  BY DEF Discarded, Directory
<1>6. QED
  BY <1>1, <1>2, <1>3, <1>4, <1>5, Plain

LEMMA GrantedInvStep == TypeOK /\ AllGranted /\ [Next]_vars => AllGranted'
<1> SUFFICES ASSUME TypeOK, AllGranted, [Next]_vars
             PROVE  AllGranted'
  OBVIOUS
<1>1. ASSUME NEW p \in Procs, NEW kind, Begin(p, kind)
      PROVE  AllGranted'
  <2>1. UNCHANGED <<dir, granted>>
    BY <1>1 DEF Begin, broker
  <2>2. keychain'.copy \in {keychain.copy, dir.secret}
    BY <1>1 DEF Begin, TypeOK
  <2>3. \A q \in Procs : text'[q] \in {text[q], keychain.copy}
    BY <1>1 DEF Begin, TypeOK
  <2>4. QED
    BY <2>1, <2>2, <2>3 DEF AllGranted, Comes
<1>2. ASSUME NEW p \in Procs,
             OpenTemp(p) \/ OpenFails(p) \/ Flush(p) \/ FlushFails(p) \/ Rename(p)
               \/ Clear(p) \/ Retry(p) \/ Discard(p) \/ Crash(p)
      PROVE  AllGranted'
  <2>1. keychain' = keychain /\ granted' = granted
    BY <1>2 DEF OpenTemp, OpenFails, Flush, FlushFails,
                Rename, Clear, Retry, Discard, Crash, disk, broker
  <2>2. \/ dir' \in {dir, Opened(dir, p), Closed(dir, p), Renamed(dir), Removed(dir),
                 Discarded(dir)}
        \/ dir' \in Flushed(dir, p, text[p])
    BY <1>2 DEF OpenTemp, OpenFails, Flush, FlushFails,
                Rename, Clear, Retry, Discard, Crash, disk
  <2>3. \A q \in Procs : text'[q] \in {text[q], Absent}
    BY <1>2 DEF OpenTemp, OpenFails, Flush, FlushFails,
                Rename, Clear, Retry, Discard, Crash, Finish, TypeOK
  <2>4. Comes(dir'.secret) /\ Comes(dir'.temp)
    BY <2>2, DirectoryGranted, FlushGranted DEF AllGranted, TypeOK
  <2>5. QED
    BY <2>1, <2>3, <2>4, Plain DEF AllGranted, Comes
<1>3. ASSUME NEW p \in Procs, Remember(p) \/ RememberFails(p)
      PROVE  AllGranted'
  <2>1. UNCHANGED <<dir, granted>>
    BY <1>3 DEF Remember, RememberFails, disk, broker
  <2>2. keychain'.copy \in {keychain.copy, text[p]}
    BY <1>3 DEF Remember, RememberFails, disk, TypeOK
  <2>3. \A q \in Procs : text'[q] \in {text[q], Absent}
    BY <1>3 DEF Remember, RememberFails, Finish, TypeOK
  <2>4. QED
    BY <2>1, <2>2, <2>3, Plain DEF AllGranted, Comes
<1>4. ASSUME NEW p \in Procs, Load(p) \/ AnswerLost(p) \/ Refused(p)
      PROVE  AllGranted'
  <2>1. UNCHANGED <<dir, keychain, granted>>
    BY <1>4 DEF Load, AnswerLost, Refused, disk, broker
  <2>2. \A q \in Procs : text'[q] \in {text[q], Absent}
    BY <1>4 DEF Load, AnswerLost, Refused, Finish, TypeOK
  <2>3. QED
    BY <2>1, <2>2, Plain DEF AllGranted, Comes
<1>5. ASSUME NEW p \in Procs, Granted(p)
      PROVE  AllGranted'
  <2>1. PICK refresh \in Nat :
          /\ text' = [text EXCEPT ![p] = Saying(GrantedAs(p, refresh))]
          /\ granted' = granted \cup {GrantedAs(p, refresh)}
    BY <1>5, GrantedStep
  <2>2. \A q \in Procs : text'[q] = text[q] \/ text'[q].says \in granted'
    BY <2>1 DEF TypeOK, Saying
  <2>3. UNCHANGED <<dir, keychain>>
    BY <1>5 DEF Granted, disk
  <2>4. QED
    BY <2>1, <2>2, <2>3 DEF AllGranted, Comes
<1>6. CASE Revoke \/ Tick \/ UNCHANGED vars
  BY <1>6 DEF Revoke, Tick, vars, disk, session, broker, AllGranted, Comes
<1>7. QED
  BY <1>1, <1>2, <1>3, <1>4, <1>5, <1>6
     DEF Next, UseSchwab, GetConnections, CompleteOAuth

(* Only what one successful response of the broker made is ever stored, in *)
(* the token file or in the keychain.                                      *)
THEOREM OnlyGrantedStored == Spec => []StoredWasGranted
<1>1. AllGranted => StoredWasGranted
  BY DEF AllGranted, StoredWasGranted, Comes
<1>2. QED
  BY <1>1, InitTypes, TypeStep, InitGranted, GrantedInvStep, PTL DEF Spec
------------------------------------------------------------------------------
(* While no two writers met in the temporary file, it is blank exactly     *)
(* while its one writer has it open and complete when it is renamed, and   *)
(* nothing blank or garbled is stored or about to be.                      *)

Holds(t) == t.kind = "ok"
Fine(t) == t.kind \in {"ok", "none"}

Writer(p) ==
  /\ pc[p] \in {"open", "flush", "rename", "remember"} => Holds(text[p])
  /\ pc[p] = "flush" <=> dir.open[p] # "closed"
  /\ pc[p] = "flush" => dir.open[p] = "temp" /\ dir.temp = Blank
  /\ pc[p] = "rename" => Holds(dir.temp)
  /\ pc[p] \notin {"clear", "retry", "discard"}

Alone == \A p, q \in Procs : InWriting(p) /\ InWriting(q) => p = q

Orderly ==
  /\ Fine(dir.secret) /\ Fine(keychain.copy)
  /\ Alone
  /\ \A p \in Procs : Writer(p)

LEMMA InitOrderly == Init => Orderly
BY DEF Init, NewDirectory, Absent, Orderly, Fine, Alone, InWriting, Writer

(* A step of p that leaves the directory alone and does not write.         *)
LEMMA QuietStep ==
  ASSUME TypeOK, Orderly, NEW p \in Procs, dir' = dir, Fine(keychain'.copy),
         pc[p] # "flush", pc'[p] \in Phases \ {"flush", "rename", "clear", "retry", "discard"},
         pc'[p] \in {"open", "remember"} => Holds(text'[p]),
         \A q \in Procs \ {p} : pc'[q] = pc[q] /\ text'[q] = text[q]
  PROVE  Orderly'
<1>1. Alone'
  BY DEF Orderly, Alone, InWriting
<1>2. \A q \in Procs : Writer(q)'
  BY DEF Orderly, Writer, Holds
<1>3. QED
  BY <1>1, <1>2 DEF Orderly, Fine

LEMMA CallsOrderly ==
  ASSUME TypeOK, Orderly, NEW p \in Procs,
         \/ \E kind : Begin(p, kind)
         \/ OpenFails(p) \/ Remember(p) \/ RememberFails(p) \/ Load(p)
         \/ Granted(p) \/ AnswerLost(p) \/ Refused(p)
  PROVE  Orderly'
<1>1. ASSUME NEW kind, Begin(p, kind)
      PROVE  Orderly'
  <2>1. dir' = dir /\ pc[p] = "idle" /\ pc'[p] \in {"open", "load"}
    BY <1>1 DEF Begin, Goto, TypeOK
  <2>2. \A q \in Procs \ {p} : pc'[q] = pc[q] /\ text'[q] = text[q]
    BY <1>1 DEF Begin, Goto, TypeOK
  <2>3. Fine(keychain'.copy)
    BY <1>1 DEF Begin, TypeOK, Orderly, Fine
  <2>4. pc'[p] = "open" => Holds(text'[p])
    <3>1. keychain.copy \in Text(TokenSet) /\ Fine(keychain.copy)
      BY DEF TypeOK, Orderly
    <3>2. keychain.copy # Absent => Holds(keychain.copy)
      BY <3>1 DEF Text, Absent, Fine, Holds
    <3>3. QED
      BY <1>1, <3>2 DEF Begin, Goto, TypeOK
  <2>5. QED
    BY <2>1, <2>2, <2>3, <2>4, QuietStep DEF Phases
<1>2. CASE OpenFails(p)
  <2>1. /\ UNCHANGED <<dir, keychain, text>> /\ pc[p] = "open"
        /\ pc'[p] \in {"remember", "load"}
        /\ \A q \in Procs \ {p} : pc'[q] = pc[q]
    BY <1>2 DEF OpenFails, Written, Goto, disk, TypeOK
  <2>2. Holds(text[p]) /\ Fine(keychain.copy)
    BY <2>1 DEF Orderly, Writer
  <2>3. QED
    BY <2>1, <2>2, QuietStep DEF Phases
<1>3. CASE Remember(p) \/ RememberFails(p) \/ AnswerLost(p) \/ Refused(p)
  <2>1. /\ dir' = dir /\ pc[p] \in {"remember", "ask"} /\ Finish(p)
        /\ keychain'.copy \in {keychain.copy, text[p]}
        /\ keychain'.copy # keychain.copy => pc[p] = "remember"
    BY <1>3 DEF Remember, RememberFails, AnswerLost, Refused, disk, TypeOK
  <2>2. Fine(keychain'.copy)
    BY <2>1 DEF Orderly, Writer, Fine, Holds
  <2>3. /\ pc'[p] = "idle"
        /\ \A q \in Procs \ {p} : pc'[q] = pc[q] /\ text'[q] = text[q]
    BY <2>1 DEF Finish, Goto, TypeOK
  <2>4. QED
    BY <2>1, <2>2, <2>3, QuietStep DEF Phases
<1>4. CASE Load(p)
  <2>1. /\ UNCHANGED <<dir, keychain>> /\ pc[p] = "load" /\ pc'[p] \in {"ask", "idle"}
        /\ \A q \in Procs \ {p} : pc'[q] = pc[q] /\ text'[q] = text[q]
    BY <1>4 DEF Load, Finish, Goto, disk, TypeOK
  <2>2. QED
    BY <2>1, QuietStep DEF Phases, Orderly
<1>5. CASE Granted(p)
  <2>1. /\ UNCHANGED <<dir, keychain>> /\ pc[p] = "ask" /\ pc'[p] = "open"
        /\ \A q \in Procs \ {p} : pc'[q] = pc[q]
    BY <1>5 DEF Granted, Goto, disk, TypeOK
  <2>2. /\ \A q \in Procs \ {p} : text'[q] = text[q]
        /\ Holds(text'[p])
    BY <1>5, GrantedStep DEF Saying, Holds, TypeOK
  <2>3. QED
    BY <2>1, <2>2, QuietStep DEF Phases, Orderly
<1>6. QED
  BY <1>1, <1>2, <1>3, <1>4, <1>5

LEMMA WritersOrderly ==
  ASSUME TypeOK, Orderly, NEW p \in Procs, ~clashed',
         OpenTemp(p) \/ Flush(p) \/ Rename(p) \/ Crash(p)
  PROVE  Orderly' /\ (Holds(dir.secret) => Holds(dir'.secret))
<1> USE DEF Goto
<1>0. /\ dir \in Directory(TokenSet) /\ text[p] \in Text(TokenSet)
      /\ \A q \in Procs : dir.open[q] \in Names
  BY DEF TypeOK, Directory
<1>1. CASE OpenTemp(p)
  <2>1. \A q \in Procs : ~InWriting(q)
    BY <1>1 DEF OpenTemp
  <2>2. /\ dir'.secret = dir.secret /\ dir'.temp = Blank /\ dir'.open[p] = "temp"
        /\ \A q \in Procs \ {p} : dir'.open[q] = dir.open[q]
    BY <1>0, <1>1 DEF OpenTemp, Opened, Directory
  <2>3. /\ UNCHANGED <<keychain, text>> /\ pc'[p] = "flush"
        /\ \A q \in Procs \ {p} : pc'[q] = pc[q]
    BY <1>1 DEF OpenTemp, TypeOK
  <2>4. Alone'
    BY <2>1, <2>3 DEF Alone, InWriting
  <2>5. \A q \in Procs : Writer(q)'
    BY <1>1, <2>1, <2>2, <2>3 DEF OpenTemp, Orderly, Writer, InWriting
  <2>6. QED
    BY <2>2, <2>3, <2>4, <2>5 DEF Orderly
<1>2. CASE Flush(p)
  <2>1. /\ pc[p] = "flush" /\ dir.open[p] = "temp" /\ dir.temp = Blank /\ Holds(text[p])
        /\ \A q \in Procs \ {p} : ~InWriting(q)
    BY <1>2 DEF Flush, Orderly, Writer, Alone, InWriting
  <2>2. dir' = [Closed(dir, p) EXCEPT !.temp = text[p]]
    BY <1>2, <2>1 DEF Flush, Flushed, Over, Blank
  <2>3. /\ dir'.secret = dir.secret /\ dir'.temp = text[p] /\ dir'.open[p] = "closed"
        /\ \A q \in Procs \ {p} : dir'.open[q] = dir.open[q]
    BY <1>0, <2>2 DEF Closed, Directory
  <2>4. /\ UNCHANGED <<keychain, text>> /\ pc'[p] = "rename"
        /\ \A q \in Procs \ {p} : pc'[q] = pc[q]
    BY <1>2 DEF Flush, TypeOK
  <2>5. Alone'
    BY <2>1, <2>4 DEF Alone, InWriting
  <2>6. \A q \in Procs : Writer(q)'
    BY <2>1, <2>3, <2>4 DEF Orderly, Writer, InWriting
  <2>7. QED
    BY <2>3, <2>4, <2>5, <2>6 DEF Orderly
<1>3. CASE Rename(p)
  <2>1. /\ pc[p] = "rename" /\ Holds(dir.temp)
        /\ \A q \in Procs \ {p} : ~InWriting(q)
    BY <1>3 DEF Rename, Orderly, Writer, Alone, InWriting
  <2>2. dir.temp # Absent
    BY <2>1 DEF Holds, Absent
  <2>3. \A q \in Procs : dir.open[q] = "closed"
    BY <2>1 DEF Orderly, Writer, InWriting
  <2>4. dir' = Renamed(dir) /\ pc'[p] \in {"remember", "load"}
    BY <1>3, <2>2 DEF Rename, Written, TypeOK
  <2>5. dir'.secret = dir.temp /\ \A q \in Procs : dir'.open[q] = "closed"
    BY <2>3, <2>4 DEF Renamed, Moved, Unnamed
  <2>6. UNCHANGED <<keychain, text>> /\ \A q \in Procs \ {p} : pc'[q] = pc[q]
    BY <1>3, <2>2 DEF Rename, Written, TypeOK
  <2>7. Alone'
    BY <2>1, <2>4, <2>6 DEF Alone, InWriting
  <2>8. \A q \in Procs : Writer(q)'
    BY <2>1, <2>4, <2>5, <2>6 DEF Orderly, Writer, InWriting
  <2>9. QED
    BY <2>1, <2>5, <2>6, <2>7, <2>8 DEF Orderly, Fine, Holds
<1>4. CASE Crash(p)
  <2>1. /\ dir'.secret = dir.secret /\ dir'.temp = dir.temp /\ dir'.open[p] = "closed"
        /\ \A q \in Procs \ {p} : dir'.open[q] = dir.open[q]
    BY <1>0, <1>4 DEF Crash, Closed, Directory
  <2>2. /\ UNCHANGED keychain /\ pc'[p] = "idle"
        /\ \A q \in Procs \ {p} : pc'[q] = pc[q] /\ text'[q] = text[q]
    BY <1>4 DEF Crash, Finish, TypeOK
  <2>3. Alone'
    BY <2>2 DEF Orderly, Alone, InWriting
  <2>4. \A q \in Procs : Writer(q)'
    BY <2>1, <2>2 DEF Orderly, Writer
  <2>5. QED
    BY <2>1, <2>2, <2>3, <2>4 DEF Orderly
<1>5. QED
  BY <1>1, <1>2, <1>3, <1>4

LEMMA OrderlyStep ==
  ASSUME TypeOK, Orderly, [Next]_vars, ~clashed'
  PROVE  Orderly' /\ (Holds(dir.secret) => Holds(dir'.secret))
<1>1. ASSUME NEW p \in Procs,
             \/ \E kind : Begin(p, kind)
             \/ OpenFails(p) \/ Remember(p) \/ RememberFails(p) \/ Load(p)
             \/ Granted(p) \/ AnswerLost(p) \/ Refused(p)
      PROVE  Orderly' /\ (Holds(dir.secret) => Holds(dir'.secret))
  <2>1. Orderly'
    BY <1>1, CallsOrderly
  <2>2. dir' = dir
    BY <1>1 DEF Begin, OpenFails, Remember, RememberFails, Load, Granted, AnswerLost,
                Refused, disk
  <2>3. QED
    BY <2>1, <2>2
<1>2. ASSUME NEW p \in Procs, FlushFails(p) \/ Clear(p) \/ Retry(p) \/ Discard(p)
      PROVE  FALSE
  BY <1>2 DEF FlushFails, Clear, Retry, Discard, Orderly, Writer
<1>3. CASE Revoke \/ Tick \/ UNCHANGED vars
  <2>1. UNCHANGED <<dir, keychain, pc, text>>
    BY <1>3 DEF Revoke, Tick, vars, disk, session
  <2>2. QED
    BY <2>1 DEF Orderly, Fine, Alone, InWriting, Writer, Holds
<1>4. QED
  BY <1>1, <1>2, <1>3, WritersOrderly
     DEF Next, UseSchwab, GetConnections, CompleteOAuth

LEMMA ClashesStay == TypeOK /\ [Next]_vars /\ clashed => clashed'
<1> SUFFICES ASSUME TypeOK, [Next]_vars, clashed
             PROVE  clashed'
  OBVIOUS
<1>1. clashed' = clashed \/ clashed' = TRUE \/ \E p \in Procs : OpenTemp(p)
  BY DEF Next, UseSchwab, GetConnections, CompleteOAuth, Begin, OpenFails, Flush,
         FlushFails,
         Rename, Clear, Retry, Discard, Remember, RememberFails, Load, Granted, AnswerLost,
         Refused, Crash, Revoke, Tick, vars, history
<1>2. QED
  BY <1>1 DEF OpenTemp

(* A session that was saved stays readable whatever crashes of its writers,*)
(* lost answers and takings-turn of file and keychain, as long as no two   *)
(* writers meet in the temporary file and the device takes what is written.*)
THEOREM SavedSessionKept == Spec => SessionKept
<1> DEFINE IInv == TypeOK /\ (clashed \/ Orderly)
<1>1. Init => IInv
  BY InitTypes, InitOrderly
<1>2. IInv /\ [Next]_vars => IInv'
  BY TypeStep, OrderlyStep, ClashesStay
<1>3. IInv /\ [Next]_vars
        => [dir.secret.kind = "ok" /\ ~clashed' => dir'.secret.kind = "ok"]_vars
  BY OrderlyStep, ClashesStay DEF Holds
<1>4. QED
  BY <1>1, <1>2, <1>3, PTL DEF Spec, SessionKept
------------------------------------------------------------------------------
(* One call at a time and no fault: what is stored, or on its way to be    *)
(* stored, is the newest response's.  A call that has a response to save   *)
(* leaves the stored tokens behind until its rename.                       *)

Calm == ~overlapped /\ faults = 0
Lone == \A p, q \in Procs : pc[p] # "idle" /\ pc[q] # "idle" => p = q

Current(t) ==
  honoured # 0 => /\ Holds(t)
                  /\ t.says.refresh = honoured
                  /\ t.says.refreshUntil = newest + RefreshLife

StoredCurrent ==
  Current(dir.secret) /\ (keychain.copy # Absent => Current(keychain.copy))

Saves(p) == call[p].saves

Fresh(p) ==
  /\ pc[p] \in {"idle", "load", "ask"} => ~Saves(p)
  /\ pc[p] \in {"open", "flush", "rename", "remember"} => Current(text[p])
  /\ pc[p] = "rename" => dir.temp = text[p]
  /\ pc[p] = "remember" => Saves(p) /\ Current(dir.secret)

FreshInv ==
  /\ ~clashed
  /\ Lone
  /\ ~keychain.used => keychain.copy = Absent
  /\ \A p \in Procs : Fresh(p)
  /\ (\A p \in Procs : ~Saves(p)) => StoredCurrent

LEMMA InitFresh == Init => FreshInv
<1> SUFFICES ASSUME Init
             PROVE  FreshInv
  OBVIOUS
<1>1. \A t : Current(t)
  BY DEF Init, Current
<1>2. \A p \in Procs : ~Saves(p)
  BY DEF Init, Saves
<1>3. \A p \in Procs : Fresh(p)
  BY <1>2 DEF Init, Fresh
<1>4. QED
  BY <1>1, <1>3 DEF Init, FreshInv, Lone, StoredCurrent

LEMMA CalmBefore == TypeOK /\ [Next]_vars /\ Calm' => Calm
<1> SUFFICES ASSUME TypeOK, [Next]_vars, Calm'
             PROVE  Calm
  OBVIOUS
<1>1. overlapped' = overlapped
        \/ \E p \in Procs, kind \in Kinds : Begin(p, kind)
  BY DEF Next, UseSchwab, GetConnections, CompleteOAuth, OpenTemp, OpenFails, Flush,
         FlushFails,
         Rename, Clear, Retry, Discard, Remember, RememberFails, Load, Granted, AnswerLost,
         Refused, Crash, Revoke, Tick, vars, history, Kinds
<1>2. ~overlapped
  BY <1>1 DEF Calm, Begin
<1>3. faults' = faults \/ faults' = faults + 1
  BY DEF Next, UseSchwab, GetConnections, CompleteOAuth, Begin, OpenTemp, OpenFails,
         Flush, FlushFails,
         Rename, Clear, Retry, Discard, Remember, RememberFails, Load, Granted,
         AnswerLost, Refused, Crash, Revoke, Tick, vars, Fault
<1>4. faults = 0
  BY <1>3 DEF Calm, TypeOK
<1>5. QED
  BY <1>2, <1>4 DEF Calm

(* The only call under way decides.                                        *)
LEMMA Focus ==
  ASSUME NEW p \in Procs, ~clashed', Fresh(p)',
         ~keychain'.used => keychain'.copy = Absent,
         \A q \in Procs \ {p} : pc'[q] = "idle" /\ ~Saves(q)',
         ~Saves(p)' => StoredCurrent'
  PROVE  FreshInv'
<1>1. \A q \in Procs \ {p} : Fresh(q)'
  BY DEF Fresh
<1>2. Lone'
  BY DEF Lone
<1>3. QED
  BY <1>1, <1>2 DEF FreshInv

(* While p serves a call nobody else does.                                 *)
LEMMA OthersRest ==
  ASSUME FreshInv, NEW p \in Procs, pc[p] # "idle"
  PROVE  \A q \in Procs \ {p} : pc[q] = "idle" /\ ~Saves(q)
BY DEF FreshInv, Lone, Fresh

LEMMA BeginFresh ==
  ASSUME TypeOK, FreshInv, Calm', NEW p \in Procs, NEW kind, Begin(p, kind)
  PROVE  FreshInv'
<1>1. \A q \in Procs : pc[q] = "idle" /\ ~Saves(q)
  BY DEF Begin, Calm, FreshInv, Fresh
<1>2. \A q \in Procs : ~Saves(q)'
  <2>1. call'[p] = [kind |-> kind, saves |-> FALSE]
    BY DEF Begin, TypeOK
  <2>2. \A q \in Procs \ {p} : call'[q] = call[q]
    BY DEF Begin, TypeOK
  <2>3. ~Saves(p)'
    BY <2>1 DEF Saves
  <2>4. \A q \in Procs \ {p} : ~Saves(q)'
    BY <1>1, <2>2 DEF Saves
  <2>5. QED
    BY <2>3, <2>4
<1>3. \A q \in Procs \ {p} : pc'[q] = "idle"
  BY <1>1 DEF Begin, Goto, TypeOK
<1>4. StoredCurrent
  BY <1>1 DEF FreshInv
<1>5. UNCHANGED <<dir, honoured, newest, clashed>>
  BY DEF Begin, broker
<1>6. StoredCurrent'
  BY <1>4, <1>5 DEF StoredCurrent, Current, Begin, TypeOK
<1>7. ~keychain'.used => keychain'.copy = Absent
  BY DEF Begin, TypeOK, FreshInv
<1>8. pc'[p] \in {"open", "load"} /\ (pc'[p] = "open" => text'[p] = keychain.copy)
  BY DEF Begin, Goto, TypeOK
<1>9. pc'[p] = "open" => keychain.copy # Absent
  BY DEF Begin, Goto, TypeOK
<1>10. Fresh(p)'
  BY <1>2, <1>4, <1>5, <1>8, <1>9 DEF Fresh, Current, StoredCurrent
<1>11. QED
  BY <1>2, <1>3, <1>5, <1>6, <1>7, <1>10, Focus DEF FreshInv

(* What no step of the one call but its beginning and the response changes.*)
LEMMA Going ==
  ASSUME TypeOK, FreshInv, NEW p \in Procs, pc[p] # "idle",
         \/ OpenTemp(p) \/ Flush(p) \/ Rename(p) \/ Remember(p) \/ Load(p)
         \/ Granted(p) \/ Refused(p)
  PROVE  /\ \A q \in Procs \ {p} : pc'[q] = "idle" /\ ~Saves(q)'
         /\ ~clashed'
<1>1. \A q \in Procs \ {p} : pc'[q] = pc[q] /\ call'[q] = call[q]
  BY DEF OpenTemp, Flush, Rename, Remember, Load, Granted, Refused, Written, Finish,
         Goto, TypeOK
<1>2. \A q \in Procs \ {p} : pc[q] = "idle" /\ ~Saves(q)
  BY OthersRest
<1>3. clashed' = clashed \/ OpenTemp(p)
  BY DEF Flush, Rename, Remember, Load, Granted, Refused, history
<1>4. OpenTemp(p) => ~\E q \in Procs : InWriting(q)
  BY <1>2 DEF OpenTemp, InWriting
<1>5. ~clashed'
  BY <1>3, <1>4 DEF OpenTemp, FreshInv
<1>6. QED
  BY <1>1, <1>2, <1>5 DEF Saves

LEMMA WriteFresh ==
  ASSUME TypeOK, Orderly, FreshInv, NEW p \in Procs,
         OpenTemp(p) \/ Flush(p) \/ Rename(p)
  PROVE  FreshInv'
<1>1. pc[p] \in {"open", "flush", "rename"}
  BY DEF OpenTemp, Flush, Rename
<1>2. /\ \A q \in Procs \ {p} : pc'[q] = "idle" /\ ~Saves(q)'
      /\ ~clashed'
  BY <1>1, Going
<1>3. UNCHANGED <<keychain, call, text, honoured, newest>>
  BY DEF OpenTemp, Flush, Rename, broker
<1>4. Current(text[p]) /\ Fresh(p)
  BY <1>1 DEF FreshInv, Fresh
<1>5. ~keychain'.used => keychain'.copy = Absent
  BY <1>3 DEF FreshInv
<1>6. Saves(p)' <=> Saves(p)
  BY <1>3 DEF Saves
<1>7. ~Saves(p) => StoredCurrent
  BY <1>1, OthersRest DEF FreshInv
<1>8. CASE OpenTemp(p)
  <2>1. dir'.secret = dir.secret /\ pc'[p] = "flush"
    BY <1>8 DEF OpenTemp, Opened, Directory, Goto, TypeOK
  <2>2. Fresh(p)'
    BY <1>3, <1>4, <2>1 DEF Fresh, Current
  <2>3. ~Saves(p)' => StoredCurrent'
    BY <1>3, <1>6, <1>7, <2>1 DEF StoredCurrent, Current
  <2>4. QED
    BY <1>2, <1>5, <2>2, <2>3, Focus
<1>9. CASE Flush(p)
  <2>1. pc[p] = "flush" /\ dir.open[p] = "temp" /\ dir.temp = Blank
    BY <1>9 DEF Flush, Orderly, Writer
  <2>2. dir' = [Closed(dir, p) EXCEPT !.temp = text[p]]
    BY <1>9, <2>1 DEF Flush, Flushed, Over, Blank
  <2>3. dir'.secret = dir.secret /\ dir'.temp = text[p] /\ pc'[p] = "rename"
    BY <1>9, <2>2 DEF Closed, Directory, Flush, Goto, TypeOK
  <2>4. Fresh(p)'
    BY <1>3, <1>4, <2>3 DEF Fresh, Current
  <2>5. ~Saves(p)' => StoredCurrent'
    BY <1>3, <1>6, <1>7, <2>3 DEF StoredCurrent, Current
  <2>6. QED
    BY <1>2, <1>5, <2>4, <2>5, Focus
<1>10. CASE Rename(p)
  <2>1. pc[p] = "rename" /\ dir.temp = text[p] /\ dir.temp # Absent
    BY <1>10 DEF Rename, FreshInv, Fresh, Orderly, Writer, Holds, Absent
  <2>2. dir'.secret = text[p]
    BY <1>10, <2>1 DEF Rename, Renamed
  <2>3. /\ Saves(p) => pc'[p] = "remember"
        /\ ~Saves(p) => pc'[p] = "load"
    BY <1>10, <2>1 DEF Rename, Written, Goto, TypeOK, Saves
  <2>4. Fresh(p)'
    BY <1>3, <1>4, <1>6, <2>2, <2>3 DEF Fresh, Current
  <2>5. ~Saves(p)' => StoredCurrent'
    BY <1>3, <1>4, <1>6, <1>7, <2>2 DEF StoredCurrent, Current
  <2>6. QED
    BY <1>2, <1>5, <2>4, <2>5, Focus
<1>11. QED
  BY <1>8, <1>9, <1>10

(* A call that ends has nothing left to save.                              *)
LEMMA FinishRests ==
  ASSUME TypeOK, NEW p \in Procs, Finish(p)
  PROVE  pc'[p] = "idle" /\ ~Saves(p)'
<1>1. call'[p] = [kind |-> "none", saves |-> FALSE]
  BY DEF Finish, TypeOK
<1>2. pc'[p] = "idle"
  BY DEF Finish, Goto, TypeOK
<1>3. QED
  BY <1>1, <1>2 DEF Saves

LEMMA CallFresh ==
  ASSUME TypeOK, FreshInv, NEW p \in Procs, Remember(p) \/ Load(p) \/ Refused(p)
  PROVE  FreshInv'
<1>1. pc[p] \in {"remember", "load", "ask"}
  BY DEF Remember, Load, Refused
<1>2. /\ \A q \in Procs \ {p} : pc'[q] = "idle" /\ ~Saves(q)'
      /\ ~clashed'
  BY <1>1, Going
<1>3. UNCHANGED <<dir, honoured, newest>>
  BY DEF Remember, Load, Refused, disk, broker
<1>4. ~keychain'.used => keychain'.copy = Absent
  BY DEF Remember, Load, Refused, disk, TypeOK, FreshInv
<1>5. CASE Remember(p)
  <2>1. Current(text[p]) /\ Current(dir.secret)
    BY <1>5 DEF Remember, FreshInv, Fresh
  <2>2. keychain'.copy # Absent => keychain'.copy = text[p]
    BY <1>5 DEF Remember, TypeOK, FreshInv
  <2>3. StoredCurrent'
    BY <1>3, <2>1, <2>2 DEF StoredCurrent, Current
  <2>4. pc'[p] = "idle" /\ ~Saves(p)'
    BY <1>5, FinishRests DEF Remember
  <2>5. Fresh(p)'
    BY <2>4 DEF Fresh
  <2>6. QED
    BY <1>2, <1>4, <2>3, <2>5, Focus
<1>6. CASE Load(p) \/ Refused(p)
  <2>1. ~Saves(p)
    BY <1>6 DEF Load, Refused, FreshInv, Fresh
  <2>2. StoredCurrent
    BY <1>1, <2>1, OthersRest DEF FreshInv
  <2>3. StoredCurrent'
    BY <1>3, <1>6, <2>2 DEF StoredCurrent, Current, Load, Refused, disk
  <2>4. pc'[p] \in {"idle", "ask"} /\ ~Saves(p)'
    <3>1. Finish(p) \/ (pc'[p] = "ask" /\ call' = call)
      BY <1>6 DEF Load, Refused, Goto, TypeOK
    <3>2. QED
      BY <2>1, <3>1, FinishRests DEF Saves
  <2>5. Fresh(p)'
    BY <2>4 DEF Fresh
  <2>6. QED
    BY <1>2, <1>4, <2>3, <2>5, Focus
<1>7. QED
  BY <1>5, <1>6

(* The newest refresh token is the one in the response, or the one it left *)
(* in place: the broker answers to the token it honours only.              *)
LEMMA GrantedFresh ==
  ASSUME TypeOK, FreshInv, NEW p \in Procs, Granted(p)
  PROVE  FreshInv'
<1>1. /\ \A q \in Procs \ {p} : pc'[q] = "idle" /\ ~Saves(q)'
      /\ ~clashed'
  <2>1. pc[p] # "idle"
    BY DEF Granted
  <2>2. QED
    BY <2>1, Going
<1>2. PICK refresh \in NewRefreshToken(p, grants + 1) :
        /\ text' = [text EXCEPT ![p] = Saying(GrantedAs(p, refresh))]
        /\ honoured' = IF refresh = 0 THEN honoured ELSE refresh
  BY DEF Granted, GrantedAs
<1>3. refresh = 0 => mem[p].refresh = honoured
  BY DEF NewRefreshToken, TypeOK
<1>4. /\ GrantedAs(p, refresh).refresh = honoured'
      /\ GrantedAs(p, refresh).refreshUntil = now + RefreshLife
  BY <1>2, <1>3 DEF GrantedAs, Parsed
<1>5. newest' = now /\ pc'[p] = "open" /\ UNCHANGED <<dir, keychain>>
  BY DEF Granted, Goto, disk, TypeOK
<1>6. Current(text[p])'
  BY <1>2, <1>4, <1>5 DEF Current, Saying, Holds, TypeOK
<1>7. Saves(p)'
  <2>1. call[p] \in [kind : Kinds, saves : BOOLEAN]
    BY DEF TypeOK
  <2>2. call'[p] = [call[p] EXCEPT !.saves = TRUE]
    BY DEF Granted, TypeOK
  <2>3. QED
    BY <2>1, <2>2 DEF Saves
<1>8. Fresh(p)'
  BY <1>5, <1>6 DEF Fresh
<1>9. ~keychain'.used => keychain'.copy = Absent
  BY <1>5 DEF FreshInv
<1>10. QED
  BY <1>1, <1>7, <1>8, <1>9, Focus

LEMMA FreshStep ==
  ASSUME TypeOK, Orderly, FreshInv, [Next]_vars, Calm'
  PROVE  FreshInv'
<1>1. ASSUME NEW p \in Procs,
             OpenFails(p) \/ FlushFails(p) \/ RememberFails(p) \/ AnswerLost(p) \/ Crash(p)
      PROVE  FALSE
  BY <1>1 DEF OpenFails, FlushFails, RememberFails, AnswerLost, Crash, Fault, Calm, TypeOK
<1>2. ASSUME NEW p \in Procs, Clear(p) \/ Retry(p) \/ Discard(p)
      PROVE  FALSE
  BY <1>2 DEF Clear, Retry, Discard, Orderly, Writer
<1>3. CASE Revoke \/ Tick \/ UNCHANGED vars
  <2>1. /\ UNCHANGED <<dir, keychain, pc, call, text, newest, clashed>>
        /\ honoured' \in {honoured, 0}
    BY <1>3 DEF Revoke, Tick, vars, disk, session, broker, history
  <2>2. \A t : Current(t) => (honoured' # 0 => /\ Holds(t)
                                               /\ t.says.refresh = honoured'
                                               /\ t.says.refreshUntil = newest' + RefreshLife)
    BY <2>1 DEF Current
  <2>3. \A q \in Procs : Fresh(q)'
    BY <2>1, <2>2 DEF FreshInv, Fresh, Current, Saves
  <2>4. (\A q \in Procs : ~Saves(q)') => StoredCurrent'
    BY <2>1, <2>2 DEF FreshInv, StoredCurrent, Current, Saves
  <2>5. QED
    BY <2>1, <2>3, <2>4 DEF FreshInv, Lone
<1>4. QED
  BY <1>1, <1>2, <1>3, BeginFresh, WriteFresh, CallFresh, GrantedFresh
     DEF Next, UseSchwab, GetConnections, CompleteOAuth

CalmInv == TypeOK /\ (clashed \/ Orderly) /\ (Calm => FreshInv)

LEMMA CalmInvHolds == Spec => []CalmInv
<1>1. Init => CalmInv
  BY InitTypes, InitOrderly, InitFresh DEF CalmInv
<1>2. CalmInv /\ [Next]_vars => CalmInv'
  <2>1. TypeOK /\ (clashed \/ Orderly) /\ [Next]_vars => (clashed \/ Orderly)'
    BY OrderlyStep, ClashesStay
  <2>2. ASSUME CalmInv, [Next]_vars, Calm'
        PROVE  FreshInv'
    <3>1. FreshInv /\ Orderly
      BY <2>2, CalmBefore DEF CalmInv, FreshInv
    <3>2. QED
      BY <2>2, <3>1, FreshStep DEF CalmInv
  <2>3. QED
    BY <2>1, <2>2, TypeStep DEF CalmInv
<1>3. QED
  BY <1>1, <1>2, PTL DEF Spec

(* With one call at a time and no fault the stored refresh token is the    *)
(* one the broker honours, whichever of file and keychain was copied over  *)
(* the other.                                                              *)
THEOREM NewestIsStored == Spec => []NewestStored
<1>1. CalmInv => NewestStored
  BY DEF CalmInv, Calm, FreshInv, Fresh, StoredCurrent, Current, Holds, NewestStored
<1>2. QED
  BY <1>1, CalmInvHolds, PTL

(* Under the same conditions nobody is told to authorise again while the   *)
(* broker honours a refresh token that has its week left.                  *)
THEOREM ReauthWhenEnded == Spec => ReauthOnlyWhenEnded
<1> DEFINE Justified ==
      (\E p \in Procs : AsksForReauth(p)) /\ ~overlapped /\ faults' = 0 =>
        honoured = 0 \/ now >= newest + RefreshLife
<1>1. ASSUME CalmInv, [Next]_vars
      PROVE  [Justified]_vars
  <2> SUFFICES ASSUME NEW p \in Procs, AsksForReauth(p), ~overlapped, faults' = 0,
                      honoured # 0, now < newest + RefreshLife
               PROVE  FALSE
    BY <1>1, LivesAssumption DEF CalmInv, TypeOK
  <2>1. pc[p] = "load" /\ Status \in {"reauthRequired", "notConnected"}
    BY DEF AsksForReauth
  <2>2. faults = 0
    <3>1. faults' = faults \/ faults' = faults + 1
      BY <1>1 DEF Next, UseSchwab, GetConnections, CompleteOAuth, Begin, OpenTemp,
         OpenFails, Flush, FlushFails,
         Rename, Clear, Retry, Discard, Remember, RememberFails, Load,
         Granted, AnswerLost, Refused, Crash, Revoke, Tick, vars, Fault
    <3>2. QED
      BY <1>1, <3>1 DEF CalmInv, TypeOK
  <2>3. FreshInv /\ ~Saves(p)
    BY <1>1, <2>1, <2>2 DEF CalmInv, Calm, FreshInv, Fresh
  <2>4. Current(dir.secret)
    BY <2>1, <2>3, OthersRest DEF FreshInv, StoredCurrent
  <2>5. /\ dir.secret.kind = "ok" /\ dir.secret.says.refresh = honoured
        /\ dir.secret.says.refreshUntil = newest + RefreshLife
    BY <2>4 DEF Current, Holds
  <2>6. HasValidRefreshToken(Loaded)
    BY <2>5 DEF HasValidRefreshToken, Loaded
  <2>7. QED
    BY <2>1, <2>6 DEF Status
<1>2. QED
  BY <1>1, CalmInvHolds, PTL DEF Spec, ReauthOnlyWhenEnded
==============================================================================
