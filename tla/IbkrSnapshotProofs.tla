------------------------- MODULE IbkrSnapshotProofs -------------------------
(***************************************************************************)
(* For any bounds: IbkrSnapshot keeps its types, the client never sleeps   *)
(* over a message, and what it handles is the stream TWS sent.             *)
(***************************************************************************)
EXTENDS IbkrSnapshot, SequenceTheorems, TLAPS

Msgs == Message \cup {Damaged}

Typed == TypeOK /\ tws \in Seq(Message) /\ extras \in Nat

Readers == [pc : {"off", "top", "read", "signal", "fatal", "text", "close",
                  "leave", "last", "gone"},
            buf : Seq(Unit), padded : BOOLEAN, badf : BOOLEAN,
            back : {"none", "read", "leave", "last"}]

LEMMA MessageKinds == Kinds \subseteq Message /\ Greetings \subseteq Message
BY KindsAssumption

LEMMA KindTypes ==
  /\ \A m \in {"ids", "accts", "none", "sum", "sumEnd", "pos", "posEnd", "warn", "err"} :
       m \in Message
  /\ \A m \in {"ok", "old", "redirect"} : m \in Message
BY MessageKinds DEF Kinds, Greetings

LEMMA UnitsType ==
  ASSUME NEW m \in Message
  PROVE  UnitsOf(m) \in Seq(Unit) /\ Len(UnitsOf(m)) = 2
BY DEF UnitsOf, Unit

LEMMA ComplainedType ==
  ASSUME TypeOK, NEW code
  PROVE  Complained(code) \in
           [fatal : BOOLEAN, leaving : BOOLEAN, dead : BOOLEAN, smashed : BOOLEAN]
BY DEF TypeOK, Complained

LEMMA AnswersType ==
  ASSUME NEW request, NEW a \in Answers(request)
  PROVE  a \in Seq(Message)
<1>1. \A m, n \in Message : <<m, n>> \in Seq(Message) /\ <<m>> \in Seq(Message)
  OBVIOUS
<1>2. << >> \in Seq(Message)
  OBVIOUS
<1>3. QED
  BY <1>1, <1>2, KindTypes DEF Answers

LEMMA PrefixType ==
  ASSUME NEW S, NEW s \in Seq(S), NEW n \in 0..Len(s)
  PROVE  /\ SubSeq(s, 1, n) \in Seq(S)
         /\ SubSeq(s, n + 1, Len(s)) \in Seq(S)
<1>1. \A i \in 1..Len(s) : s[i] \in S
  BY ElementOfSeq
<1>2. Len(s) \in Nat
  BY LenProperties
<1>3. \A i \in 1..n : s[i] \in S
  BY <1>1, <1>2
<1>4. \A i \in n + 1 .. Len(s) : s[i] \in S
  BY <1>1, <1>2
<1>5. QED
  BY <1>2, <1>3, <1>4, SubSeqProperties

LEMMA AskTypes ==
  ASSUME Typed, NEW request, NEW next \in MainPhases, Ask(request, next)
  PROVE  /\ wire' \in Seq(Unit) /\ peer' \in {"open", "closed", "reset"}
         /\ sock' \in BOOLEAN /\ main' \in MainPhases /\ tws' \in Seq(Message)
         /\ wrapper' \in
              [fatal : BOOLEAN, leaving : BOOLEAN, dead : BOOLEAN, smashed : BOOLEAN]
<1>1. \A a \in Answers(request) : tws \o a \in Seq(Message)
  BY AnswersType, ConcatProperties DEF Typed
<1>2. << >> \in Seq(Unit)
  OBVIOUS
<1>3. "killed" \in MainPhases
  BY DEF MainPhases
<1>4. CASE ~sock /\ wrapper' = Complained(504) /\ main' = next
           /\ UNCHANGED <<sock, wire, peer, tws>>
  BY <1>4, ComplainedType DEF Typed, TypeOK
<1>5. CASE /\ main' = next
           /\ IF peer = "open" THEN \E a \in Answers(request) : tws' = tws \o a
              ELSE UNCHANGED tws
           /\ UNCHANGED <<sock, wire, peer, wrapper>>
  BY <1>1, <1>5 DEF Typed, TypeOK
<1>6. CASE Disconnected /\ wrapper' = Complained(509) /\ main' = next /\ UNCHANGED tws
  <2>1. wire' = << >> /\ peer' = "closed" /\ sock' = FALSE
    BY <1>6 DEF Disconnected
  <2>2. wrapper' \in
          [fatal : BOOLEAN, leaving : BOOLEAN, dead : BOOLEAN, smashed : BOOLEAN]
    BY <1>6, ComplainedType DEF Typed
  <2>3. main' \in MainPhases /\ tws' \in Seq(Message)
    BY <1>6 DEF Typed
  <2>4. QED
    BY <1>2, <2>1, <2>2, <2>3
<1>7. CASE main' = "killed" /\ UNCHANGED <<sock, wire, peer, wrapper, tws>>
  BY <1>3, <1>7 DEF Typed, TypeOK
<1>8. QED
  BY <1>4, <1>5, <1>6, <1>7 DEF Ask

LEMMA ReaderAtType ==
  \A phase \in {"off", "top", "leave", "last", "gone"} :
    ReaderAt(phase) \in Readers
<1>1. << >> \in Seq(Unit)
  OBVIOUS
<1>2. QED
  BY <1>1 DEF ReaderAt, Readers

LEMMA DisconnectedTypes ==
  Disconnected => /\ wire' \in Seq(Unit) /\ sock' \in BOOLEAN
                  /\ peer' \in {"open", "closed", "reset"}
<1>1. << >> \in Seq(Unit)
  OBVIOUS
<1>2. QED
  BY <1>1 DEF Disconnected

LEMMA ReturnTypes ==
  ASSUME TypeOK, NEW result \in {"failed", "timeout", "detail"}, Return(result)
  PROVE  /\ outcome' \in {"none", "failed", "timeout", "detail"}
         /\ main' \in MainPhases
         /\ wrapper' \in
              [fatal : BOOLEAN, leaving : BOOLEAN, dead : BOOLEAN, smashed : BOOLEAN]
BY DEF TypeOK, Return, MainPhases

LEMMA WaitPhases ==
  /\ \A w \in Waits : Drain[w] \in Drains
  /\ \A d \in Drains : WaitOf(d) \in Waits
  /\ Waits \subseteq MainPhases /\ Drains \subseteq MainPhases
  /\ Waits \cap Drains = {}
  /\ Waits = {"wait1", "wait2", "wait3"} /\ Drains = {"drain1", "drain2", "drain3"}
<1>1. /\ \A w \in Waits : Drain[w] \in Drains
      /\ \A d \in Drains : \E w \in Waits : Drain[w] = d
  BY DEF Drains
<1>2. \A d \in Drains : WaitOf(d) \in Waits
  BY <1>1 DEF WaitOf
<1>3. Drain["wait1"] = "drain1" /\ Drain["wait2"] = "drain2" /\ Drain["wait3"] = "drain3"
  BY DEF Drain, Waits
<1>4. Drains = {"drain1", "drain2", "drain3"}
  BY <1>3 DEF Drains, Waits
<1>5. QED
  BY <1>1, <1>2, <1>4 DEF Waits, MainPhases

LEMMA CallbackTypes ==
  ASSUME TypeOK, NEW m, Callback(m)
  PROVE  /\ flags' \subseteq {"ids", "accts", "named", "sumEnd", "posEnd"}
         /\ wrapper' \in
              [fatal : BOOLEAN, leaving : BOOLEAN, dead : BOOLEAN, smashed : BOOLEAN]
<1>1. flags \subseteq {"ids", "accts", "named", "sumEnd", "posEnd"}
  BY DEF TypeOK
<1>2. wrapper \in [fatal : BOOLEAN, leaving : BOOLEAN, dead : BOOLEAN, smashed : BOOLEAN]
  BY DEF TypeOK
<1>3. flags' \subseteq {"ids", "accts", "named", "sumEnd", "posEnd"}
  BY <1>1 DEF Callback
<1>4. wrapper' = wrapper \/ wrapper' = Complained(100) \/ wrapper' = Complained(505)
  BY DEF Callback
<1>5. QED
  BY <1>2, <1>3, <1>4, ComplainedType

------------------------------------------------------------------------------
(* Type correctness, action by action.                                     *)

LEMMA ConnectionTypes ==
  ASSUME Typed, ConnectFails \/ Connect \/ Greeted \/ NotGreeted \/ StartApi
  PROVE  Typed'
<1>1. << >> \in Seq(Unit)
  OBVIOUS
<1>2. {"connect", "greet", "start", "spin", "done", "wait1"} \subseteq MainPhases
  BY DEF MainPhases, Waits
<1>3. NotConnected =>
        /\ main' \in MainPhases /\ outcome' \in {"none", "failed", "timeout", "detail"}
        /\ wrapper' \in
             [fatal : BOOLEAN, leaving : BOOLEAN, dead : BOOLEAN, smashed : BOOLEAN]
  BY <1>2 DEF NotConnected, Typed, TypeOK
<1>4. CASE ConnectFails
  BY <1>3, <1>4 DEF ConnectFails, Typed, TypeOK, threads, server
<1>5. CASE Connect
  BY <1>2, <1>5 DEF Connect, Typed, TypeOK, threads, server
<1>6. CASE Greeted
  <2>1. /\ wire' \in Seq(Unit) /\ sock' \in BOOLEAN
        /\ peer' \in {"open", "closed", "reset"} /\ main' \in MainPhases
        /\ outcome' \in {"none", "failed", "timeout", "detail"}
        /\ wrapper' \in
             [fatal : BOOLEAN, leaving : BOOLEAN, dead : BOOLEAN, smashed : BOOLEAN]
    <3>1. CASE main' = "start" /\ wire' = <<>> /\ UNCHANGED <<sock, peer, wrapper, outcome>>
      BY <1>1, <1>2, <3>1 DEF Typed, TypeOK
    <3>2. CASE /\ wrapper' = Complained(502) /\ main' = "spin" /\ wire' = <<>>
               /\ UNCHANGED <<sock, peer, outcome>>
      BY <1>1, <1>2, <3>2, ComplainedType DEF Typed, TypeOK
    <3>3. CASE Disconnected /\ NotConnected
      BY <1>3, <3>3, DisconnectedTypes
    <3>4. QED
      BY <1>6, <3>1, <3>2, <3>3 DEF Greeted
  <2>2. UNCHANGED <<reader, queue, open, alive, flags, handled, tws, sent, extras, cut>>
    BY <1>6 DEF Greeted, threads, server
  <2>3. QED
    BY <2>1, <2>2 DEF Typed, TypeOK
<1>7. CASE NotGreeted
  BY <1>3, <1>7, DisconnectedTypes DEF NotGreeted, Typed, TypeOK, threads, server
<1>8. CASE StartApi
  <2>1. "wait1" \in MainPhases
    BY <1>2
  <2>2. Ask("start", "wait1")
    BY <1>8 DEF StartApi
  <2>3. UNCHANGED <<queue, open, alive, outcome, flags, handled, sent, extras, cut>>
    BY <1>8 DEF StartApi
  <2>4. reader' = ReaderAt("top")
    BY <1>8 DEF StartApi
  <2>5. reader' \in Readers
    BY <2>4, ReaderAtType
  <2>6. /\ wire' \in Seq(Unit) /\ peer' \in {"open", "closed", "reset"}
        /\ sock' \in BOOLEAN /\ main' \in MainPhases /\ tws' \in Seq(Message)
        /\ wrapper' \in
             [fatal : BOOLEAN, leaving : BOOLEAN, dead : BOOLEAN, smashed : BOOLEAN]
    BY <2>1, <2>2, AskTypes
  <2>7. /\ queue' \in Seq(Message \cup {Damaged}) /\ open' \in BOOLEAN /\ alive' \in BOOLEAN
        /\ outcome' \in {"none", "failed", "timeout", "detail"}
        /\ flags' \subseteq {"ids", "accts", "named", "sumEnd", "posEnd"}
        /\ sent' \in Seq(Message) /\ handled' \in Seq(Message \cup {Damaged})
        /\ extras' \in Nat /\ cut' \in BOOLEAN
    BY <2>3 DEF Typed, TypeOK
  <2>8. TypeOK'
    BY <2>5, <2>6, <2>7 DEF TypeOK, Readers
  <2>9. QED
    BY <2>6, <2>7, <2>8 DEF Typed
<1>9. QED
  BY <1>4, <1>5, <1>6, <1>7, <1>8

LEMMA WaitTypes ==
  ASSUME Typed, Woken \/ HandleMsg \/ Drained
  PROVE  Typed'
<1>1. CASE Woken
  <2>1. main' \in MainPhases
    BY <1>1, WaitPhases DEF Woken
  <2>2. /\ open' \in BOOLEAN
        /\ UNCHANGED <<wire, peer, sock, reader, queue, alive, wrapper, outcome, flags,
                       handled, tws, sent, extras, cut>>
    BY <1>1 DEF Woken, server
  <2>3. QED
    BY <2>1, <2>2 DEF Typed, TypeOK
<1>2. CASE HandleMsg
  <2>1. main' \in MainPhases
    BY <1>2, WaitPhases DEF HandleMsg
  <2>2. /\ Tail(queue) \in Seq(Message \cup {Damaged})
        /\ Head(queue) \in Message \cup {Damaged}
    BY <1>2, HeadTailProperties DEF HandleMsg, Typed, TypeOK
  <2>3. Append(handled, Head(queue)) \in Seq(Message \cup {Damaged})
    BY <2>2 DEF Typed, TypeOK
  <2>4. Callback(Head(queue)) /\ TypeOK
    BY <1>2 DEF HandleMsg, Typed
  <2>5. /\ flags' \subseteq {"ids", "accts", "named", "sumEnd", "posEnd"}
        /\ wrapper' \in
             [fatal : BOOLEAN, leaving : BOOLEAN, dead : BOOLEAN, smashed : BOOLEAN]
    BY <2>4, CallbackTypes
  <2>6. QED
    BY <1>2, <2>1, <2>2, <2>3, <2>5 DEF HandleMsg, Typed, TypeOK, server
<1>3. CASE Drained
  <2>1. main' \in MainPhases
    BY <1>3, WaitPhases DEF Drained
  <2>2. QED
    BY <1>3, <2>1 DEF Drained, Typed, TypeOK, server, streamVars, threads
<1>4. QED
  BY <1>1, <1>2, <1>3

LEMMA FetchTypes ==
  ASSUME Typed, AfterHandshake \/ AfterAccounts \/ ChooseAccount \/ Requests
  PROVE  Typed'
<1>1. {"choose", "ask1", "ask2", "ask4", "leave", "wait2", "wait3"} \subseteq MainPhases
  BY DEF MainPhases, Waits
<1>2. TypeOK /\ "failed" \in {"failed", "timeout", "detail"}
             /\ "timeout" \in {"failed", "timeout", "detail"}
  BY DEF Typed
<1>3. CASE AfterHandshake
  <2>1. UNCHANGED <<reader, queue, open, alive, flags, handled, sent, extras, cut>>
    BY <1>3 DEF AfterHandshake, threads
  <2>2. CASE Return("failed") /\ UNCHANGED <<sock, wire, peer, tws>>
    BY <1>2, <2>1, <2>2, ReturnTypes DEF Typed, TypeOK
  <2>3. CASE Disconnected /\ Return("timeout") /\ UNCHANGED tws
    BY <1>2, <2>1, <2>3, ReturnTypes, DisconnectedTypes DEF Typed, TypeOK
  <2>4. CASE main' = "choose" /\ UNCHANGED <<sock, wire, peer, wrapper, outcome, tws>>
    BY <1>1, <2>1, <2>4 DEF Typed, TypeOK
  <2>5. CASE Ask("accts", "wait2") /\ UNCHANGED outcome
    BY <1>1, <2>1, <2>5, AskTypes DEF Typed, TypeOK
  <2>6. QED
    BY <1>3, <2>2, <2>3, <2>4, <2>5 DEF AfterHandshake
<1>4. CASE AfterAccounts
  BY <1>1, <1>4 DEF AfterAccounts, Typed, TypeOK, server, streamVars, threads
<1>5. CASE ChooseAccount
  <2>1. UNCHANGED <<wire, peer, sock, reader, queue, open, alive, flags, handled, tws, sent, extras, cut>>
    BY <1>5 DEF ChooseAccount, threads, server
  <2>2. CASE Return("failed")
    BY <1>2, <2>1, <2>2, ReturnTypes DEF Typed, TypeOK
  <2>3. CASE main' = "ask1" /\ UNCHANGED <<wrapper, outcome>>
    BY <1>1, <2>1, <2>3 DEF Typed, TypeOK
  <2>4. QED
    BY <1>5, <2>2, <2>3 DEF ChooseAccount
<1>6. CASE Requests
  <2>1. UNCHANGED <<reader, queue, open, alive, outcome, flags, handled, sent, extras, cut>>
    BY <1>6 DEF Requests, threads
  <2>2. \E r \in {"summary", "updates", "cancel", "stop"}, n \in MainPhases : Ask(r, n)
    BY <1>1, <1>6 DEF Requests
  <2>3. /\ wire' \in Seq(Unit) /\ peer' \in {"open", "closed", "reset"}
        /\ sock' \in BOOLEAN /\ main' \in MainPhases /\ tws' \in Seq(Message)
        /\ wrapper' \in
             [fatal : BOOLEAN, leaving : BOOLEAN, dead : BOOLEAN, smashed : BOOLEAN]
    BY <2>2, AskTypes
  <2>4. QED
    BY <2>1, <2>3 DEF Typed, TypeOK
<1>7. QED
  BY <1>3, <1>4, <1>5, <1>6

LEMMA EndTypes ==
  ASSUME Typed, HangUp \/ Disconnect \/ Judge \/ StopReader \/ Joined
  PROVE  Typed'
<1>1. {"hangup", "judge", "done"} \subseteq MainPhases
  BY DEF MainPhases
<1>2. CASE Disconnect
  BY <1>1, <1>2, DisconnectedTypes DEF Disconnect, Typed, TypeOK, threads, server
<1>3. CASE Judge
  <2>1. \E result \in {"failed", "timeout", "detail"} : Return(result)
    BY <1>3 DEF Judge
  <2>2. TypeOK /\ UNCHANGED <<wire, peer, sock, reader, queue, open, alive, flags, handled,
                              tws, sent, extras, cut>>
    BY <1>3 DEF Judge, threads, server, Typed
  <2>3. QED
    BY <2>1, <2>2, ReturnTypes DEF Typed, TypeOK
<1>4. CASE StopReader
  <2>1. /\ wire' \in Seq(Unit) /\ sock' \in BOOLEAN
        /\ peer' \in {"open", "closed", "reset"} /\ alive' \in BOOLEAN
    BY <1>4, DisconnectedTypes DEF StopReader
  <2>2. UNCHANGED <<reader, queue, open, wrapper, main, outcome, flags, handled,
                    tws, sent, extras, cut>>
    BY <1>4 DEF StopReader, threads, fetch, server
  <2>3. QED
    BY <2>1, <2>2 DEF Typed, TypeOK
<1>5. CASE Joined
  BY <1>1, <1>5 DEF Joined, Typed, TypeOK, streamVars, threads, server
<1>6. CASE HangUp
  <2>1. main' = "hangup" /\ wrapper' = [wrapper EXCEPT !.leaving = TRUE]
    BY <1>6 DEF HangUp
  <2>2. UNCHANGED <<wire, peer, sock, reader, queue, open, alive, outcome, flags, handled,
                    tws, sent, extras, cut>>
    BY <1>6 DEF HangUp, threads, server
  <2>3. main' \in MainPhases
    BY <1>1, <2>1
  <2>4. wrapper' \in
          [fatal : BOOLEAN, leaving : BOOLEAN, dead : BOOLEAN, smashed : BOOLEAN]
    BY <2>1 DEF Typed, TypeOK
  <2>5. QED
    BY <2>2, <2>3, <2>4 DEF Typed, TypeOK
<1>7. QED
  BY <1>2, <1>3, <1>4, <1>5, <1>6

LEMMA ReaderTypes ==
  ASSUME Typed, ReaderStep, reader.pc = "close" => reader.back # "none"
  PROVE  Typed'
<1>1. UNCHANGED <<main, outcome, flags, handled, tws, sent, extras, cut>>
  BY DEF ReaderStep, ReaderWorks, fetch, server
<1>2. SUFFICES
        /\ wire' \in Seq(Unit) /\ sock' \in BOOLEAN
        /\ peer' \in {"open", "closed", "reset"} /\ reader' \in Readers
        /\ queue' \in Seq(Message \cup {Damaged})
        /\ open' \in BOOLEAN /\ alive' \in BOOLEAN
        /\ wrapper' \in
             [fatal : BOOLEAN, leaving : BOOLEAN, dead : BOOLEAN, smashed : BOOLEAN]
  BY <1>1, <1>2 DEF Typed, TypeOK, Readers
<1>3. /\ wire \in Seq(Unit) /\ sock \in BOOLEAN
      /\ peer \in {"open", "closed", "reset"} /\ reader \in Readers
      /\ queue \in Seq(Message \cup {Damaged})
      /\ open \in BOOLEAN /\ alive \in BOOLEAN
      /\ wrapper \in
           [fatal : BOOLEAN, leaving : BOOLEAN, dead : BOOLEAN, smashed : BOOLEAN]
      /\ reader.buf \in Seq(Unit) /\ reader.padded \in BOOLEAN
      /\ reader.back \in {"none", "read", "leave", "last"}
  BY DEF Typed, TypeOK, Readers
<1>4. ASSUME NEW back \in {"read", "leave", "last"}, Complains(back)
      PROVE  reader' \in Readers /\ UNCHANGED <<wire, peer, sock, wrapper>>
  BY <1>3, <1>4 DEF Complains, Readers
<1>5. CASE NotAlive \/ LastSignal
  BY <1>3, <1>5, ReaderAtType DEF NotAlive, LastSignal
<1>6. CASE TakeNext
  <2>1. reader' \in Readers
    BY <1>3, <1>6, ReaderAtType DEF TakeNext, Readers
  <2>2. QED
    BY <1>3, <1>6, <2>1 DEF TakeNext
<1>7. CASE SocketGone
  <2>1. \A b \in BOOLEAN : [ReaderAt("leave") EXCEPT !.badf = b] \in Readers
    BY ReaderAtType DEF Readers
  <2>2. QED
    BY <1>3, <1>7, <2>1 DEF SocketGone
<1>8. CASE Receive
  <2>1. PICK n \in 1..Len(wire) :
          /\ reader' = [reader EXCEPT !.buf = @ \o SubSeq(wire, 1, n)]
          /\ wire' = SubSeq(wire, n + 1, Len(wire))
    BY <1>8 DEF Receive
  <2>2. n \in 0..Len(wire)
    BY <1>3, LenProperties
  <2>3. SubSeq(wire, 1, n) \in Seq(Unit) /\ SubSeq(wire, n + 1, Len(wire)) \in Seq(Unit)
    BY <1>3, <2>2, PrefixType
  <2>4. reader.buf \o SubSeq(wire, 1, n) \in Seq(Unit)
    BY <1>3, <2>3, ConcatProperties
  <2>5. reader' \in Readers
    BY <1>3, <2>1, <2>4 DEF Readers
  <2>6. QED
    BY <1>3, <1>8, <2>1, <2>3, <2>5 DEF Receive
<1>9. CASE ReceiveEnd
  <2>1. reader' \in Readers
    BY <1>3, <1>9, ReaderAtType DEF ReceiveEnd, Readers
  <2>2. QED
    BY <1>3, <1>9, <2>1, DisconnectedTypes DEF ReceiveEnd
<1>10. CASE PutMessage
  <2>1. \A u \in Unit : u.of \in Message
    BY DEF Unit
  <2>2. ~reader.padded => reader.buf # <<>>
    BY <1>3, <1>10, EmptySeq DEF PutMessage, Enough
  <2>3. ~reader.padded => Head(reader.buf) \in Unit
    BY <1>3, <2>2, HeadTailProperties
  <2>4. (IF reader.padded THEN Damaged ELSE Head(reader.buf).of) \in Message \cup {Damaged}
    BY <2>1, <2>3
  <2>5. queue' \in Seq(Message \cup {Damaged})
    BY <1>3, <1>10, <2>4 DEF PutMessage
  <2>6. ~reader.padded => 2 \in 0..Len(reader.buf)
    BY <1>3, <1>10, LenProperties DEF PutMessage, Enough
  <2>7. ~reader.padded => SubSeq(reader.buf, 3, Len(reader.buf)) \in Seq(Unit)
    BY <1>3, <2>6, PrefixType
  <2>8. << >> \in Seq(Unit)
    OBVIOUS
  <2>9. reader' \in Readers
    BY <1>3, <1>10, <2>7, <2>8 DEF PutMessage, Readers
  <2>10. QED
    BY <1>3, <1>10, <2>5, <2>9 DEF PutMessage
<1>11. CASE BadLength
  BY <1>3, <1>11, ReaderAtType DEF BadLength
<1>12. CASE IssueSignal
  <2>1. reader' \in Readers
    BY <1>3, <1>12 DEF IssueSignal, Readers
  <2>2. QED
    BY <1>3, <1>12, <2>1 DEF IssueSignal
<1>13. CASE Leave
  <2>1. /\ reader' \in Readers /\ UNCHANGED <<wire, peer, sock, wrapper>>
        /\ UNCHANGED <<queue, open, alive>>
    BY <1>4, <1>13, ReaderAtType DEF Leave
  <2>2. QED
    BY <1>3, <2>1
<1>14. CASE ReceiveError
  <2>1. /\ reader' \in Readers /\ UNCHANGED <<wire, peer, sock, wrapper>>
        /\ UNCHANGED <<queue, open, alive>>
    BY <1>4, <1>14 DEF ReceiveError
  <2>2. QED
    BY <1>3, <2>1
<1>15. CASE SetFatal
  <2>1. reader' \in Readers
    BY <1>3, <1>15 DEF SetFatal, Readers
  <2>2. QED
    BY <1>3, <1>15, <2>1 DEF SetFatal
<1>16. CASE SetText
  <2>1. reader' \in Readers
    BY <1>3, <1>16 DEF SetText, Readers
  <2>2. (wrapper.smashed \/ wrapper.dead) \in BOOLEAN
    OBVIOUS
  <2>3. wrapper' = [wrapper EXCEPT !.smashed = wrapper.smashed \/ wrapper.dead]
    BY <1>16 DEF SetText
  <2> DEFINE smashed == wrapper.smashed \/ wrapper.dead
  <2> HIDE DEF smashed
  <2>4. wrapper' = [wrapper EXCEPT !.smashed = smashed] /\ smashed \in BOOLEAN
    BY <2>2, <2>3 DEF smashed
  <2>5. wrapper' \in
          [fatal : BOOLEAN, leaving : BOOLEAN, dead : BOOLEAN, smashed : BOOLEAN]
    BY <1>3, <2>4
  <2>6. QED
    BY <1>3, <1>16, <2>1, <2>5 DEF SetText
<1>17. CASE CloseSocket
  <2>1. reader' \in Readers
    <3>1. reader.back \in {"read", "leave", "last"} => reader' \in Readers
      BY <1>3, <1>17, ReaderAtType DEF CloseSocket, Readers
    <3>2. reader.back # "none"
      BY <1>17 DEF CloseSocket
    <3>3. QED
      BY <1>3, <3>1, <3>2
  <2>2. QED
    BY <1>3, <1>17, <2>1, DisconnectedTypes DEF CloseSocket
<1>18. QED
  BY <1>5, <1>6, <1>7, <1>8, <1>9, <1>10, <1>11, <1>12, <1>13, <1>14, <1>15, <1>16, <1>17
     DEF ReaderStep, ReaderWorks, ReaderRuns

LEMMA ServerTypes ==
  ASSUME Typed, ServerStep
  PROVE  Typed'
<1>1. \A m \in Message : wire \o UnitsOf(m) \in Seq(Unit) /\ Append(sent, m) \in Seq(Message)
  <2>1. wire \in Seq(Unit) /\ sent \in Seq(Message)
    BY DEF Typed, TypeOK
  <2>2. \A m \in Message : wire \o UnitsOf(m) \in Seq(Unit)
    BY <2>1, UnitsType, ConcatProperties
  <2>3. \A m \in Message : Append(sent, m) \in Seq(Message)
    BY <2>1
  <2>4. QED
    BY <2>2, <2>3
<1>2. CASE Greet
  <2>1. wire' \in Seq(Unit)
    BY <1>2, MessageKinds, UnitsType DEF Greet
  <2>2. QED
    BY <1>2, <2>1 DEF Greet, Typed, TypeOK, threads, fetch, server
<1>3. CASE SendNext
  <2>1. Head(tws) \in Message /\ Tail(tws) \in Seq(Message)
    BY <1>3, HeadTailProperties DEF SendNext, Typed
  <2>2. wire' \in Seq(Unit) /\ sent' \in Seq(Message)
    BY <1>1, <1>3, <2>1 DEF SendNext, Sends
  <2>3. QED
    BY <1>3, <2>1, <2>2 DEF SendNext, Sends, Typed, TypeOK, threads, fetch
<1>4. CASE SendUnasked
  <2>1. PICK m \in {"pos", "warn", "err"} : Sends(m)
    BY <1>4 DEF SendUnasked
  <2>2. m \in Message
    BY KindTypes
  <2>3. wire' \in Seq(Unit) /\ sent' \in Seq(Message)
    BY <1>1, <2>1, <2>2 DEF Sends
  <2>4. QED
    BY <1>4, <2>1, <2>3 DEF SendUnasked, Sends, Typed, TypeOK, threads, fetch
<1>5. CASE GoAway
  <2>1. PICK n \in 0..Len(wire) :
          wire' \in {SubSeq(wire, 1, n)} \cup
                   {SubSeq(wire, 1, n) \o <<[of |-> wire[k].of, part |-> 0]>> :
                      k \in {j \in {n + 1} \cap DOMAIN wire : wire[j].part = 1}}
    BY <1>5 DEF GoAway
  <2>2. SubSeq(wire, 1, n) \in Seq(Unit)
    BY PrefixType DEF Typed, TypeOK
  <2>3. \A k \in DOMAIN wire : wire[k] \in Unit
    BY ElementOfSeq, LenProperties DEF Typed, TypeOK
  <2>4. \A k \in DOMAIN wire : <<[of |-> wire[k].of, part |-> 0]>> \in Seq(Unit)
    BY <2>3 DEF Unit
  <2>5. wire' \in Seq(Unit)
    BY <2>1, <2>2, <2>4, ConcatProperties
  <2>6. QED
    BY <1>5, <2>5 DEF GoAway, Typed, TypeOK, threads, fetch, server
<1>6. QED
  BY <1>2, <1>3, <1>4, <1>5 DEF ServerStep

------------------------------------------------------------------------------
(* The stream.  `Base' messages have left the reader; what is on the way   *)
(* to it is, unit by unit, what TWS sent after them.                       *)

Base == Len(handled) + Len(queue)
Incoming == reader.buf \o wire
Early == {"connect", "greet", "start", "spin"}

(* Before the session there is nothing in it. *)
EarlyInv ==
  main \in Early =>
    /\ sent = <<>> /\ tws = <<>> /\ handled = <<>> /\ queue = <<>>
    /\ alive /\ reader = ReaderAt("off")
    /\ main # "greet" => wire = <<>>
    /\ main = "connect" => ~sock

(* The reader is inside handleSocketError.                                 *)
Complaining == {"fatal", "text", "close"}

SocketInv ==
  /\ ~sock => wire = <<>> /\ peer = "closed"
  /\ ~alive => ~sock
  /\ reader.padded => ~sock
  /\ reader.pc = "read" => reader.buf # <<>>
  /\ reader.pc \in {"leave", "last", "gone"} => ~sock
  /\ reader.pc \in Complaining =>
       /\ reader.back \in {"read", "leave", "last"}
       /\ reader.back = "read" => reader.buf # <<>>
       /\ reader.back = "last" => ~sock

(* The reader has put its last message. *)
Ended ==
  \/ reader.pc \in {"signal", "top"} /\ reader.padded /\ reader.buf = <<>>
  \/ reader.pc \in {"leave", "last", "gone"}
  \/ reader.pc \in Complaining /\ reader.back = "last"

QueueInv ==
  /\ Base <= Len(sent)
  /\ \A i \in 1..Len(queue) :
       \/ queue[i] = sent[Len(handled) + i]
       \/ queue[i] = Damaged /\ i = Len(queue) /\ Ended
  /\ handled # <<>> /\ handled[Len(handled)] = Damaged => queue = <<>> /\ Ended

IncomingInv ==
  main \notin Early =>
    /\ Len(Incoming) <= 2 * (Len(sent) - Base)
    /\ Up => Len(Incoming) = 2 * (Len(sent) - Base)
    /\ \A i \in 1..Len(Incoming) : Incoming[i].of = sent[Base + ((i + 1) \div 2)]

(* A message in the queue has its signal, or is about to. *)
WakeInv ==
  main \in {"wait1", "wait2", "wait3", "choose", "ask1", "ask2"} /\ queue # <<>> =>
    open \/ reader.pc = "signal"

StreamInv == EarlyInv /\ SocketInv /\ QueueInv /\ IncomingInv

LEMMA IncomingTypes ==
  ASSUME Typed
  PROVE  /\ Incoming \in Seq(Unit) /\ Len(Incoming) = Len(reader.buf) + Len(wire)
         /\ reader.buf \in Seq(Unit) /\ Len(reader.buf) \in Nat /\ Len(wire) \in Nat
         /\ Base \in Nat /\ Len(handled) \in Nat /\ Len(queue) \in Nat /\ Len(sent) \in Nat
         /\ \A i \in 1..Len(reader.buf) : Incoming[i] = reader.buf[i]
<1>1. reader.buf \in Seq(Unit) /\ wire \in Seq(Unit)
  BY DEF Typed, TypeOK
<1>2. Len(handled) \in Nat /\ Len(queue) \in Nat /\ Len(sent) \in Nat
  BY LenProperties DEF Typed, TypeOK
<1>3. Len(reader.buf) \in Nat /\ Len(wire) \in Nat
  BY <1>1, LenProperties
<1>4. /\ Incoming \in Seq(Unit) /\ Len(Incoming) = Len(reader.buf) + Len(wire)
      /\ \A i \in 1..Len(reader.buf) + Len(wire) :
           Incoming[i] = IF i <= Len(reader.buf) THEN reader.buf[i]
                         ELSE wire[i - Len(reader.buf)]
  BY <1>1, ConcatProperties DEF Incoming
<1>5. \A i \in 1..Len(reader.buf) : Incoming[i] = reader.buf[i]
  BY <1>3, <1>4
<1>6. QED
  BY <1>1, <1>2, <1>3, <1>4, <1>5 DEF Base

(* A step that leaves the stream alone. *)
LEMMA StreamFrame ==
  ASSUME StreamInv, main \notin Early, main' \notin Early,
         UNCHANGED <<wire, peer, sock, reader, queue, alive, handled, sent>>
  PROVE  StreamInv'
<1>1. EarlyInv'
  BY DEF EarlyInv
<1>2. SocketInv'
  BY DEF StreamInv, SocketInv
<1>3. QueueInv'
  BY DEF StreamInv, QueueInv, Base, Ended
<1>4. IncomingInv'
  BY DEF StreamInv, IncomingInv, Incoming, Base, Up
<1>5. QED
  BY <1>1, <1>2, <1>3, <1>4 DEF StreamInv

(* A step that disconnects: what was on the wire is gone, what the reader  *)
(* has is still the start of it.                                           *)
LEMMA StreamHungUp ==
  ASSUME Typed, StreamInv, main \notin Early, main' \notin Early, Disconnected,
         UNCHANGED <<reader, queue, handled, sent>>
  PROVE  StreamInv'
<1>1. EarlyInv'
  BY DEF EarlyInv
<1>2. SocketInv'
  BY DEF StreamInv, SocketInv, Disconnected
<1>3. QueueInv'
  BY DEF StreamInv, QueueInv, Base, Ended
<1>4. Incoming' = reader.buf
  <2>1. Incoming' = reader.buf \o <<>>
    BY DEF Incoming, Disconnected
  <2>2. QED
    BY <2>1, IncomingTypes, ConcatEmptySeq
<1>5. IncomingInv'
  <2>1. /\ Len(Incoming) <= 2 * (Len(sent) - Base)
        /\ \A i \in 1..Len(Incoming) : Incoming[i].of = sent[Base + ((i + 1) \div 2)]
    BY DEF StreamInv, IncomingInv
  <2>2. Base' = Base /\ sent' = sent /\ ~Up'
    BY DEF Base, Up, Disconnected
  <2>3. Len(reader.buf) <= Len(Incoming)
    BY IncomingTypes
  <2>4. \A i \in 1..Len(reader.buf) : i \in 1..Len(Incoming) /\ Incoming[i] = reader.buf[i]
    BY IncomingTypes
  <2>5. Len(reader.buf) <= 2 * (Len(sent) - Base)
    BY <2>1, <2>3, IncomingTypes
  <2>6. \A i \in 1..Len(reader.buf) : reader.buf[i].of = sent[Base + ((i + 1) \div 2)]
    BY <2>1, <2>4
  <2>7. QED
    BY <1>4, <2>2, <2>5, <2>6 DEF IncomingInv
<1>6. QED
  BY <1>1, <1>2, <1>3, <1>5 DEF StreamInv

LEMMA StreamConnection ==
  ASSUME Typed, StreamInv, ConnectFails \/ Connect \/ Greeted \/ NotGreeted \/ StartApi
  PROVE  StreamInv'
<1>1. /\ main \in {"connect", "greet", "start"} /\ main \in Early
      /\ main = "connect" => ConnectFails \/ Connect
      /\ main = "greet" => Greeted \/ NotGreeted
      /\ main = "start" => StartApi
  BY DEF ConnectFails, Connect, Greeted, NotGreeted, StartApi, Early
<1>2. /\ sent = <<>> /\ tws = <<>> /\ handled = <<>> /\ queue = <<>>
      /\ alive /\ reader = ReaderAt("off") /\ (main = "start" => wire = <<>>)
      /\ (main = "connect" => wire = <<>>)
  BY <1>1 DEF StreamInv, EarlyInv
<1>3. UNCHANGED <<sent, handled, queue, alive>>
  BY DEF ConnectFails, Connect, Greeted, NotGreeted, StartApi, threads, server
<1>4. reader' = ReaderAt("off") \/ (main = "start" /\ reader' = ReaderAt("top"))
  BY <1>2 DEF ConnectFails, Connect, Greeted, NotGreeted, StartApi, threads
<1>5. reader'.buf = <<>> /\ ~reader'.padded /\ reader'.pc \in {"off", "top"}
  BY <1>4 DEF ReaderAt
<1>6. QueueInv'
  BY <1>2, <1>3 DEF QueueInv, Base
<1>7. main' \notin Early => wire' = <<>>
  <2>1. CASE main = "connect"
    BY <1>1, <1>2, <2>1 DEF ConnectFails, Connect, Early
  <2>2. CASE main = "greet"
    BY <1>1, <2>2 DEF Greeted, NotGreeted, Disconnected, Early
  <2>3. CASE main = "start"
    BY <1>1, <1>2, <2>3 DEF StartApi, Ask, Disconnected, Early
  <2>4. QED
    BY <1>1, <2>1, <2>2, <2>3
<1>8. IncomingInv'
  <2>1. wire' = <<>> => Incoming' = <<>>
    BY <1>5 DEF Incoming
  <2>2. Base' = 0 /\ Len(sent') = 0
    BY <1>2, <1>3 DEF Base
  <2>3. QED
    BY <1>7, <2>1, <2>2 DEF IncomingInv
<1>9. SocketInv'
  <2>1. CASE main = "connect"
    BY <1>1, <1>2, <1>3, <1>5, <2>1 DEF StreamInv, SocketInv, Complaining, ConnectFails, Connect
  <2>2. CASE main = "greet"
    BY <1>1, <1>2, <1>3, <1>5, <2>2 DEF StreamInv, SocketInv, Complaining, Greeted, NotGreeted,
       Disconnected
  <2>3. CASE main = "start"
    BY <1>1, <1>2, <1>3, <1>5, <2>3 DEF StreamInv, SocketInv, Complaining, StartApi, Ask, Disconnected
  <2>4. QED
    BY <1>1, <2>1, <2>2, <2>3
<1>10. EarlyInv'
  <2>1. CASE main = "connect"
    BY <1>1, <1>2, <2>1 DEF ConnectFails, Connect, NotConnected, EarlyInv, Early, threads, server
  <2>2. CASE main = "greet"
    BY <1>1, <1>2, <2>2 DEF Greeted, NotGreeted, NotConnected, EarlyInv, Early, threads, server
  <2>3. CASE main = "start"
    BY <1>1, <2>3 DEF StartApi, Ask, EarlyInv, Early
  <2>4. QED
    BY <1>1, <2>1, <2>2, <2>3
<1>11. QED
  BY <1>6, <1>8, <1>9, <1>10 DEF StreamInv

LEMMA NotEarly ==
  /\ Waits \cap Early = {} /\ Drains \cap Early = {}
BY WaitPhases DEF Early

LEMMA StreamWaits ==
  ASSUME Typed, StreamInv, Woken \/ Drained
  PROVE  StreamInv'
<1>1. main \notin Early /\ main' \notin Early
  BY WaitPhases, NotEarly DEF Woken, Drained
<1>2. UNCHANGED <<wire, peer, sock, reader, queue, alive, handled, sent>>
  BY DEF Woken, Drained, streamVars, threads, server
<1>3. QED
  BY <1>1, <1>2, StreamFrame

LEMMA StreamHandles ==
  ASSUME Typed, StreamInv, HandleMsg
  PROVE  /\ StreamInv'
         /\ Stream!Handle
         /\ Head(queue) = Damaged => queue' = <<>>
<1>1. main \notin Early /\ main' \notin Early
  BY WaitPhases, NotEarly DEF HandleMsg
<1>2. /\ queue # <<>> /\ queue' = Tail(queue)
      /\ handled' = Append(handled, Head(queue))
      /\ UNCHANGED <<wire, peer, sock, reader, alive, sent>>
  BY DEF HandleMsg, server
<1>3. queue \in Seq(Msgs) /\ handled \in Seq(Msgs)
  BY DEF Typed, TypeOK, Msgs
<1>4. /\ Len(queue') = Len(queue) - 1 /\ Len(queue) \in Nat \ {0}
      /\ \A i \in 1..Len(queue') : queue'[i] = queue[i + 1]
      /\ Head(queue) = queue[1]
      /\ Len(handled) \in Nat
  BY <1>2, <1>3, HeadTailProperties, EmptySeq, LenProperties
<1>5. /\ Len(handled') = Len(handled) + 1
      /\ handled'[Len(handled')] = Head(queue)
  BY <1>2, <1>3
<1>6. Base' = Base
  BY <1>4, <1>5 DEF Base
<1>7. /\ Base <= Len(sent)
      /\ \A i \in 1..Len(queue) :
           \/ queue[i] = sent[Len(handled) + i]
           \/ queue[i] = Damaged /\ i = Len(queue) /\ Ended
      /\ handled # <<>> /\ handled[Len(handled)] = Damaged => queue = <<>> /\ Ended
  BY DEF StreamInv, QueueInv
<1>8. Ended' = Ended
  BY <1>2 DEF Ended
<1>9. ASSUME Head(queue) = Damaged
      PROVE  queue' = <<>> /\ Ended
  <2>1. sent[Len(handled) + 1] # Damaged
    <3>1. Len(handled) + 1 \in 1..Len(sent)
      BY <1>4, <1>7, IncomingTypes DEF Base
    <3>2. sent[Len(handled) + 1] \in Message
      BY <3>1, ElementOfSeq DEF Typed, TypeOK
    <3>3. QED
      BY <3>2, MessageAssumption
  <2>2. Len(queue) = 1 /\ Ended
    BY <1>4, <1>7, <1>9, <2>1
  <2>3. Len(queue') = 0
    <3>1. Len(queue') = Len(queue) - 1
      BY <1>4
    <3>2. QED
      BY <2>2, <3>1
  <2>4. queue' \in Seq(Msgs)
    BY <1>2, <1>3, HeadTailProperties
  <2>5. QED
    BY <2>2, <2>3, <2>4, EmptySeq
<1>10. QueueInv'
  <2>1. Base' <= Len(sent')
    BY <1>2, <1>6, <1>7
  <2>2. ASSUME NEW i \in 1..Len(queue')
        PROVE  \/ queue'[i] = sent'[Len(handled') + i]
               \/ queue'[i] = Damaged /\ i = Len(queue') /\ Ended'
    <3>1. i + 1 \in 1..Len(queue) /\ i \in Nat
      BY <1>4
    <3>2. \/ queue[i + 1] = sent[Len(handled) + (i + 1)]
          \/ queue[i + 1] = Damaged /\ i + 1 = Len(queue) /\ Ended
      BY <1>7, <3>1
    <3>3. Len(handled) + (i + 1) = Len(handled') + i
      BY <1>4, <1>5, <3>1
    <3>4. queue'[i] = queue[i + 1] /\ (i + 1 = Len(queue) => i = Len(queue'))
      BY <1>4, <3>1
    <3>5. QED
      BY <1>2, <1>8, <3>2, <3>3, <3>4
  <2>3. handled' # <<>> /\ handled'[Len(handled')] = Damaged => queue' = <<>> /\ Ended'
    BY <1>5, <1>8, <1>9
  <2>4. QED
    BY <2>1, <2>2, <2>3 DEF QueueInv
<1>11. IncomingInv'
  <2>1. Incoming' = Incoming /\ Up' = Up
    BY <1>2 DEF Incoming, Up
  <2>2. QED
    BY <1>1, <1>2, <1>6, <2>1 DEF StreamInv, IncomingInv
<1>12. SocketInv' /\ EarlyInv'
  BY <1>1, <1>2 DEF StreamInv, SocketInv, EarlyInv
<1>13. Stream!Handle
  <2>1. ~Stream!Broken
    BY <1>2, <1>7 DEF Stream!Broken
  <2>2. Len(handled) < Len(sent)
    BY <1>4, <1>7, IncomingTypes DEF Base
  <2>3. Head(queue) \in {sent[Len(handled) + 1], Damaged}
    BY <1>4, <1>7
  <2>4. QED
    BY <1>2, <2>1, <2>2, <2>3 DEF Stream!Handle
<1>14. QED
  BY <1>9, <1>10, <1>11, <1>12, <1>13 DEF StreamInv

LEMMA StreamAsk ==
  ASSUME Typed, StreamInv, main \notin Early, NEW request, NEW next, next \notin Early,
         Ask(request, next), UNCHANGED <<reader, queue, alive, handled, sent>>
  PROVE  StreamInv'
<1>1. main' \notin Early
  BY DEF Ask, Early
<1>2. CASE Disconnected
  BY <1>1, <1>2, StreamHungUp
<1>3. CASE UNCHANGED <<sock, wire, peer>>
  BY <1>1, <1>3, StreamFrame
<1>4. QED
  BY <1>2, <1>3 DEF Ask

LEMMA StreamFetch ==
  ASSUME Typed, StreamInv,
         \/ AfterHandshake \/ AfterAccounts \/ ChooseAccount \/ Requests
         \/ HangUp \/ Disconnect \/ Judge \/ StopReader \/ Joined
  PROVE  StreamInv'
<1>1. main \notin Early
  BY DEF AfterHandshake, AfterAccounts, ChooseAccount, Requests, HangUp, Disconnect, Judge,
         StopReader, Joined, Early
<1>2. UNCHANGED <<reader, queue, handled, sent>>
  BY DEF AfterHandshake, AfterAccounts, ChooseAccount, Requests, HangUp, Disconnect, Judge,
         StopReader, Joined, streamVars, threads, fetch, server
<1>3. CASE AfterHandshake
  <2>1. UNCHANGED alive
    BY <1>3 DEF AfterHandshake
  <2>2. CASE Return("failed") /\ UNCHANGED <<sock, wire, peer, tws>>
    <3>1. main' \notin Early
      BY <2>2 DEF Return, Early
    <3>2. QED
      BY <1>1, <1>2, <2>1, <2>2, <3>1, StreamFrame
  <2>3. CASE Disconnected /\ Return("timeout")
    <3>1. main' \notin Early
      BY <2>3 DEF Return, Early
    <3>2. QED
      BY <1>1, <1>2, <2>3, <3>1, StreamHungUp
  <2>4. CASE main' = "choose" /\ UNCHANGED <<sock, wire, peer, wrapper, outcome, tws>>
    <3>1. main' \notin Early
      BY <2>4 DEF Early
    <3>2. QED
      BY <1>1, <1>2, <2>1, <2>4, <3>1, StreamFrame
  <2>5. CASE Ask("accts", "wait2")
    <3>1. "wait2" \notin Early
      BY DEF Early
    <3>2. QED
      BY <1>1, <1>2, <2>1, <2>5, <3>1, StreamAsk
  <2>6. QED
    BY <1>3, <2>2, <2>3, <2>4, <2>5 DEF AfterHandshake
<1>4. CASE AfterAccounts \/ ChooseAccount \/ HangUp \/ Judge \/ Joined
  <2>1. main' \notin Early
    BY <1>4 DEF AfterAccounts, ChooseAccount, HangUp, Judge, Joined, Return, Early
  <2>2. UNCHANGED <<wire, peer, sock, alive>>
    BY <1>4 DEF AfterAccounts, ChooseAccount, HangUp, Judge, Joined, streamVars
  <2>3. QED
    BY <1>1, <1>2, <2>1, <2>2, StreamFrame
<1>5. CASE Requests
  <2>1. \E r, n : Ask(r, n) /\ n \notin Early
    BY <1>5 DEF Requests, Early
  <2>2. UNCHANGED alive
    BY <1>5 DEF Requests
  <2>3. QED
    BY <1>1, <1>2, <2>1, <2>2, StreamAsk
<1>6. CASE Disconnect \/ StopReader
  <2>1. main' \notin Early /\ Disconnected
    BY <1>1, <1>6 DEF Disconnect, StopReader, fetch, Early
  <2>2. QED
    BY <1>1, <1>2, <2>1, StreamHungUp
<1>7. QED
  BY <1>3, <1>4, <1>5, <1>6

LEMMA StreamReader ==
  ASSUME Typed, StreamInv, ReaderStep
  PROVE  StreamInv'
<1> DEFINE In == Incoming
<1>1. main \notin Early
  <2>1. reader.pc # "off"
    BY DEF ReaderStep, ReaderWorks, ReaderRuns, NotAlive, TakeNext, SocketGone, ReceiveEnd,
           ReceiveError, SetFatal, SetText, CloseSocket, PutMessage, BadLength, IssueSignal,
           Leave, LastSignal, Receive, MaySelect
  <2>2. QED
    BY <2>1 DEF StreamInv, EarlyInv, ReaderAt
<1>2. UNCHANGED <<main, handled, sent, alive>>
  BY DEF ReaderStep, ReaderWorks, ReaderRuns, NotAlive, TakeNext, SocketGone, ReceiveEnd,
         ReceiveError, SetFatal, SetText, CloseSocket, PutMessage, BadLength, IssueSignal,
         Leave, LastSignal, Receive, fetch, server
<1>3. EarlyInv'
  BY <1>1, <1>2 DEF EarlyInv
<1>4. /\ Len(Incoming) <= 2 * (Len(sent) - Base)
      /\ Up => Len(Incoming) = 2 * (Len(sent) - Base)
      /\ \A i \in 1..Len(Incoming) : Incoming[i].of = sent[Base + ((i + 1) \div 2)]
  BY <1>1 DEF StreamInv, IncomingInv
(* The reader gives up: nothing is left on its side. *)
<1>5. ASSUME reader'.buf = <<>>, reader'.pc \in {"leave", "last", "gone"},
             ~reader'.padded, ~sock', wire' = <<>>, peer' = "closed", UNCHANGED queue
      PROVE  StreamInv'
  <2>1. SocketInv'
    BY <1>5 DEF SocketInv, Complaining
  <2>2. QueueInv'
    BY <1>2, <1>5 DEF StreamInv, QueueInv, Base, Ended
  <2>3. Incoming' = <<>>
    BY <1>5 DEF Incoming
  <2>4. ~Up' /\ Base' = Base /\ Base \in Nat /\ Len(sent) \in Nat /\ Base <= Len(sent)
    BY <1>2, <1>5, IncomingTypes DEF Up, Base, StreamInv, QueueInv
  <2>5. IncomingInv'
    BY <1>2, <2>3, <2>4 DEF IncomingInv
  <2>6. QED
    BY <1>3, <2>1, <2>2, <2>5 DEF StreamInv
<1>6. CASE NotAlive \/ SocketGone \/ BadLength \/ LastSignal \/ (Leave /\ ~reader.badf)
           \/ (TakeNext /\ ~sock) \/ (ReceiveEnd /\ reader.pc = "top")
           \/ (CloseSocket /\ reader.back # "read")
  <2>1. ~sock' /\ wire' = <<>> /\ peer' = "closed" /\ UNCHANGED queue
    BY <1>6 DEF StreamInv, SocketInv, NotAlive, SocketGone, BadLength, LastSignal, Leave,
                TakeNext, ReceiveEnd, CloseSocket, Disconnected
  <2>2. /\ reader'.buf = <<>> /\ ~reader'.padded
        /\ reader'.pc \in {"leave", "last", "gone"}
    <3>1. CASE SocketGone
      BY <3>1 DEF SocketGone, ReaderAt
    <3>2. CASE NotAlive \/ BadLength \/ LastSignal \/ (Leave /\ ~reader.badf)
      BY <3>2 DEF NotAlive, BadLength, LastSignal, Leave, ReaderAt
    <3>3. CASE (TakeNext /\ ~sock) \/ (ReceiveEnd /\ reader.pc = "top")
      BY <3>3 DEF TakeNext, ReceiveEnd, ReaderAt
    <3>4. CASE CloseSocket /\ reader.back # "read"
      <4>1. reader.back \in {"leave", "last"}
        BY <3>4 DEF CloseSocket, StreamInv, SocketInv, Complaining
      <4>2. reader' = ReaderAt(reader.back)
        BY <3>4 DEF CloseSocket
      <4>3. QED
        BY <4>1, <4>2 DEF ReaderAt
    <3>5. QED
      BY <1>6, <3>1, <3>2, <3>3, <3>4
  <2>3. QED
    BY <1>5, <2>1, <2>2
(* The reader moves on with what it has. *)
<1>7. CASE (TakeNext /\ sock) \/ IssueSignal
  <2>1. /\ UNCHANGED <<wire, peer, sock, queue>>
        /\ reader'.buf = reader.buf /\ reader'.padded = reader.padded
        /\ reader'.pc = IF TakeNext THEN "read" ELSE "top"
        /\ reader.pc = IF TakeNext THEN "top" ELSE "signal"
    BY <1>7 DEF TakeNext, IssueSignal, Typed, TypeOK
  <2>2. SocketInv'
    <3>1. TakeNext => reader.buf # <<>>
      BY <1>7 DEF TakeNext, IssueSignal, Enough, StreamInv, SocketInv
    <3>2. QED
      BY <1>2, <2>1, <3>1 DEF StreamInv, SocketInv, Complaining
  <2>3. QueueInv'
    <3>1. Ended => Ended'
      BY <1>7, <2>1 DEF Ended, TakeNext, IssueSignal, StreamInv, SocketInv, Complaining
    <3>2. QED
      BY <1>2, <2>1, <3>1 DEF StreamInv, QueueInv, Base
  <2>4. IncomingInv'
    <3>1. Incoming' = Incoming /\ Up' = Up /\ Base' = Base
      BY <1>2, <2>1 DEF Incoming, Up, Base
    <3>2. QED
      BY <1>2, <3>1 DEF StreamInv, IncomingInv
  <2>5. QED
    BY <1>3, <2>2, <2>3, <2>4 DEF StreamInv
<1>8. CASE ReceiveEnd /\ reader.pc # "top"
  <2>1. /\ reader.pc = "read" /\ reader' = [reader EXCEPT !.padded = TRUE]
        /\ Disconnected /\ wire = <<>> /\ UNCHANGED queue
    BY <1>8 DEF ReceiveEnd, MaySelect
  <2>2. reader'.pc = "read" /\ reader'.buf = reader.buf
    BY <2>1 DEF Typed, TypeOK
  <2>3. SocketInv'
    BY <2>1, <2>2 DEF StreamInv, SocketInv, Complaining, Disconnected
  <2>4. ~Ended
    <3>1. reader.buf # <<>>
      BY <2>1 DEF StreamInv, SocketInv
    <3>2. QED
      BY <2>1, <3>1 DEF Ended, Complaining
  <2>5. QueueInv'
    BY <1>2, <2>1, <2>4 DEF StreamInv, QueueInv, Base
  <2>6. IncomingInv'
    <3>1. Incoming' = Incoming /\ ~Up' /\ Base' = Base
      BY <1>2, <2>1, <2>2 DEF Incoming, Up, Base, Disconnected
    <3>2. QED
      BY <1>2, <1>4, <3>1 DEF IncomingInv
  <2>7. QED
    BY <1>3, <2>3, <2>5, <2>6 DEF StreamInv
<1>9. CASE Receive
  <2>1. PICK n \in 1..Len(wire) :
          /\ reader' = [reader EXCEPT !.buf = @ \o SubSeq(wire, 1, n)]
          /\ wire' = SubSeq(wire, n + 1, Len(wire))
    BY <1>9 DEF Receive
  <2>2. sock /\ MaySelect /\ UNCHANGED <<peer, sock, queue>>
    BY <1>9 DEF Receive
  <2>3. /\ reader'.pc = reader.pc /\ reader'.padded = reader.padded
        /\ reader'.buf = reader.buf \o SubSeq(wire, 1, n)
    BY <2>1 DEF Typed, TypeOK
  <2>4. /\ wire \in Seq(Unit) /\ n \in 0..Len(wire) /\ reader.buf \in Seq(Unit)
        /\ SubSeq(wire, 1, n) \in Seq(Unit) /\ SubSeq(wire, n + 1, Len(wire)) \in Seq(Unit)
    BY IncomingTypes, PrefixType DEF Typed, TypeOK
  <2>5. Incoming' = Incoming
    <3>1. Incoming' = reader.buf \o (SubSeq(wire, 1, n) \o SubSeq(wire, n + 1, Len(wire)))
      <4>1. Incoming' = (reader.buf \o SubSeq(wire, 1, n)) \o SubSeq(wire, n + 1, Len(wire))
        BY <2>1, <2>3 DEF Incoming
      <4>2. \A t, u, v \in Seq(Unit) : (t \o u) \o v = t \o (u \o v)
        BY ConcatAssociative
      <4>3. QED
        BY <2>4, <4>1, <4>2
    <3>2. 1 \in 1..Len(wire) + 1 /\ n \in 1 - 1..Len(wire) /\ Len(wire) \in n..Len(wire)
      BY <2>4, LenProperties
    <3>3. SubSeq(wire, 1, n) \o SubSeq(wire, n + 1, Len(wire)) = SubSeq(wire, 1, Len(wire))
      BY <2>4, <3>2, ConcatAdjacentSubSeq
    <3>4. SubSeq(wire, 1, Len(wire)) = wire
      BY <2>4, SubSeqFull
    <3>5. QED
      BY <3>1, <3>3, <3>4 DEF Incoming
  <2>6. IncomingInv'
    <3>1. Up' = Up /\ Base' = Base
      BY <1>2, <2>2 DEF Up, Base
    <3>2. QED
      BY <1>2, <1>4, <2>5, <3>1 DEF IncomingInv
  <2>7. SocketInv'
    <3>1. reader.pc = "read" => reader'.buf # <<>>
      <4>1. reader.pc = "read" => reader.buf # <<>>
        BY DEF StreamInv, SocketInv
      <4>2. QED
        BY <2>3, <2>4, <4>1, ConcatEqualIffEmpty
    <3>2. QED
      BY <1>2, <2>2, <2>3, <3>1 DEF StreamInv, SocketInv, Complaining, MaySelect
  <2>8. ~Ended
    BY <2>2 DEF Ended, MaySelect, Enough, Complaining
  <2>9. QueueInv'
    BY <1>2, <2>2, <2>8 DEF StreamInv, QueueInv, Base
  <2>10. QED
    BY <1>3, <2>6, <2>7, <2>9 DEF StreamInv
<1>10. CASE PutMessage
  <2>1. /\ reader.pc = "read" /\ Enough /\ UNCHANGED <<wire, peer, sock>>
        /\ queue' = Append(queue, IF reader.padded THEN Damaged ELSE Head(reader.buf).of)
        /\ reader' = [reader EXCEPT !.pc = "signal",
                        !.buf = IF reader.padded THEN <<>> ELSE SubSeq(@, 3, Len(@))]
    BY <1>10 DEF PutMessage
  <2>2. /\ reader'.pc = "signal" /\ reader'.padded = reader.padded
        /\ reader'.buf = IF reader.padded THEN <<>>
                         ELSE SubSeq(reader.buf, 3, Len(reader.buf))
    BY <2>1 DEF Typed, TypeOK
  <2>3. reader.buf # <<>> /\ reader.buf \in Seq(Unit) /\ Len(reader.buf) > 0
    BY <2>1, IncomingTypes, EmptySeq DEF StreamInv, SocketInv
  <2>4. SocketInv'
    BY <1>2, <2>1, <2>2 DEF StreamInv, SocketInv, Complaining
  <2>5. ~Ended
    BY <2>1, <2>3 DEF Ended, Complaining
  <2>6. Head(reader.buf).of = sent[Base + 1] /\ Base + 1 <= Len(sent)
    <3>1. Head(reader.buf) = reader.buf[1] /\ 1 \in 1..Len(reader.buf)
      BY <2>3, IncomingTypes
    <3>2. reader.buf[1] = Incoming[1] /\ 1 \in 1..Len(Incoming)
      BY <3>1, IncomingTypes
    <3>3. Incoming[1].of = sent[Base + ((1 + 1) \div 2)] /\ Len(Incoming) > 0
      BY <1>4, <3>2, IncomingTypes
    <3>4. (1 + 1) \div 2 = 1
      OBVIOUS
    <3>5. Head(reader.buf).of = sent[Base + 1]
      BY <3>1, <3>2, <3>3, <3>4
    <3>6. 2 * (Len(sent) - Base) > 0 /\ Base \in Nat /\ Len(sent) \in Nat
      BY <1>4, <3>3, IncomingTypes
    <3>7. Base + 1 <= Len(sent)
      BY <3>6
    <3>8. QED
      BY <3>5, <3>7
  <2>7. /\ queue \in Seq(Msgs) /\ Len(queue) \in Nat /\ Len(handled) \in Nat
        /\ (IF reader.padded THEN Damaged ELSE Head(reader.buf).of) \in Msgs
    <3>1. Head(reader.buf).of \in Message
      <4>1. Head(reader.buf) \in Unit
        BY <2>3, HeadTailProperties
      <4>2. QED
        BY <4>1 DEF Unit
    <3>2. QED
      BY <3>1, IncomingTypes DEF Typed, TypeOK, Msgs
  <2>8. /\ Len(queue') = Len(queue) + 1
        /\ \A i \in 1..Len(queue) : queue'[i] = queue[i]
        /\ queue'[Len(queue) + 1] =
             IF reader.padded THEN Damaged ELSE Head(reader.buf).of
    BY <2>1, <2>7
  <2>9. Base' = Base + 1 /\ Base = Len(handled) + Len(queue)
    BY <1>2, <2>7, <2>8 DEF Base
  <2>10. QueueInv'
    <3>1. Base' <= Len(sent')
      BY <1>2, <2>6, <2>9
    <3>2. ASSUME NEW i \in 1..Len(queue')
          PROVE  \/ queue'[i] = sent'[Len(handled') + i]
                 \/ queue'[i] = Damaged /\ i = Len(queue') /\ Ended'
      <4>1. CASE i \in 1..Len(queue)
        BY <1>2, <2>5, <2>8, <4>1 DEF StreamInv, QueueInv
      <4>2. CASE i = Len(queue) + 1 /\ ~reader.padded
        <5>1. queue'[i] = sent[Base + 1]
          BY <2>6, <2>8, <4>2
        <5>2. Base + 1 = Len(handled) + i
          BY <2>7, <2>9, <4>2
        <5>3. QED
          BY <1>2, <5>1, <5>2
      <4>3. CASE i = Len(queue) + 1 /\ reader.padded
        BY <2>2, <2>8, <4>3 DEF Ended
      <4>4. QED
        BY <2>7, <2>8, <4>1, <4>2, <4>3
    <3>3. ~(handled' # <<>> /\ handled'[Len(handled')] = Damaged)
      BY <1>2, <2>5 DEF StreamInv, QueueInv
    <3>4. QED
      BY <3>1, <3>2, <3>3 DEF QueueInv
  <2>11. CASE reader.padded
    <3>1. wire = <<>> /\ ~sock
      BY <2>11 DEF StreamInv, SocketInv
    <3>2. Incoming' = <<>> /\ ~Up'
      BY <2>1, <2>2, <2>11, <3>1 DEF Incoming, Up
    <3>3. IncomingInv'
      BY <1>2, <2>6, <2>9, <3>2, IncomingTypes DEF IncomingInv
    <3>4. QED
      BY <1>3, <2>4, <2>10, <3>3 DEF StreamInv
  <2>12. CASE ~reader.padded
    <3>1. Len(reader.buf) > 1
      BY <2>1, <2>12 DEF Enough
    <3>2. /\ reader'.buf \in Seq(Unit) /\ Len(reader'.buf) = Len(reader.buf) - 2
          /\ \A i \in 1..Len(reader.buf) - 2 : reader'.buf[i] = reader.buf[i + 2]
      <4>1. \A i \in 3..Len(reader.buf) : reader.buf[i] \in Unit
        BY <2>3, ElementOfSeq, IncomingTypes
      <4>2. 3 \in Int /\ Len(reader.buf) \in Int
        BY IncomingTypes
      <4>3. /\ SubSeq(reader.buf, 3, Len(reader.buf)) \in Seq(Unit)
            /\ Len(SubSeq(reader.buf, 3, Len(reader.buf))) =
                 IF 3 <= Len(reader.buf) THEN Len(reader.buf) - 3 + 1 ELSE 0
            /\ \A i \in 1..Len(reader.buf) - 3 + 1 :
                 SubSeq(reader.buf, 3, Len(reader.buf))[i] = reader.buf[3 + i - 1]
        BY <4>1, <4>2, SubSeqProperties
      <4>4. QED
        BY <2>2, <2>12, <3>1, <4>2, <4>3
    <3>3. /\ Len(Incoming') = Len(Incoming) - 2
          /\ \A i \in 1..Len(Incoming) - 2 : Incoming'[i] = Incoming[i + 2]
      <4>1. wire \in Seq(Unit) /\ wire' = wire
        BY <2>1 DEF Typed, TypeOK
      <4>2. /\ Len(Incoming) = Len(reader.buf) + Len(wire)
            /\ \A i \in 1..Len(reader.buf) + Len(wire) :
                 Incoming[i] = IF i <= Len(reader.buf) THEN reader.buf[i]
                               ELSE wire[i - Len(reader.buf)]
        BY <2>3, <4>1, ConcatProperties DEF Incoming
      <4>3. Incoming' = reader'.buf \o wire
        BY <4>1 DEF Incoming
      <4>4. /\ Len(Incoming') = Len(reader'.buf) + Len(wire)
            /\ \A i \in 1..Len(reader'.buf) + Len(wire) :
                 Incoming'[i] = IF i <= Len(reader'.buf) THEN reader'.buf[i]
                                ELSE wire[i - Len(reader'.buf)]
        BY <3>2, <4>1, <4>3, ConcatProperties
      <4>5. Len(Incoming') = Len(Incoming) - 2
        BY <3>1, <3>2, <4>2, <4>4, IncomingTypes
      <4>6. ASSUME NEW i \in 1..Len(Incoming) - 2 PROVE Incoming'[i] = Incoming[i + 2]
        <5>1. /\ i \in 1..Len(reader'.buf) + Len(wire) /\ i \in Nat
              /\ i + 2 \in 1..Len(reader.buf) + Len(wire)
          BY <3>1, <3>2, <4>2, IncomingTypes
        <5>2. CASE i <= Len(reader'.buf)
          <6>1. i \in 1..Len(reader.buf) - 2 /\ i + 2 <= Len(reader.buf)
            BY <3>1, <3>2, <5>1, <5>2, IncomingTypes
          <6>2. Incoming'[i] = reader'.buf[i] /\ Incoming[i + 2] = reader.buf[i + 2]
            BY <4>2, <4>4, <5>1, <5>2, <6>1
          <6>3. QED
            BY <3>2, <6>1, <6>2
        <5>3. CASE ~(i <= Len(reader'.buf))
          <6>. DEFINE short == Len(reader'.buf)
                      long == Len(reader.buf)
          <6>. short = long - 2 /\ long \in Nat
            BY <3>2, IncomingTypes
          <6>. HIDE DEF short, long
          <6>1. ~(i + 2 <= long) /\ i - short = (i + 2) - long
            BY <5>1, <5>3 DEF short
          <6>. USE DEF short, long
          <6>2. /\ Incoming'[i] = wire[i - Len(reader'.buf)]
                /\ Incoming[i + 2] = wire[(i + 2) - Len(reader.buf)]
            BY <4>2, <4>4, <5>1, <5>3, <6>1
          <6>3. QED
            BY <6>1, <6>2
        <5>4. QED
          BY <5>2, <5>3
      <4>7. QED
        BY <4>5, <4>6
    <3>4. \A i \in 1..Len(Incoming') : Incoming'[i].of = sent'[Base' + ((i + 1) \div 2)]
      <4>1. TAKE i \in 1..Len(Incoming')
      <4>2. i \in 1..Len(Incoming) - 2 /\ i + 2 \in 1..Len(Incoming) /\ i \in Nat
        BY <3>3, IncomingTypes
      <4>3. Incoming'[i].of = sent[Base + ((i + 3) \div 2)]
        BY <1>4, <3>3, <4>2
      <4>4. (i + 3) \div 2 = ((i + 1) \div 2) + 1
        BY <4>2
      <4>5. Base + ((i + 3) \div 2) = Base' + ((i + 1) \div 2)
        BY <2>9, <4>2, <4>4, IncomingTypes
      <4>6. QED
        BY <1>2, <4>3, <4>5
    <3>5. Len(Incoming') <= 2 * (Len(sent') - Base')
          /\ (Up' => Len(Incoming') = 2 * (Len(sent') - Base'))
      BY <1>2, <1>4, <2>1, <2>9, <3>3, IncomingTypes DEF Up
    <3>6. IncomingInv'
      BY <3>4, <3>5 DEF IncomingInv
    <3>7. QED
      BY <1>3, <2>4, <2>10, <3>6 DEF StreamInv
  <2>13. QED
    BY <2>11, <2>12
(* The reader complains, and keeps what it has.                            *)
<1>11. CASE ReceiveError \/ (Leave /\ reader.badf) \/ SetFatal \/ SetText
  <2>1. /\ UNCHANGED <<wire, peer, sock, queue>>
        /\ reader'.buf = reader.buf /\ reader'.padded = reader.padded
        /\ reader'.pc \in Complaining
    BY <1>11 DEF ReceiveError, Leave, SetFatal, SetText, Complains, Complaining, Typed, TypeOK
  <2>2. /\ reader'.back \in {"read", "leave", "last"}
        /\ reader'.back = "read" => reader.buf # <<>>
        /\ reader'.back = "last" => ~sock
        /\ Ended => reader'.back = "last"
    <3>1. CASE ReceiveError
      <4>1. /\ MaySelect
            /\ reader'.back = IF reader.pc = "top" THEN "leave" ELSE "read"
        BY <3>1 DEF ReceiveError, Complains, Typed, TypeOK
      <4>2. ~Ended
        BY <4>1 DEF Ended, MaySelect, Enough, Complaining
      <4>3. QED
        BY <4>1, <4>2 DEF MaySelect, StreamInv, SocketInv
    <3>2. CASE Leave /\ reader.badf
      <4>1. reader.pc = "leave" /\ reader'.back = "last"
        BY <3>2 DEF Leave, Complains, Typed, TypeOK
      <4>2. QED
        BY <4>1 DEF StreamInv, SocketInv
    <3>3. CASE SetFatal \/ SetText
      <4>1. reader.pc \in {"fatal", "text"} /\ reader'.back = reader.back
        BY <3>3 DEF SetFatal, SetText, Typed, TypeOK
      <4>2. QED
        BY <4>1 DEF StreamInv, SocketInv, Complaining, Ended
    <3>4. QED
      BY <1>11, <3>1, <3>2, <3>3
  <2>3. SocketInv'
    BY <1>2, <2>1, <2>2 DEF StreamInv, SocketInv, Complaining
  <2>4. Ended => Ended'
    BY <2>1, <2>2 DEF Ended
  <2>5. QueueInv'
    BY <1>2, <2>1, <2>4 DEF StreamInv, QueueInv, Base
  <2>6. Incoming' = Incoming /\ Up' = Up /\ Base' = Base
    BY <1>2, <2>1 DEF Incoming, Up, Base
  <2>7. IncomingInv'
    BY <1>2, <2>6 DEF StreamInv, IncomingInv
  <2>8. QED
    BY <1>3, <2>3, <2>5, <2>7 DEF StreamInv
(* The complaint ends in the middle of a message.                          *)
<1>12. CASE CloseSocket /\ reader.back = "read"
  <2>1. /\ reader.pc = "close" /\ Disconnected /\ UNCHANGED queue
        /\ reader'.pc = "read" /\ reader'.buf = reader.buf
    BY <1>12 DEF CloseSocket, Typed, TypeOK
  <2>2. reader.buf # <<>> /\ ~Ended
    BY <1>12, <2>1 DEF StreamInv, SocketInv, Complaining, Ended
  <2>3. SocketInv'
    BY <2>1, <2>2 DEF SocketInv, Complaining, Disconnected
  <2>4. QueueInv'
    BY <1>2, <2>1, <2>2 DEF StreamInv, QueueInv, Base
  <2>5. Incoming' = reader.buf /\ ~Up' /\ Base' = Base
    <3>1. Incoming' = reader.buf \o <<>>
      BY <2>1 DEF Incoming, Disconnected
    <3>2. Incoming' = reader.buf
      BY <3>1, IncomingTypes, ConcatEmptySeq
    <3>3. QED
      BY <1>2, <2>1, <3>2 DEF Up, Base, Disconnected
  <2>6. IncomingInv'
    <3>1. Len(reader.buf) <= 2 * (Len(sent) - Base)
      BY <1>4, IncomingTypes
    <3>2. \A i \in 1..Len(reader.buf) : i \in 1..Len(Incoming) /\ Incoming[i] = reader.buf[i]
      BY IncomingTypes
    <3>3. \A i \in 1..Len(reader.buf) : reader.buf[i].of = sent[Base + ((i + 1) \div 2)]
      BY <1>4, <3>2
    <3>4. QED
      BY <1>2, <2>5, <3>1, <3>3 DEF IncomingInv
  <2>7. QED
    BY <1>3, <2>3, <2>4, <2>6 DEF StreamInv
<1>13. QED
  BY <1>6, <1>7, <1>8, <1>9, <1>10, <1>11, <1>12 DEF ReaderStep, ReaderWorks, ReaderRuns

LEMMA SendsStream ==
  ASSUME Typed, StreamInv, NEW m \in Message, Sends(m), main \notin Early
  PROVE  StreamInv' /\ Stream!Send
<1>1. /\ Up /\ wire' = wire \o UnitsOf(m) /\ sent' = Append(sent, m)
      /\ UNCHANGED <<peer, sock, reader, queue, alive, main, handled>>
  BY DEF Sends, threads, fetch
<1>2. EarlyInv'
  BY <1>1 DEF EarlyInv
<1>3. SocketInv'
  BY <1>1 DEF StreamInv, SocketInv, Up
<1>4. /\ Len(sent') = Len(sent) + 1 /\ sent'[Len(sent) + 1] = m
      /\ \A i \in 1..Len(sent) : sent'[i] = sent[i]
      /\ sent \in Seq(Message)
  BY <1>1 DEF Typed, TypeOK
<1>5. Base' = Base /\ Base \in Nat /\ Len(sent) \in Nat /\ Base <= Len(sent)
  BY <1>1, IncomingTypes DEF Base, StreamInv, QueueInv
<1>6. QueueInv'
  <2>1. Base' <= Len(sent')
    BY <1>4, <1>5
  <2>2. ASSUME NEW i \in 1..Len(queue')
        PROVE  \/ queue'[i] = sent'[Len(handled') + i]
               \/ queue'[i] = Damaged /\ i = Len(queue') /\ Ended'
    <3>1. i \in 1..Len(queue) /\ Len(handled) + i \in 1..Len(sent)
      BY <1>1, <1>5, IncomingTypes DEF Base
    <3>2. \/ queue[i] = sent[Len(handled) + i]
          \/ queue[i] = Damaged /\ i = Len(queue) /\ Ended
      BY <3>1 DEF StreamInv, QueueInv
    <3>3. QED
      BY <1>1, <1>4, <3>1, <3>2 DEF Ended
  <2>3. handled' # <<>> /\ handled'[Len(handled')] = Damaged => queue' = <<>> /\ Ended'
    BY <1>1 DEF StreamInv, QueueInv, Ended
  <2>4. QED
    BY <2>1, <2>2, <2>3 DEF QueueInv
<1>7. IncomingInv'
  <2>1. /\ Len(Incoming) = 2 * (Len(sent) - Base)
        /\ \A i \in 1..Len(Incoming) : Incoming[i].of = sent[Base + ((i + 1) \div 2)]
    BY <1>1 DEF StreamInv, IncomingInv
  <2>2. /\ UnitsOf(m) \in Seq(Unit) /\ Len(UnitsOf(m)) = 2
        /\ \A j \in 1..2 : UnitsOf(m)[j].of = m
    <3>1. UnitsOf(m)[1].of = m /\ UnitsOf(m)[2].of = m
      BY DEF UnitsOf
    <3>2. \A j \in 1..2 : j = 1 \/ j = 2
      OBVIOUS
    <3>3. QED
      BY <3>1, <3>2, UnitsType
  <2>3. Incoming' = Incoming \o UnitsOf(m)
    <3>1. Incoming' = reader.buf \o (wire \o UnitsOf(m))
      BY <1>1 DEF Incoming
    <3>2. \A t, u, v \in Seq(Unit) : (t \o u) \o v = t \o (u \o v)
      BY ConcatAssociative
    <3>3. (reader.buf \o wire) \o UnitsOf(m) = reader.buf \o (wire \o UnitsOf(m))
      <4>1. reader.buf \in Seq(Unit) /\ wire \in Seq(Unit)
        BY DEF Typed, TypeOK
      <4>2. QED
        BY <2>2, <3>2, <4>1
    <3>4. QED
      BY <3>1, <3>3 DEF Incoming
  <2>4. /\ Len(Incoming') = Len(Incoming) + 2
        /\ \A i \in 1..Len(Incoming) + 2 :
             Incoming'[i] = IF i <= Len(Incoming) THEN Incoming[i]
                            ELSE UnitsOf(m)[i - Len(Incoming)]
    <3>1. Incoming \in Seq(Unit) /\ UnitsOf(m) \in Seq(Unit)
      BY <2>2, IncomingTypes
    <3>2. /\ Len(Incoming \o UnitsOf(m)) = Len(Incoming) + Len(UnitsOf(m))
          /\ \A i \in 1..Len(Incoming) + Len(UnitsOf(m)) :
               (Incoming \o UnitsOf(m))[i] =
                 IF i <= Len(Incoming) THEN Incoming[i] ELSE UnitsOf(m)[i - Len(Incoming)]
      BY <3>1, ConcatProperties
    <3>3. Len(UnitsOf(m)) = 2
      BY <2>2
    <3>4. QED
      BY <2>3, <3>2, <3>3
  <2>5. Len(Incoming') = 2 * (Len(sent') - Base')
    BY <1>4, <1>5, <2>1, <2>4
  <2>6. ASSUME NEW i \in 1..Len(Incoming')
        PROVE  Incoming'[i].of = sent'[Base' + ((i + 1) \div 2)]
    <3>1. i \in Nat /\ Len(Incoming) \in Nat /\ i \in 1..Len(Incoming) + 2
      BY <2>4, IncomingTypes
    <3>2. CASE i <= Len(Incoming)
      <4>1. Incoming'[i].of = sent[Base + ((i + 1) \div 2)]
        BY <2>1, <2>4, <3>1, <3>2
      <4>2. Base + ((i + 1) \div 2) \in 1..Len(sent)
        <5>1. (i + 1) \div 2 >= 1 /\ (i + 1) \div 2 <= Len(sent) - Base
          BY <1>5, <2>1, <3>1, <3>2
        <5>2. (i + 1) \div 2 \in Int
          BY <3>1
        <5>3. QED
          BY <1>5, <5>1, <5>2
      <4>3. QED
        BY <1>4, <1>5, <4>1, <4>2
    <3>3. CASE ~(i <= Len(Incoming))
      <4>1. i - Len(Incoming) \in 1..2
        BY <3>1, <3>3
      <4>2. Incoming'[i].of = m
        BY <2>2, <2>4, <3>1, <3>3, <4>1
      <4>3. Base + ((i + 1) \div 2) = Len(sent) + 1
        <5>1. (i + 1) \div 2 = Len(sent) - Base + 1
          BY <1>5, <2>1, <3>1, <4>1
        <5>2. QED
          BY <1>5, <5>1
      <4>4. QED
        BY <1>4, <1>5, <4>2, <4>3
    <3>4. QED
      BY <3>2, <3>3
  <2>7. Len(Incoming') <= 2 * (Len(sent') - Base')
    BY <1>4, <1>5, <2>5
  <2>8. QED
    BY <2>5, <2>6, <2>7 DEF IncomingInv
<1>8. Stream!Send
  BY <1>1 DEF Stream!Send
<1>9. QED
  BY <1>2, <1>3, <1>6, <1>7, <1>8 DEF StreamInv

LEMMA StreamServer ==
  ASSUME Typed, StreamInv, ServerStep
  PROVE  /\ StreamInv'
         /\ Stream!Send \/ UNCHANGED <<sent, handled>>
<1>1. CASE Greet
  <2>1. main = "greet" /\ main \in Early /\ main' = main /\ Up
    BY <1>1 DEF Greet, fetch, Early
  <2>2. UNCHANGED <<peer, sock, reader, queue, alive, handled, sent, tws>>
    BY <1>1 DEF Greet, threads, fetch, server
  <2>3. EarlyInv' /\ SocketInv' /\ QueueInv' /\ IncomingInv'
    BY <2>1, <2>2 DEF StreamInv, EarlyInv, SocketInv, QueueInv, IncomingInv, Base, Ended, Up
  <2>4. QED
    BY <2>2, <2>3 DEF StreamInv
<1>2. CASE SendNext
  <2>1. Head(tws) \in Message /\ Sends(Head(tws)) /\ tws # <<>>
    BY <1>2, HeadTailProperties DEF SendNext, Typed
  <2>2. main \notin Early
    BY <2>1 DEF StreamInv, EarlyInv
  <2>3. QED
    BY <2>1, <2>2, SendsStream
<1>3. CASE SendUnasked
  <2>1. PICK m \in {"pos", "warn", "err"} :
          /\ \E i \in DOMAIN sent : sent[i] = (IF m = "pos" THEN "posEnd" ELSE "ids")
          /\ Sends(m)
    BY <1>3 DEF SendUnasked
  <2>2. m \in Message
    BY KindTypes
  <2>3. main \notin Early
    BY <2>1 DEF StreamInv, EarlyInv
  <2>4. QED
    BY <2>1, <2>2, <2>3, SendsStream
<1>4. CASE GoAway
  <2>1. PICK n \in 0..Len(wire) :
          wire' \in {SubSeq(wire, 1, n)} \cup
                   {SubSeq(wire, 1, n) \o <<[of |-> wire[k].of, part |-> 0]>> :
                      k \in {j \in {n + 1} \cap DOMAIN wire : wire[j].part = 1}}
    BY <1>4 DEF GoAway
  <2>2. /\ peer' # "open" /\ Up
        /\ UNCHANGED <<sock, reader, queue, alive, main, handled, sent, tws>>
    BY <1>4 DEF GoAway, threads, fetch, server
  <2>3. wire \in Seq(Unit) /\ Len(wire) \in Nat /\ wire' \in Seq(Unit)
    BY <1>4, ServerTypes, LenProperties DEF ServerStep, Typed, TypeOK
(* What may still arrive is the start of what was on its way. *)
  <2>4. Len(wire') <= Len(wire) /\ \A i \in 1..Len(wire') : wire'[i].of = wire[i].of
    <3>1. /\ SubSeq(wire, 1, n) \in Seq(Unit) /\ Len(SubSeq(wire, 1, n)) = n
          /\ \A i \in 1..n : SubSeq(wire, 1, n)[i] = wire[i]
      <4>1. \A i \in 1..n : wire[i] \in Unit
        BY <2>3, ElementOfSeq
      <4>2. n \in Int /\ 1 \in Int /\ n >= 0
        BY <2>3
      <4>3. /\ SubSeq(wire, 1, n) \in Seq(Unit)
            /\ Len(SubSeq(wire, 1, n)) = IF 1 <= n THEN n - 1 + 1 ELSE 0
            /\ \A i \in 1..n - 1 + 1 : SubSeq(wire, 1, n)[i] = wire[1 + i - 1]
        BY <4>1, <4>2, SubSeqProperties
      <4>4. QED
        BY <4>2, <4>3
    <3>2. CASE wire' = SubSeq(wire, 1, n)
      BY <2>3, <3>1, <3>2
    <3>3. ASSUME NEW k \in DOMAIN wire, k = n + 1,
                 wire' = SubSeq(wire, 1, n) \o <<[of |-> wire[k].of, part |-> 0]>>
          PROVE  Len(wire') <= Len(wire) /\ \A i \in 1..Len(wire') : wire'[i].of = wire[i].of
      <4> DEFINE torn == <<[of |-> wire[k].of, part |-> 0]>>
      <4>1. k \in 1..Len(wire)
        BY <2>3, LenProperties
      <4>2. wire[k] \in Unit
        BY <2>3, <4>1, ElementOfSeq
      <4>3. torn \in Seq(Unit) /\ Len(torn) = 1 /\ torn[1].of = wire[k].of
        BY <4>2 DEF Unit
      <4>4. /\ Len(wire') = n + 1
            /\ \A i \in 1..n + 1 :
                 wire'[i] = IF i <= n THEN SubSeq(wire, 1, n)[i] ELSE torn[i - n]
        BY <3>1, <3>3, <4>3, ConcatProperties
      <4>5. ASSUME NEW i \in 1..Len(wire') PROVE wire'[i].of = wire[i].of
        <5>1. CASE i <= n
          BY <3>1, <4>4, <5>1
        <5>2. CASE i = n + 1
          <6>1. wire'[i] = torn[1]
            BY <4>4, <5>2
          <6>2. QED
            BY <3>3, <4>3, <5>2, <6>1
        <5>3. QED
          BY <4>4, <5>1, <5>2
      <4>6. QED
        BY <3>3, <4>1, <4>4, <4>5
    <3>4. QED
      BY <2>1, <3>2, <3>3
  <2>5. SocketInv' /\ QueueInv' /\ UNCHANGED <<sent, handled>> /\ Base' = Base
    BY <2>2 DEF StreamInv, SocketInv, QueueInv, Base, Ended, Up
  <2>6. EarlyInv'
    <3>1. wire = <<>> => wire' = <<>>
      <4>1. wire = <<>> => Len(wire') = 0
        BY <2>3, <2>4, LenProperties
      <4>2. QED
        BY <2>3, <4>1, EmptySeq
    <3>2. QED
      BY <2>2, <3>1 DEF StreamInv, EarlyInv, Up
  <2>7. IncomingInv'
    <3>1. SUFFICES ASSUME main \notin Early
                   PROVE  /\ Len(Incoming') <= 2 * (Len(sent) - Base)
                          /\ \A i \in 1..Len(Incoming') :
                               Incoming'[i].of = sent[Base + ((i + 1) \div 2)]
      BY <2>2, <2>5 DEF IncomingInv, Up
    <3>2. /\ Len(Incoming) <= 2 * (Len(sent) - Base)
          /\ \A i \in 1..Len(Incoming) : Incoming[i].of = sent[Base + ((i + 1) \div 2)]
      BY <3>1 DEF StreamInv, IncomingInv
    <3>3. /\ Len(Incoming) = Len(reader.buf) + Len(wire)
          /\ \A i \in 1..Len(reader.buf) + Len(wire) :
               Incoming[i] = IF i <= Len(reader.buf) THEN reader.buf[i]
                             ELSE wire[i - Len(reader.buf)]
      BY <2>3, IncomingTypes, ConcatProperties DEF Incoming
    <3>4. /\ Len(Incoming') = Len(reader.buf) + Len(wire')
          /\ \A i \in 1..Len(reader.buf) + Len(wire') :
               Incoming'[i] = IF i <= Len(reader.buf) THEN reader.buf[i]
                              ELSE wire'[i - Len(reader.buf)]
      <4>1. Incoming' = reader.buf \o wire'
        BY <2>2 DEF Incoming
      <4>2. QED
        BY <2>3, <4>1, IncomingTypes, ConcatProperties
    <3>5. Len(wire') \in Nat /\ Len(reader.buf) \in Nat
      BY <2>3, IncomingTypes, LenProperties
    <3>6. ASSUME NEW i \in 1..Len(Incoming')
          PROVE  i \in 1..Len(Incoming) /\ Incoming'[i].of = Incoming[i].of
      <4>1. i \in Nat /\ i \in 1..Len(reader.buf) + Len(wire')
            /\ i \in 1..Len(reader.buf) + Len(wire)
        BY <2>3, <2>4, <3>4, <3>5
      <4>2. CASE i <= Len(reader.buf)
        BY <3>3, <3>4, <4>1, <4>2
      <4>3. CASE ~(i <= Len(reader.buf))
        <5>1. i - Len(reader.buf) \in 1..Len(wire')
          BY <3>5, <4>1, <4>3
        <5>2. QED
          BY <2>4, <3>3, <3>4, <4>1, <4>3, <5>1
      <4>4. QED
        BY <4>2, <4>3
    <3>7. Len(Incoming') <= Len(Incoming) /\ Len(Incoming') \in Nat /\ Len(Incoming) \in Nat
      BY <2>3, <2>4, <3>3, <3>4, <3>5
    <3>8. Len(Incoming') <= 2 * (Len(sent) - Base)
      BY <3>2, <3>7, IncomingTypes
    <3>9. QED
      BY <3>2, <3>6, <3>8
  <2>8. QED
    BY <2>5, <2>6, <2>7 DEF StreamInv
<1>5. QED
  BY <1>1, <1>2, <1>3, <1>4 DEF ServerStep

------------------------------------------------------------------------------
(* The wake-ups.                                                           *)

Watched == {"wait1", "wait2", "wait3", "choose", "ask1", "ask2"}

LEMMA WakeStep ==
  ASSUME Typed, StreamInv, WakeInv, [Next]_vars
  PROVE  WakeInv'
<1>1. CASE UNCHANGED vars
  BY <1>1 DEF WakeInv, vars, streamVars, threads, fetch
<1>2. CASE ConnectFails \/ Connect \/ Greeted \/ NotGreeted
  BY <1>2 DEF ConnectFails, Connect, Greeted, NotGreeted, NotConnected, WakeInv
<1>3. CASE StartApi
  BY <1>3 DEF StartApi, StreamInv, EarlyInv, Early, WakeInv
<1>4. CASE Woken
  BY <1>4, WaitPhases DEF Woken, WakeInv
<1>5. CASE Drained
  BY <1>5 DEF Drained, streamVars, threads, WakeInv
<1>6. CASE HandleMsg
  <2>1. Head(queue) = Damaged => queue' = <<>>
    BY <1>6, StreamHandles
  <2>2. Head(queue) # Damaged => main' = main /\ main \in Drains
    BY <1>6 DEF HandleMsg
  <2>3. QED
    BY <2>1, <2>2, WaitPhases DEF WakeInv
<1>7. CASE AfterHandshake \/ AfterAccounts \/ ChooseAccount \/ Requests
           \/ HangUp \/ Disconnect \/ Judge \/ StopReader \/ Joined
  <2>1. UNCHANGED <<queue, open, reader>>
    BY <1>7 DEF AfterHandshake, AfterAccounts, ChooseAccount, Requests, HangUp, Disconnect, Judge,
                StopReader, Joined, streamVars, threads, fetch, server
  <2>2. main' \in Watched => main \in Watched
    BY <1>7 DEF AfterHandshake, AfterAccounts, ChooseAccount, Requests, HangUp, Disconnect, Judge,
                StopReader, Joined, Return, Ask, fetch, Watched
  <2>3. QED
    BY <2>1, <2>2 DEF WakeInv, Watched
<1>8. CASE ReaderStep
  <2>1. UNCHANGED main
    BY <1>8 DEF ReaderStep, ReaderWorks, fetch
  <2>2. CASE PutMessage
    BY <2>2 DEF PutMessage, WakeInv, Typed, TypeOK
  <2>3. CASE IssueSignal \/ LastSignal
    BY <2>3 DEF IssueSignal, LastSignal, WakeInv
  <2>4. CASE NotAlive \/ TakeNext \/ SocketGone \/ ReceiveEnd \/ BadLength \/ Leave \/ Receive
             \/ ReceiveError \/ SetFatal \/ SetText \/ CloseSocket
    <3>1. reader.pc # "signal" /\ UNCHANGED <<queue, open>>
      BY <2>4 DEF NotAlive, TakeNext, SocketGone, ReceiveEnd, BadLength, Leave, Receive,
                  ReceiveError, SetFatal, SetText, CloseSocket, MaySelect
    <3>2. QED
      BY <2>1, <3>1 DEF WakeInv
  <2>5. QED
    BY <1>8, <2>2, <2>3, <2>4 DEF ReaderStep, ReaderWorks, ReaderRuns
<1>9. CASE ServerStep
  BY <1>9 DEF ServerStep, Greet, SendNext, SendUnasked, Sends, GoAway, threads, fetch, WakeInv
<1>10. QED
  BY <1>1, <1>2, <1>3, <1>4, <1>5, <1>6, <1>7, <1>8, <1>9 DEF Next, MainStep

------------------------------------------------------------------------------
(* The inductive invariant and what follows from it.                       *)

IInv == Typed /\ StreamInv /\ WakeInv

LEMMA InitIInv == Init => IInv
<1> SUFFICES ASSUME Init PROVE IInv
  OBVIOUS
<1>1. Typed
  <2>1. << >> \in Seq(Unit) /\ << >> \in Seq(Message) /\ << >> \in Seq(Message \cup {Damaged})
    OBVIOUS
  <2>2. "connect" \in MainPhases
    BY DEF MainPhases
  <2>3. reader \in Readers
    BY ReaderAtType DEF Init
  <2>4. wrapper \in [fatal : BOOLEAN, leaving : BOOLEAN, dead : BOOLEAN, smashed : BOOLEAN]
    BY DEF Init
  <2>5. TypeOK
    BY <2>1, <2>2, <2>3, <2>4 DEF Init, TypeOK, Readers
  <2>6. tws \in Seq(Message) /\ extras \in Nat
    BY DEF Init
  <2>7. QED
    BY <2>5, <2>6 DEF Typed
<1>2. StreamInv /\ WakeInv
  BY DEF Init, ReaderAt, StreamInv, EarlyInv, SocketInv, QueueInv, IncomingInv, Base, Early,
         Complaining, WakeInv
<1>3. QED
  BY <1>1, <1>2 DEF IInv

(* Every step keeps the invariant, and is a step of the stream or none.    *)
LEMMA NextIInv ==
  ASSUME IInv, [Next]_vars
  PROVE  IInv' /\ [Stream!Send \/ Stream!Handle]_<<sent, handled>>
<1>1. Typed /\ StreamInv /\ WakeInv
  BY DEF IInv
<1>2. WakeInv'
  BY <1>1, WakeStep
<1>3. Typed'
  <2>1. CASE UNCHANGED vars
    BY <1>1, <2>1 DEF vars, streamVars, threads, fetch, server, Typed, TypeOK
  <2>2. reader.pc = "close" => reader.back # "none"
    BY <1>1 DEF StreamInv, SocketInv, Complaining
  <2>3. QED
    BY <1>1, <2>1, <2>2, ConnectionTypes, WaitTypes, FetchTypes, EndTypes, ReaderTypes,
       ServerTypes DEF Next, MainStep
<1>4. StreamInv' /\ [Stream!Send \/ Stream!Handle]_<<sent, handled>>
  <2>1. CASE UNCHANGED vars
    BY <1>1, <2>1 DEF vars, streamVars, threads, fetch, server, StreamInv, EarlyInv, SocketInv,
       QueueInv, IncomingInv, Base, Incoming, Ended, Up
  <2>2. CASE ConnectFails \/ Connect \/ Greeted \/ NotGreeted \/ StartApi
    <3>1. UNCHANGED <<sent, handled>>
      BY <2>2 DEF ConnectFails, Connect, Greeted, NotGreeted, StartApi, server
    <3>2. QED
      BY <1>1, <2>2, <3>1, StreamConnection
  <2>3. CASE Woken \/ Drained
    <3>1. UNCHANGED <<sent, handled>>
      BY <2>3 DEF Woken, Drained, server
    <3>2. QED
      BY <1>1, <2>3, <3>1, StreamWaits
  <2>4. CASE HandleMsg
    BY <1>1, <2>4, StreamHandles
  <2>5. CASE AfterHandshake \/ AfterAccounts \/ ChooseAccount \/ Requests
             \/ HangUp \/ Disconnect \/ Judge \/ StopReader \/ Joined
    <3>1. UNCHANGED <<sent, handled>>
      BY <2>5 DEF AfterHandshake, AfterAccounts, ChooseAccount, Requests, HangUp, Disconnect, Judge,
                  StopReader, Joined, streamVars, fetch, server
    <3>2. QED
      BY <1>1, <2>5, <3>1, StreamFetch
  <2>6. CASE ReaderStep
    <3>1. UNCHANGED <<sent, handled>>
      BY <2>6 DEF ReaderStep, ReaderWorks, fetch, server
    <3>2. QED
      BY <1>1, <2>6, <3>1, StreamReader
  <2>7. CASE ServerStep
    BY <1>1, <2>7, StreamServer
  <2>8. QED
    BY <2>1, <2>2, <2>3, <2>4, <2>5, <2>6, <2>7 DEF Next, MainStep
<1>5. QED
  BY <1>2, <1>3, <1>4 DEF IInv

(* Every variable of the snapshot and of the reader keeps its type.        *)
THEOREM TypeCorrect == Spec => []TypeOK
<1>1. IInv => TypeOK
  BY DEF IInv, Typed
<1>2. IInv /\ [Next]_vars => IInv'
  BY NextIInv
<1>3. QED
  BY <1>1, <1>2, InitIInv, PTL DEF Spec

(* The client never sleeps over a message whose signal is used up.         *)
THEOREM WakeupsAreKept == Spec => []NoLostWakeup
<1>1. IInv => NoLostWakeup
  BY WaitPhases DEF IInv, WakeInv, NoLostWakeup
<1>2. IInv /\ [Next]_vars => IInv'
  BY NextIInv
<1>3. QED
  BY <1>1, <1>2, InitIInv, PTL DEF Spec

(* What the callbacks are given is the stream TWS sent: in order, without  *)
(* gaps, with at most one damaged message, at the end.                     *)
THEOREM StreamIsKept == Spec => ImplementsStream
<1>1. Init => Stream!Init
  BY DEF Init, Stream!Init
<1>2. IInv /\ [Next]_vars => IInv' /\ [Stream!Send \/ Stream!Handle]_<<sent, handled>>
  BY NextIInv
<1>3. QED
  BY <1>1, <1>2, InitIInv, PTL DEF Spec, ImplementsStream, Stream!Spec

------------------------------------------------------------------------------
(***************************************************************************)
(* For any bounds: a snapshot that Fetch returns is whole, and hanging up  *)
(* spoils nothing.                                                         *)
(***************************************************************************)
(* Hanging up.                                                             *)

LeavingInv ==
  /\ wrapper.leaving => main \in {"hangup", "judge", "join", "done"}
  /\ main \in {"hangup", "judge"} => wrapper.leaving

(* Complaining never makes the client leave.                               *)
LEMMA ComplainedKeeps ==
  ASSUME TypeOK, NEW code
  PROVE  /\ Complained(code).leaving = wrapper.leaving
         /\ Complained(code).smashed = wrapper.smashed
         /\ wrapper.fatal => Complained(code).fatal
         /\ code # 509 => Complained(code).fatal
BY DEF Complained, TypeOK

LEMMA HandleKeepsLeaving ==
  ASSUME TypeOK, HandleMsg
  PROVE  /\ wrapper'.leaving = wrapper.leaving /\ wrapper'.smashed = wrapper.smashed
         /\ wrapper.fatal => wrapper'.fatal
<1>1. wrapper' = wrapper \/ wrapper' = Complained(100) \/ wrapper' = Complained(505)
  BY DEF HandleMsg, Callback
<1> QED
  BY <1>1, ComplainedKeeps

LEMMA AskKeeps ==
  ASSUME TypeOK, NEW request, NEW next, Ask(request, next)
  PROVE  /\ wrapper'.leaving = wrapper.leaving
         /\ wrapper.fatal => wrapper'.fatal
         /\ ~sock => wrapper'.fatal
         /\ main' \in {next, "killed"}
<1>1. wrapper' = wrapper \/ wrapper' = Complained(504) \/ wrapper' = Complained(509)
  BY DEF Ask
<1>2. ~sock => wrapper' = Complained(504)
  BY DEF Ask
<1>3. main' \in {next, "killed"}
  BY DEF Ask
<1> QED
  BY <1>1, <1>2, <1>3, ComplainedKeeps

LEMMA ReaderKeeps ==
  ASSUME TypeOK, ReaderStep
  PROVE  /\ UNCHANGED <<main, outcome, flags, handled, tws, sent>>
         /\ wrapper'.leaving = wrapper.leaving
         /\ wrapper.fatal => wrapper'.fatal
<1>1. UNCHANGED <<main, outcome, flags, handled, tws, sent>>
  BY DEF ReaderStep, ReaderWorks, fetch, server
<1>2. \/ wrapper' = wrapper
      \/ wrapper' = [wrapper EXCEPT !.fatal = TRUE]
      \/ wrapper' = [wrapper EXCEPT !.smashed = @ \/ wrapper.dead]
  BY DEF ReaderStep, ReaderWorks, ReaderRuns, NotAlive, TakeNext, SocketGone, ReceiveEnd,
         ReceiveError, SetFatal, SetText, CloseSocket, Complains, PutMessage, BadLength,
         IssueSignal, Leave, LastSignal, Receive
<1> QED
  BY <1>1, <1>2 DEF TypeOK

(* The client leaves when Fetch says so, at the end.                       *)
LEMMA LeavingStep ==
  ASSUME IInv, LeavingInv, [Next]_vars
  PROVE  LeavingInv'
<1>0. TypeOK
  BY DEF IInv, Typed
<1>1. CASE UNCHANGED vars
  BY <1>1 DEF vars, streamVars, fetch, LeavingInv
<1>2. CASE ReaderStep
  BY <1>0, <1>2, ReaderKeeps DEF LeavingInv
<1>3. CASE ServerStep
  BY <1>3 DEF ServerStep, Greet, SendNext, SendUnasked, Sends, GoAway, fetch, LeavingInv
<1>4. CASE HandleMsg \/ Woken \/ Drained
  <2>1. /\ main \notin {"hangup", "judge", "join", "done"}
        /\ main' \notin {"hangup", "judge", "join", "done"}
    BY <1>4, WaitPhases DEF HandleMsg, Woken, Drained
  <2>2. wrapper'.leaving = wrapper.leaving
    <3>1. CASE HandleMsg
      BY <1>0, <3>1, HandleKeepsLeaving
    <3>2. CASE Woken \/ Drained
      BY <3>2 DEF Woken, Drained, streamVars
    <3> QED
      BY <1>4, <3>1, <3>2
  <2> QED
    BY <2>1, <2>2 DEF LeavingInv
<1>5. CASE ConnectFails \/ Connect \/ Greeted \/ NotGreeted
  <2>1. main \notin {"hangup", "judge", "join", "done"} /\ main' \notin {"hangup", "judge"}
    BY <1>5 DEF ConnectFails, Connect, Greeted, NotGreeted, NotConnected
  <2>2. \/ wrapper' = wrapper \/ wrapper' = Complained(502)
        \/ wrapper' = [wrapper EXCEPT !.fatal = TRUE, !.dead = TRUE]
    BY <1>5 DEF ConnectFails, Connect, Greeted, NotGreeted, NotConnected
  <2>3. wrapper'.leaving = wrapper.leaving
    <3>1. wrapper' = wrapper => wrapper'.leaving = wrapper.leaving
      OBVIOUS
    <3>2. wrapper' = Complained(502) => wrapper'.leaving = wrapper.leaving
      BY <1>0, ComplainedKeeps
    <3>3. wrapper' = [wrapper EXCEPT !.fatal = TRUE, !.dead = TRUE]
            => wrapper'.leaving = wrapper.leaving
      BY <1>0 DEF TypeOK
    <3> QED
      BY <2>2, <3>1, <3>2, <3>3
  <2> QED
    BY <2>1, <2>3 DEF LeavingInv
<1>6. CASE StartApi \/ Requests \/ AfterHandshake \/ AfterAccounts \/ ChooseAccount
  <2>1. main \notin {"hangup", "judge", "join", "done"} /\ main' \notin {"hangup", "judge"}
    BY <1>0, <1>6, AskKeeps
       DEF StartApi, Requests, AfterHandshake, AfterAccounts, ChooseAccount, Return
  <2>2. wrapper'.leaving = wrapper.leaving
    BY <1>0, <1>6, AskKeeps
       DEF StartApi, Requests, AfterHandshake, AfterAccounts, ChooseAccount, Return,
           streamVars, TypeOK
  <2> QED
    BY <2>1, <2>2 DEF LeavingInv
<1>7. CASE HangUp \/ Disconnect
  BY <1>0, <1>7 DEF HangUp, Disconnect, LeavingInv, TypeOK
<1>8. CASE Judge
  BY <1>0, <1>8 DEF Judge, Return, LeavingInv, TypeOK
<1>9. CASE StopReader \/ Joined
  BY <1>9 DEF StopReader, Joined, streamVars, fetch, LeavingInv
<1> QED
  BY <1>1, <1>2, <1>3, <1>4, <1>5, <1>6, <1>7, <1>8, <1>9 DEF Next, MainStep

(* TWS only sends what the session knows.                                  *)
KindsInv == sent \in Seq(Kinds) /\ tws \in Seq(Kinds)

LEMMA AnswersKinds ==
  ASSUME NEW request, NEW a \in Answers(request)
  PROVE  a \in Seq(Kinds)
<1>1. \A m, n \in Kinds : <<m, n>> \in Seq(Kinds) /\ <<m>> \in Seq(Kinds)
  OBVIOUS
<1>2. << >> \in Seq(Kinds)
  OBVIOUS
<1>3. \A m \in {"ids", "accts", "none", "sum", "sumEnd", "pos", "posEnd"} : m \in Kinds
  BY DEF Kinds
<1>4. QED
  BY <1>1, <1>2, <1>3 DEF Answers

LEMMA KindsStep ==
  ASSUME KindsInv, [Next]_vars
  PROVE  KindsInv'
<1>1. CASE UNCHANGED <<tws, sent>>
  BY <1>1 DEF KindsInv
<1>2. ASSUME NEW request, NEW next, Ask(request, next), UNCHANGED sent
      PROVE  KindsInv'
  <2>1. tws' = tws \/ \E a \in Answers(request) : tws' = tws \o a
    BY <1>2 DEF Ask
  <2>2. \A a \in Answers(request) : tws \o a \in Seq(Kinds)
    BY AnswersKinds, ConcatProperties DEF KindsInv
  <2> QED
    BY <1>2, <2>1, <2>2 DEF KindsInv
<1>3. CASE StartApi \/ Requests
  BY <1>2, <1>3 DEF StartApi, Requests
<1>4. CASE AfterHandshake
  <2>1. UNCHANGED sent /\ (UNCHANGED tws \/ Ask("accts", "wait2"))
    BY <1>4 DEF AfterHandshake
  <2> QED
    BY <1>1, <1>2, <2>1
<1>5. CASE ConnectFails \/ Connect \/ Greeted \/ NotGreeted \/ Woken \/ HandleMsg \/ Drained
           \/ AfterAccounts \/ ChooseAccount \/ HangUp \/ Disconnect \/ Judge \/ StopReader
           \/ Joined \/ ReaderStep \/ Greet \/ GoAway
  BY <1>1, <1>5 DEF ConnectFails, Connect, Greeted, NotGreeted, Woken, HandleMsg, Drained,
     AfterAccounts, ChooseAccount, HangUp, Disconnect, Judge, StopReader, Joined,
     ReaderStep, ReaderWorks, Greet, GoAway, server
<1>6. CASE SendNext
  <2>1. tws # <<>> /\ tws' = Tail(tws) /\ sent' = Append(sent, Head(tws))
    BY <1>6 DEF SendNext, Sends
  <2>2. Head(tws) \in Kinds /\ Tail(tws) \in Seq(Kinds)
    BY <2>1, HeadTailProperties DEF KindsInv
  <2> QED
    BY <2>1, <2>2, AppendProperties DEF KindsInv
<1>7. CASE SendUnasked
  <2>1. PICK m \in {"pos", "warn", "err"} : sent' = Append(sent, m) /\ UNCHANGED tws
    BY <1>7 DEF SendUnasked, Sends
  <2>2. m \in Kinds
    BY DEF Kinds
  <2> QED
    BY <2>1, <2>2, AppendProperties DEF KindsInv
<1>8. CASE UNCHANGED vars
  BY <1>1, <1>8 DEF vars, server
<1> QED
  BY <1>3, <1>4, <1>5, <1>6, <1>7, <1>8 DEF Next, MainStep, ServerStep

(* As long as nobody cut the connection, the socket is open from eConnect  *)
(* until the client itself closes it; the reader has nothing to complain   *)
(* of before that, and what it complains of then is no news to a client    *)
(* that is leaving.                                                        *)
HasErr == \E i \in 1..Len(handled) : handled[i] = "err"

QuietSocket ==
  /\ sock => peer = "open"
  /\ sock \/ wrapper.leaving \/ main \in {"connect", "join", "done"}

QuietReader ==
  /\ ~reader.padded
  /\ \A i \in 1..Len(queue) : queue[i] # Damaged
  /\ reader.pc \in Complaining => reader.back = "last"
  /\ reader.pc \in {"fatal", "text"} => ~wrapper.leaving

QuietRecord ==
  /\ wrapper.fatal => HasErr \/ (~wrapper.leaving /\ main \in {"spin", "join", "done"})
  /\ wrapper.smashed => ~wrapper.leaving /\ main \in {"join", "done"}

QuietInv == ~cut => QuietSocket /\ QuietReader /\ QuietRecord

LEMMA AskQuietly ==
  ASSUME sock, peer = "open", NEW request, NEW next, Ask(request, next)
  PROVE  main' = next /\ UNCHANGED <<sock, wire, peer, wrapper>>
BY DEF Ask

(* A step of Fetch that leaves the connection and the record alone.        *)
LEMMA QuietFrame ==
  ASSUME QuietSocket, QuietReader, QuietRecord, LeavingInv,
         UNCHANGED <<sock, peer, queue, handled, wrapper>>,
         reader' = reader \/ reader' = ReaderAt("top"),
         main \notin {"connect", "spin", "join", "done"}
  PROVE  QuietSocket' /\ QuietReader' /\ QuietRecord'
<1>1. QuietSocket'
  BY DEF QuietSocket
<1>2. QuietReader'
  BY DEF QuietReader, ReaderAt, Complaining
<1>3. QuietRecord'
  BY DEF QuietRecord, HasErr
<1>4. QED
  BY <1>1, <1>2, <1>3

(* A step to the end of Fetch that only says that it has returned.         *)
LEMMA QuietEnd ==
  ASSUME QuietReader, QuietRecord, UNCHANGED <<reader, queue, handled>>,
         sock' => sock /\ peer' = peer, sock => peer = "open",
         main' \in {"join", "done"},
         wrapper'.leaving = wrapper.leaving, wrapper'.smashed = wrapper.smashed,
         wrapper'.fatal => wrapper.fatal \/ ~wrapper.leaving
  PROVE  QuietSocket' /\ QuietReader' /\ QuietRecord'
<1>1. QuietSocket'
  BY DEF QuietSocket
<1>2. QuietReader'
  BY DEF QuietReader
<1>3. QuietRecord'
  BY DEF QuietRecord, HasErr
<1>4. QED
  BY <1>1, <1>2, <1>3

LEMMA QuietReaderStep ==
  ASSUME IInv, LeavingInv, QuietSocket, QuietReader, QuietRecord, ReaderStep
  PROVE  QuietSocket' /\ QuietReader' /\ QuietRecord'
<1>0. TypeOK /\ SocketInv /\ EarlyInv /\ Typed
  BY DEF IInv, Typed, StreamInv
<1>1. UNCHANGED <<main, handled>>
  BY <1>0, ReaderKeeps
<1>2. ~ReceiveEnd /\ ~ReceiveError
  BY DEF ReceiveEnd, ReceiveError, QuietSocket
<1>3. CASE /\ NotAlive \/ TakeNext \/ SocketGone \/ Receive \/ BadLength \/ IssueSignal
              \/ LastSignal
  <2>1. UNCHANGED <<sock, peer, queue, wrapper>>
    BY <1>3 DEF NotAlive, TakeNext, SocketGone, Receive, BadLength, IssueSignal, LastSignal
  <2>2. ~reader'.padded
    <3>1. CASE SocketGone
      BY <3>1 DEF SocketGone, ReaderAt
    <3>2. CASE NotAlive \/ BadLength \/ LastSignal
      BY <3>2 DEF NotAlive, BadLength, LastSignal, ReaderAt
    <3>3. CASE TakeNext \/ IssueSignal \/ Receive
      <4>1. reader'.padded = reader.padded \/ reader' = ReaderAt("leave")
        BY <1>0, <3>3 DEF TakeNext, IssueSignal, Receive, TypeOK
      <4>2. QED
        BY <4>1 DEF ReaderAt, QuietReader
    <3>4. QED
      BY <1>3, <3>1, <3>2, <3>3
  <2>3. reader'.pc \notin Complaining
    BY <1>0, <1>3 DEF NotAlive, TakeNext, SocketGone, Receive, BadLength, IssueSignal,
       LastSignal, ReaderAt, MaySelect, Complaining, TypeOK
  <2>4. QuietSocket' /\ QuietRecord'
    BY <1>1, <2>1 DEF QuietSocket, QuietRecord, HasErr
  <2>5. QuietReader'
    BY <2>1, <2>2, <2>3 DEF QuietReader, Complaining
  <2>6. QED
    BY <2>4, <2>5
<1>4. CASE PutMessage
  <2>1. /\ reader.pc = "read" /\ Enough /\ UNCHANGED <<peer, sock, wrapper>>
        /\ queue' = Append(queue, IF reader.padded THEN Damaged ELSE Head(reader.buf).of)
        /\ reader'.pc = "signal" /\ reader'.padded = reader.padded
    BY <1>0, <1>4 DEF PutMessage, TypeOK
  <2>2. Head(reader.buf).of \in Message
    <3>1. reader.buf # <<>> /\ reader.buf \in Seq(Unit)
      BY <1>0, <2>1 DEF SocketInv, TypeOK
    <3>2. Head(reader.buf) \in Unit
      BY <3>1, HeadTailProperties
    <3>3. QED
      BY <3>2 DEF Unit
  <2>3. queue' = Append(queue, Head(reader.buf).of) /\ queue \in Seq(Msgs)
    BY <1>0, <2>1 DEF QuietReader, TypeOK, Msgs
  <2>4. \A i \in 1..Len(queue') : queue'[i] # Damaged
    <3>1. Head(reader.buf).of \in Msgs /\ Len(queue) \in Nat
      BY <2>2, <2>3, LenProperties DEF Msgs
    <3>2. /\ Len(queue') = Len(queue) + 1
          /\ queue'[Len(queue) + 1] = Head(reader.buf).of
          /\ \A i \in 1..Len(queue) : queue'[i] = queue[i]
      BY <2>3, <3>1, AppendProperties
    <3>3. \A i \in 1..Len(queue') : i \in 1..Len(queue) \/ i = Len(queue) + 1
      BY <3>1, <3>2
    <3>4. QED
      BY <2>2, <3>2, <3>3, MessageAssumption DEF QuietReader
  <2>5. QuietReader'
    BY <2>1, <2>4 DEF QuietReader, Complaining
  <2>6. QuietSocket' /\ QuietRecord'
    BY <1>1, <2>1 DEF QuietSocket, QuietRecord, HasErr
  <2>7. QED
    BY <2>5, <2>6
<1>5. CASE Leave
  <2>1. /\ UNCHANGED <<sock, peer, queue, wrapper>> /\ ~reader'.padded
        /\ reader'.pc \in Complaining => reader'.back = "last"
        /\ reader'.pc \in {"fatal", "text"} => ~wrapper.leaving
    <3>1. CASE reader.badf
      <4>1. /\ UNCHANGED <<sock, peer, queue, wrapper>>
            /\ reader' = [reader EXCEPT !.pc = IF wrapper.leaving THEN "close" ELSE "fatal",
                                        !.back = "last"]
        BY <1>5, <3>1 DEF Leave, Complains
      <4>2. /\ reader'.padded = reader.padded /\ reader'.back = "last"
            /\ wrapper.leaving => reader'.pc = "close"
        BY <1>0, <4>1 DEF TypeOK
      <4>3. QED
        BY <4>1, <4>2 DEF QuietReader
    <3>2. CASE ~reader.badf
      BY <1>5, <3>2 DEF Leave, ReaderAt, Complaining
    <3>3. QED
      BY <3>1, <3>2
  <2>2. QuietSocket' /\ QuietRecord' /\ QuietReader'
    BY <1>1, <2>1 DEF QuietSocket, QuietRecord, QuietReader, HasErr
  <2>3. QED
    BY <2>2
(* A complaint before the client leaves: Fetch has given up already.       *)
<1>6. CASE SetFatal \/ SetText
  <2>1. /\ reader.pc \in {"fatal", "text"} /\ UNCHANGED <<sock, peer, queue>>
        /\ reader'.pc \in {"text", "close"} /\ reader'.padded = reader.padded
        /\ reader'.back = reader.back
        /\ wrapper'.leaving = wrapper.leaving
    BY <1>0, <1>6 DEF SetFatal, SetText, TypeOK
  <2>2. ~wrapper.leaving /\ reader.back = "last"
    BY <2>1 DEF QuietReader, Complaining
  <2>3. ~sock
    BY <1>0, <2>1, <2>2 DEF SocketInv, Complaining
  <2>4. main \in {"join", "done"}
    <3>1. main \in {"connect", "join", "done"}
      BY <2>2, <2>3 DEF QuietSocket
    <3>2. main # "connect"
      BY <1>0, <2>1 DEF EarlyInv, Early, ReaderAt
    <3>3. QED
      BY <3>1, <3>2
  <2>5. QuietSocket'
    BY <1>1, <2>1, <2>3, <2>4 DEF QuietSocket
  <2>6. QuietReader'
    BY <2>1, <2>2 DEF QuietReader, Complaining
  <2>7. QuietRecord'
    BY <1>1, <2>1, <2>2, <2>4 DEF QuietRecord
  <2>8. QED
    BY <2>5, <2>6, <2>7
<1>7. CASE CloseSocket
  <2>1. /\ reader.pc = "close" /\ Disconnected /\ UNCHANGED <<queue, wrapper>>
        /\ reader' = IF reader.back = "read"
                     THEN [reader EXCEPT !.pc = "read", !.padded = TRUE, !.back = "none"]
                     ELSE ReaderAt(reader.back)
    BY <1>7 DEF CloseSocket
  <2>2. reader.back = "last"
    BY <2>1 DEF QuietReader, Complaining
  <2>3. reader'.pc = "last" /\ ~reader'.padded
    BY <2>1, <2>2 DEF ReaderAt
  <2>4. ~sock
    BY <1>0, <2>1, <2>2 DEF SocketInv, Complaining
  <2>5. QuietSocket' /\ QuietRecord'
    BY <1>1, <2>1, <2>4 DEF QuietSocket, QuietRecord, HasErr, Disconnected
  <2>6. QuietReader'
    BY <2>1, <2>3 DEF QuietReader, Complaining
  <2>7. QED
    BY <2>5, <2>6
<1>8. QED
  BY <1>2, <1>3, <1>4, <1>5, <1>6, <1>7 DEF ReaderStep, ReaderWorks, ReaderRuns

(* The messages handled are those TWS sent, and only its errors spoil.     *)
LEMMA QuietHandles ==
  ASSUME IInv, LeavingInv, KindsInv, QuietSocket, QuietReader, QuietRecord, HandleMsg
  PROVE  QuietSocket' /\ QuietReader' /\ QuietRecord'
<1>0. TypeOK /\ QueueInv /\ Typed
  BY DEF IInv, Typed, StreamInv
<1>1. /\ main \in Drains /\ queue # <<>> /\ queue' = Tail(queue)
      /\ handled' = Append(handled, Head(queue)) /\ Callback(Head(queue))
      /\ UNCHANGED <<peer, sock, reader>>
  BY DEF HandleMsg
<1>2. main \notin {"connect", "spin", "join", "done"}
  BY <1>1, WaitPhases
<1>3. /\ queue \in Seq(Msgs) /\ handled \in Seq(Msgs) /\ Len(queue) \in Nat \ {0}
      /\ Len(handled) \in Nat /\ Len(sent) \in Nat
  BY <1>0, <1>1, EmptySeq, LenProperties DEF TypeOK, Msgs
<1>4. /\ Len(queue') = Len(queue) - 1 /\ Head(queue) = queue[1] /\ Head(queue) \in Msgs
      /\ \A i \in 1..Len(queue') : queue'[i] = queue[i + 1]
  BY <1>1, <1>3, HeadTailProperties
<1>5. Head(queue) \in Kinds
  <2>1. 1 \in 1..Len(queue) /\ queue[1] # Damaged
    BY <1>3 DEF QuietReader
  <2>2. queue[1] = sent[Len(handled) + 1]
    BY <1>0, <2>1 DEF QueueInv
  <2>3. Len(handled) + 1 \in 1..Len(sent)
    BY <1>0, <1>3 DEF QueueInv, Base
  <2>4. sent[Len(handled) + 1] \in Kinds
    BY <2>3, ElementOfSeq DEF KindsInv
  <2>5. QED
    BY <1>4, <2>2, <2>4
<1>6. /\ Len(handled') = Len(handled) + 1 /\ handled'[Len(handled) + 1] = Head(queue)
      /\ \A i \in 1..Len(handled) : handled'[i] = handled[i]
  BY <1>1, <1>3, <1>4, AppendProperties
<1>7. wrapper' = wrapper \/ Head(queue) = "err"
  BY <1>1, <1>5 DEF Callback
<1>8. wrapper'.leaving = wrapper.leaving /\ wrapper'.smashed = wrapper.smashed
  BY <1>0, HandleKeepsLeaving
<1>9. QuietSocket'
  BY <1>1, <1>2, <1>8 DEF QuietSocket
<1>10. QuietReader'
  <2>1. \A i \in 1..Len(queue') : i + 1 \in 1..Len(queue)
    BY <1>3, <1>4
  <2>2. \A i \in 1..Len(queue') : queue'[i] # Damaged
    BY <1>4, <2>1 DEF QuietReader
  <2>3. QED
    BY <1>1, <1>8, <2>2 DEF QuietReader
<1>11. QuietRecord'
  <2>1. HasErr => HasErr'
    <3>1. ASSUME NEW i \in 1..Len(handled), handled[i] = "err"
          PROVE  i \in 1..Len(handled') /\ handled'[i] = "err"
      BY <1>3, <1>6, <3>1
    <3>2. QED
      BY <3>1 DEF HasErr
  <2>2. Head(queue) = "err" => HasErr'
    <3>1. Len(handled) + 1 \in 1..Len(handled')
      BY <1>3, <1>6
    <3>2. QED
      BY <1>6, <3>1 DEF HasErr
  <2>3. wrapper.fatal => HasErr
    BY <1>2 DEF QuietRecord
  <2>4. ~wrapper.smashed
    BY <1>2 DEF QuietRecord
  <2>5. QED
    BY <1>7, <1>8, <2>1, <2>2, <2>3, <2>4 DEF QuietRecord
<1>12. QED
  BY <1>9, <1>10, <1>11

LEMMA QuietStep ==
  ASSUME IInv, LeavingInv, KindsInv, QuietInv, [Next]_vars
  PROVE  QuietInv'
<1>0. TypeOK /\ SocketInv /\ EarlyInv
  BY DEF IInv, Typed, StreamInv
<1>1. GoAway => cut'
  BY DEF GoAway
<1>2. SUFFICES ASSUME ~cut, ~GoAway
               PROVE  QuietSocket' /\ QuietReader' /\ QuietRecord'
  <2>1. GoAway \/ cut' = cut
    BY DEF Next, MainStep, ServerStep, ConnectFails, Connect, Greeted, NotGreeted, StartApi,
       Woken, HandleMsg, Drained, AfterHandshake, AfterAccounts, ChooseAccount, Requests, HangUp,
       Disconnect, Judge, StopReader, Joined, ReaderStep, ReaderWorks, Greet, SendNext,
       SendUnasked, Sends, server, vars
  <2>2. QED
    BY <1>1, <1>2, <2>1 DEF QuietInv
<1>3. QuietSocket /\ QuietReader /\ QuietRecord
  BY <1>2 DEF QuietInv
(* In the session the socket is open on both ends.                         *)
<1>4. main \notin {"connect", "hangup", "judge", "join", "done"} =>
        sock /\ peer = "open" /\ ~wrapper.leaving
  BY <1>3 DEF QuietSocket, LeavingInv
<1>5. CASE UNCHANGED vars
  BY <1>3, <1>5 DEF vars, streamVars, threads, fetch, QuietSocket, QuietReader, QuietRecord, HasErr
<1>6. CASE ReaderStep
  BY <1>3, <1>6, QuietReaderStep
<1>7. CASE HandleMsg
  BY <1>3, <1>7, QuietHandles
<1>8. CASE Greet \/ SendNext \/ SendUnasked
  <2>1. UNCHANGED <<sock, peer, reader, queue, wrapper, main, handled>>
    BY <1>8 DEF Greet, SendNext, SendUnasked, Sends, threads, fetch
  <2>2. QED
    BY <1>3, <2>1 DEF QuietSocket, QuietReader, QuietRecord, HasErr
<1>9. CASE ConnectFails
  <2>1. /\ main = "connect" /\ main' = "done" /\ ~wrapper.leaving
        /\ UNCHANGED <<sock, peer, reader, queue, handled>>
        /\ wrapper' = [wrapper EXCEPT !.fatal = TRUE, !.dead = TRUE]
    BY <1>9 DEF ConnectFails, NotConnected, LeavingInv, threads
  <2>2. wrapper'.leaving = wrapper.leaving /\ wrapper'.smashed = wrapper.smashed
    BY <1>0, <2>1 DEF TypeOK
  <2>3. sock => peer = "open"
    BY <1>3 DEF QuietSocket
  <2>4. QED
    BY <1>3, <2>1, <2>2, <2>3, QuietEnd
<1>10. CASE Connect
  <2>1. /\ main = "connect" /\ main' = "greet" /\ sock' /\ peer' = "open"
        /\ UNCHANGED <<reader, queue, handled, wrapper>>
    BY <1>10 DEF Connect, threads
  <2>2. QED
    BY <1>3, <2>1 DEF QuietSocket, QuietReader, QuietRecord, HasErr
<1>11. CASE Greeted
  <2>1. /\ main = "greet" /\ UNCHANGED <<reader, queue, handled>>
        /\ sock /\ peer = "open" /\ ~wrapper.leaving
    BY <1>4, <1>11 DEF Greeted, threads
  <2>2. CASE main' = "start" /\ UNCHANGED <<sock, peer, wrapper>>
    BY <1>3, <2>1, <2>2, QuietFrame
  <2>3. CASE wrapper' = Complained(502) /\ main' = "spin" /\ UNCHANGED <<sock, peer>>
    <3>1. wrapper'.leaving = wrapper.leaving /\ wrapper'.smashed = wrapper.smashed
      BY <1>0, <2>3, ComplainedKeeps
    <3>2. QED
      BY <1>3, <2>1, <2>3, <3>1 DEF QuietSocket, QuietReader, QuietRecord
  <2>4. CASE Disconnected /\ NotConnected
    <3>1. /\ ~sock' /\ main' = "done"
          /\ wrapper' = [wrapper EXCEPT !.fatal = TRUE, !.dead = TRUE]
      BY <2>4 DEF Disconnected, NotConnected
    <3>2. wrapper'.leaving = wrapper.leaving /\ wrapper'.smashed = wrapper.smashed
      BY <1>0, <3>1 DEF TypeOK
    <3>3. QED
      BY <1>3, <2>1, <3>1, <3>2, QuietEnd
  <2>5. QED
    BY <1>11, <2>2, <2>3, <2>4 DEF Greeted
<1>12. CASE NotGreeted
  BY <1>4, <1>12 DEF NotGreeted
<1>13. CASE StartApi
  <2>1. /\ main = "start" /\ Ask("start", "wait1") /\ reader' = ReaderAt("top")
        /\ UNCHANGED <<queue, handled>>
    BY <1>13 DEF StartApi
  <2>2. UNCHANGED <<sock, peer, wrapper>>
    BY <1>4, <2>1, AskQuietly
  <2>3. QED
    BY <1>3, <2>1, <2>2, QuietFrame
<1>14. CASE Woken \/ Drained \/ AfterAccounts
  <2>1. main \in Waits \cup Drains /\ UNCHANGED <<sock, peer, reader, queue, handled, wrapper>>
    BY <1>14 DEF Woken, Drained, AfterAccounts, streamVars, threads, Waits
  <2>2. main \notin {"connect", "spin", "join", "done"}
    BY <2>1, WaitPhases
  <2>3. QED
    BY <1>3, <2>1, <2>2, QuietFrame
<1>15. ASSUME NEW result, Return(result), UNCHANGED <<reader, queue, handled>>,
              sock' => sock /\ peer' = peer
       PROVE  QuietSocket' /\ QuietReader' /\ QuietRecord'
  <2>1. main' = "join" /\ wrapper' = [wrapper EXCEPT !.dead = TRUE]
    BY <1>15 DEF Return
  <2>2. /\ wrapper'.leaving = wrapper.leaving /\ wrapper'.smashed = wrapper.smashed
        /\ wrapper'.fatal = wrapper.fatal
    BY <1>0, <2>1 DEF TypeOK
  <2>3. sock => peer = "open"
    BY <1>3 DEF QuietSocket
  <2>4. QED
    BY <1>3, <1>15, <2>1, <2>2, <2>3, QuietEnd
<1>16. CASE AfterHandshake
  <2>1. main = "wait1" /\ UNCHANGED <<reader, queue, handled>> /\ sock /\ peer = "open"
    BY <1>4, <1>16 DEF AfterHandshake, threads
  <2>2. CASE Return("failed") /\ UNCHANGED <<sock, wire, peer, tws>>
    BY <1>15, <2>1, <2>2
  <2>3. CASE Disconnected /\ Return("timeout")
    <3>1. ~sock'
      BY <2>3 DEF Disconnected
    <3>2. QED
      BY <1>15, <2>1, <2>3, <3>1
  <2>4. CASE main' = "choose" /\ UNCHANGED <<sock, wire, peer, wrapper, outcome, tws>>
    BY <1>3, <2>1, <2>4, QuietFrame
  <2>5. CASE Ask("accts", "wait2")
    <3>1. UNCHANGED <<sock, peer, wrapper>>
      BY <2>1, <2>5, AskQuietly
    <3>2. QED
      BY <1>3, <2>1, <3>1, QuietFrame
  <2>6. QED
    BY <1>16, <2>2, <2>3, <2>4, <2>5 DEF AfterHandshake
<1>17. CASE ChooseAccount
  <2>1. main = "choose" /\ UNCHANGED <<sock, peer, reader, queue, handled>>
    BY <1>17 DEF ChooseAccount, threads
  <2>2. CASE Return("failed")
    BY <1>15, <2>1, <2>2
  <2>3. CASE UNCHANGED wrapper
    BY <1>3, <2>1, <2>3, QuietFrame
  <2>4. QED
    BY <1>17, <2>2, <2>3 DEF ChooseAccount
<1>18. CASE Requests
  <2>1. /\ main \in {"ask1", "ask2", "wait3", "ask4"}
        /\ \E r, n : Ask(r, n)
        /\ UNCHANGED <<reader, queue, handled>>
    BY <1>18 DEF Requests, threads
  <2>2. UNCHANGED <<sock, peer, wrapper>>
    BY <1>4, <2>1, AskQuietly
  <2>3. QED
    BY <1>3, <2>1, <2>2, QuietFrame
<1>19. CASE HangUp
  <2>1. /\ main = "leave" /\ main' = "hangup" /\ sock
        /\ wrapper' = [wrapper EXCEPT !.leaving = TRUE]
        /\ UNCHANGED <<sock, peer, reader, queue, handled>>
    BY <1>4, <1>19 DEF HangUp, threads
  <2>2. wrapper'.leaving /\ wrapper'.fatal = wrapper.fatal /\ wrapper'.smashed = wrapper.smashed
    BY <1>0, <2>1 DEF TypeOK
  <2>3. reader.pc \notin Complaining
    BY <1>0, <1>3, <2>1 DEF QuietReader, SocketInv
  <2>4. QuietSocket'
    BY <1>3, <2>1 DEF QuietSocket
  <2>5. QuietReader'
    BY <1>3, <2>1, <2>3 DEF QuietReader, Complaining
  <2>6. QuietRecord'
    BY <1>3, <2>1, <2>2 DEF QuietRecord, HasErr
  <2>7. QED
    BY <2>4, <2>5, <2>6
<1>20. CASE Disconnect
  <2>1. /\ main = "hangup" /\ main' = "judge" /\ ~sock' /\ wrapper.leaving
        /\ UNCHANGED <<wrapper, reader, queue, handled>>
    BY <1>20 DEF Disconnect, Disconnected, LeavingInv, threads
  <2>2. QED
    BY <1>3, <2>1 DEF QuietSocket, QuietReader, QuietRecord, HasErr
<1>21. CASE Judge
  <2>1. UNCHANGED <<sock, peer, reader, queue, handled>> /\ \E result : Return(result)
    BY <1>21 DEF Judge, threads
  <2>2. QED
    BY <1>15, <2>1
<1>22. CASE StopReader \/ Joined
  <2>1. /\ main = "join" /\ main' \in {"join", "done"} /\ UNCHANGED <<wrapper, handled>>
        /\ UNCHANGED <<reader, queue>> /\ (sock' => sock /\ peer' = peer)
    BY <1>22 DEF StopReader, Joined, Disconnected, streamVars, threads, fetch
  <2>2. sock => peer = "open"
    BY <1>3 DEF QuietSocket
  <2>3. QED
    BY <1>3, <2>1, <2>2, QuietEnd
<1>23. QED
  BY <1>2, <1>5, <1>6, <1>7, <1>8, <1>9, <1>10, <1>11, <1>12, <1>13, <1>14, <1>16, <1>17, <1>18,
     <1>19, <1>20, <1>21, <1>22 DEF Next, MainStep, ServerStep

(* If TWS neither ended the connection nor sent an error, what the reader  *)
(* makes of the socket that Fetch closes under it neither spoils the       *)
(* snapshot nor is written into the dying client.                          *)
THEOREM HangUpStaysQuiet == Spec => []HangUpIsQuiet
<1>1. Init => LeavingInv /\ KindsInv /\ QuietInv
  <2> SUFFICES ASSUME Init PROVE LeavingInv /\ KindsInv /\ QuietInv
    OBVIOUS
  <2>1. LeavingInv
    BY DEF Init, LeavingInv
  <2>2. KindsInv
    BY DEF Init, KindsInv
  <2>3. QuietInv
    BY DEF Init, ReaderAt, Complaining, QuietInv, QuietSocket, QuietReader, QuietRecord
  <2> QED
    BY <2>1, <2>2, <2>3
<1>2. IInv /\ [Next]_vars => IInv'
  BY NextIInv
<1>3. IInv /\ LeavingInv /\ KindsInv /\ QuietInv /\ [Next]_vars =>
        LeavingInv' /\ KindsInv' /\ QuietInv'
  BY LeavingStep, KindsStep, QuietStep
<1>4. IInv /\ QuietInv => HangUpIsQuiet
  <2> SUFFICES ASSUME IInv, QuietInv, wrapper.leaving, ~cut,
                      \A i \in DOMAIN handled : handled[i] # "err"
               PROVE  ~wrapper.fatal /\ ~wrapper.smashed
    BY DEF HangUpIsQuiet
  <2>1. DOMAIN handled = 1..Len(handled)
    BY LenProperties DEF IInv, Typed, TypeOK
  <2>2. ~HasErr
    BY <2>1 DEF HasErr
  <2> QED
    BY <2>2 DEF QuietInv, QuietRecord
<1> QED
  BY <1>1, <1>2, <1>3, <1>4, InitIInv, PTL DEF Spec

------------------------------------------------------------------------------
(* What was handled.                                                       *)

(* The callbacks have been given what was sent, but for a damaged message  *)
(* at the end.                                                             *)
HandledInv ==
  /\ Len(handled) <= Len(sent)
  /\ \A i \in 1..Len(handled) :
       handled[i] = sent[i] \/ (handled[i] = Damaged /\ i = Len(handled))

Spoilt == \E i \in 1..Len(handled) : handled[i] = Damaged

LEMMA StreamHandled ==
  ASSUME Typed, Typed', HandledInv, [Stream!Send \/ Stream!Handle]_<<sent, handled>>
  PROVE  HandledInv'
<1>0. /\ sent \in Seq(Message) /\ handled \in Seq(Msgs)
      /\ Len(sent) \in Nat /\ Len(handled) \in Nat
  BY LenProperties DEF Typed, TypeOK, Msgs
<1>1. CASE Stream!Send
  <2>1. PICK m \in Message : sent' = Append(sent, m) /\ handled' = handled
    BY <1>1 DEF Stream!Send
  <2>2. Len(sent') = Len(sent) + 1 /\ \A i \in 1..Len(sent) : sent'[i] = sent[i]
    BY <1>0, <2>1, AppendProperties
  <2> QED
    BY <1>0, <2>1, <2>2 DEF HandledInv
<1>2. CASE Stream!Handle
  <2>1. PICK m \in {sent[Len(handled) + 1], Damaged} :
          handled' = Append(handled, m) /\ sent' = sent
    BY <1>2 DEF Stream!Handle
  <2>2. /\ Len(handled) < Len(sent)
        /\ handled # <<>> => handled[Len(handled)] # Damaged
    BY <1>2 DEF Stream!Handle, Stream!Broken
  <2>3. m \in Msgs
    BY <1>0, <2>2 DEF Msgs
  <2>4. /\ Len(handled') = Len(handled) + 1 /\ handled'[Len(handled) + 1] = m
        /\ \A i \in 1..Len(handled) : handled'[i] = handled[i]
    BY <1>0, <2>1, <2>3, AppendProperties
  <2>5. \A i \in 1..Len(handled) : handled[i] = sent[i]
    <3> SUFFICES ASSUME NEW i \in 1..Len(handled) PROVE handled[i] = sent[i]
      OBVIOUS
    <3>1. handled # <<>>
      BY <1>0, EmptySeq
    <3> QED
      BY <2>2, <3>1 DEF HandledInv
  <2> QED
    BY <1>0, <2>1, <2>2, <2>4, <2>5 DEF HandledInv
<1>3. CASE UNCHANGED <<sent, handled>>
  BY <1>3 DEF HandledInv
<1> QED
  BY <1>1, <1>2, <1>3

(* A damaged message is the last the reader put, and the socket is gone.   *)
LEMMA SpoiltMeansGone ==
  ASSUME IInv, HandledInv, Spoilt
  PROVE  ~sock
<1>1. PICK i \in 1..Len(handled) : handled[i] = Damaged
  BY DEF Spoilt
<1>2. sent \in Seq(Message) /\ Len(handled) \in Nat /\ Len(sent) \in Nat
  BY LenProperties DEF IInv, Typed, TypeOK
<1>3. handled[i] # sent[i]
  <2>1. i \in 1..Len(sent)
    BY <1>2 DEF HandledInv
  <2> QED
    BY <1>1, <1>2, <2>1, ElementOfSeq, MessageAssumption
<1>4. handled # <<>> /\ handled[Len(handled)] = Damaged
  BY <1>1, <1>3, EmptySeq DEF HandledInv
<1>5. Ended
  BY <1>4 DEF IInv, StreamInv, QueueInv
<1> QED
  BY <1>5 DEF IInv, StreamInv, SocketInv, Ended

------------------------------------------------------------------------------
(* The rows come before their end, in what was sent and in what TWS still  *)
(* has to send.                                                            *)

RowFirst(row, end) ==
  /\ \A i \in 1..Len(sent) : sent[i] = end =>
       \E j \in 1..Len(sent) : j < i /\ sent[j] = row
  /\ \A i \in 1..Len(tws) : tws[i] = end =>
       \/ \E j \in 1..Len(tws) : j < i /\ tws[j] = row
       \/ \E j \in 1..Len(sent) : sent[j] = row

Ends == {<<"sum", "sumEnd">>, <<"pos", "posEnd">>}

(* Every answer brings the rows before their end.                          *)
LEMMA AnswersInOrder ==
  ASSUME NEW request, NEW a \in Answers(request), NEW e \in Ends,
         NEW i \in 1..Len(a), a[i] = e[2]
  PROVE  \E j \in 1..Len(a) : j < i /\ a[j] = e[1]
BY DEF Answers, Ends

LEMMA AsksInOrder ==
  ASSUME Typed, NEW request, NEW a \in Answers(request), NEW e \in Ends,
         RowFirst(e[1], e[2]), tws' = tws \o a, UNCHANGED sent
  PROVE  RowFirst(e[1], e[2])'
<1>1. tws \in Seq(Message) /\ a \in Seq(Message) /\ Len(tws) \in Nat /\ Len(a) \in Nat
  BY AnswersType, LenProperties DEF Typed
<1>2. /\ Len(tws') = Len(tws) + Len(a)
      /\ \A i \in 1..(Len(tws) + Len(a)) :
           tws'[i] = IF i <= Len(tws) THEN tws[i] ELSE a[i - Len(tws)]
  BY <1>1, ConcatProperties
<1>3. ASSUME NEW i \in 1..Len(tws'), tws'[i] = e[2]
      PROVE  \/ \E j \in 1..Len(tws') : j < i /\ tws'[j] = e[1]
             \/ \E j \in 1..Len(sent') : sent'[j] = e[1]
  <2>1. CASE i <= Len(tws)
    <3>1. i \in 1..Len(tws) /\ tws[i] = e[2]
      BY <1>1, <1>2, <1>3, <2>1
    <3>2. \A j \in 1..Len(tws) : j \in 1..Len(tws') /\ tws'[j] = tws[j]
      BY <1>1, <1>2
    <3>3. \/ \E j \in 1..Len(tws) : j < i /\ tws[j] = e[1]
          \/ \E j \in 1..Len(sent) : sent[j] = e[1]
      BY <3>1 DEF RowFirst
    <3> QED
      BY <3>2, <3>3
  <2>2. CASE ~(i <= Len(tws))
    <3>1. i - Len(tws) \in 1..Len(a) /\ a[i - Len(tws)] = e[2]
      BY <1>1, <1>2, <1>3, <2>2
    <3>2. PICK j \in 1..Len(a) : j < i - Len(tws) /\ a[j] = e[1]
      BY <3>1, AnswersInOrder
    <3>3. Len(tws) + j \in 1..Len(tws') /\ Len(tws) + j < i /\ tws'[Len(tws) + j] = a[j]
      BY <1>1, <1>2, <3>2
    <3> QED
      BY <3>2, <3>3
  <2> QED
    BY <2>1, <2>2
<1> QED
  BY <1>3 DEF RowFirst

(* Sending moves a message from the one to the other.                      *)
LEMMA SendsInOrder ==
  ASSUME Typed, NEW e \in Ends, RowFirst(e[1], e[2]), tws # <<>>,
         tws' = Tail(tws), sent' = Append(sent, Head(tws))
  PROVE  RowFirst(e[1], e[2])'
<1>1. tws \in Seq(Message) /\ sent \in Seq(Message) /\ Len(tws) \in Nat /\ Len(sent) \in Nat
  BY LenProperties DEF Typed, TypeOK
<1>2. /\ Len(tws') = Len(tws) - 1 /\ Len(tws) >= 1
      /\ \A i \in 1..Len(tws') : tws'[i] = tws[i + 1]
      /\ Head(tws) = tws[1] /\ Head(tws) \in Message
  BY <1>1, HeadTailProperties, EmptySeq
<1>3. /\ Len(sent') = Len(sent) + 1 /\ sent'[Len(sent) + 1] = tws[1]
      /\ \A i \in 1..Len(sent) : sent'[i] = sent[i]
  BY <1>1, <1>2, AppendProperties
<1>4. ASSUME NEW i \in 1..Len(sent'), sent'[i] = e[2]
      PROVE  \E j \in 1..Len(sent') : j < i /\ sent'[j] = e[1]
  <2>1. CASE i \in 1..Len(sent)
    <3>1. PICK j \in 1..Len(sent) : j < i /\ sent[j] = e[1]
      BY <1>3, <1>4, <2>1 DEF RowFirst
    <3>2. j \in 1..Len(sent') /\ sent'[j] = sent[j]
      BY <1>1, <1>3
    <3> QED
      BY <3>1, <3>2
  <2>2. CASE i = Len(sent) + 1
    <3>1. 1 \in 1..Len(tws) /\ tws[1] = e[2]
      BY <1>1, <1>2, <1>3, <1>4, <2>2
    <3>2. PICK j \in 1..Len(sent) : sent[j] = e[1]
      BY <3>1 DEF RowFirst
    <3>3. j \in 1..Len(sent') /\ sent'[j] = sent[j] /\ j < i
      BY <1>1, <1>3, <2>2
    <3> QED
      BY <3>2, <3>3
  <2> QED
    BY <1>1, <1>3, <2>1, <2>2
<1>5. ASSUME NEW i \in 1..Len(tws'), tws'[i] = e[2]
      PROVE  \/ \E j \in 1..Len(tws') : j < i /\ tws'[j] = e[1]
             \/ \E j \in 1..Len(sent') : sent'[j] = e[1]
  <2>1. i + 1 \in 1..Len(tws) /\ tws[i + 1] = e[2]
    BY <1>1, <1>2, <1>5
  <2>2. CASE \E j \in 1..Len(tws) : j < i + 1 /\ tws[j] = e[1]
    <3>1. PICK j \in 1..Len(tws) : j < i + 1 /\ tws[j] = e[1]
      BY <2>2
    <3>2. CASE j = 1
      <4>1. Len(sent) + 1 \in 1..Len(sent') /\ sent'[Len(sent) + 1] = e[1]
        BY <1>1, <1>3, <3>1, <3>2
      <4> QED
        BY <4>1
    <3>3. CASE j # 1
      <4>1. j - 1 \in 1..Len(tws') /\ j - 1 < i /\ (j - 1) + 1 = j
        BY <1>1, <1>2, <3>1, <3>3
      <4>2. tws'[j - 1] = e[1]
        BY <1>2, <3>1, <4>1
      <4> QED
        BY <4>1, <4>2
    <3> QED
      BY <3>2, <3>3
  <2>3. CASE \E j \in 1..Len(sent) : sent[j] = e[1]
    <3>1. \A j \in 1..Len(sent) : j \in 1..Len(sent') /\ sent'[j] = sent[j]
      BY <1>1, <1>3
    <3> QED
      BY <2>3, <3>1
  <2> QED
    BY <2>1, <2>2, <2>3 DEF RowFirst
<1> QED
  BY <1>4, <1>5 DEF RowFirst

(* Neither end is ever sent unasked.                                       *)
LEMMA ExtrasInOrder ==
  ASSUME Typed, NEW e \in Ends, RowFirst(e[1], e[2]), UNCHANGED tws,
         NEW m \in Message, m # e[2], sent' = Append(sent, m)
  PROVE  RowFirst(e[1], e[2])'
<1>1. sent \in Seq(Message) /\ Len(sent) \in Nat
  BY LenProperties DEF Typed, TypeOK
<1>2. /\ Len(sent') = Len(sent) + 1 /\ sent'[Len(sent) + 1] = m
      /\ \A i \in 1..Len(sent) : sent'[i] = sent[i]
  BY <1>1, AppendProperties
<1>3. \A j \in 1..Len(sent) : j \in 1..Len(sent') /\ sent'[j] = sent[j]
  BY <1>1, <1>2
<1>4. ASSUME NEW i \in 1..Len(sent'), sent'[i] = e[2]
      PROVE  \E j \in 1..Len(sent') : j < i /\ sent'[j] = e[1]
  <2>1. i \in 1..Len(sent) /\ sent[i] = e[2]
    BY <1>1, <1>2, <1>4
  <2> QED
    BY <1>3, <2>1 DEF RowFirst
<1>5. ASSUME NEW i \in 1..Len(tws'), tws'[i] = e[2]
      PROVE  \/ \E j \in 1..Len(tws') : j < i /\ tws'[j] = e[1]
             \/ \E j \in 1..Len(sent') : sent'[j] = e[1]
  BY <1>3, <1>5 DEF RowFirst
<1> QED
  BY <1>4, <1>5 DEF RowFirst

LEMMA OrderStep ==
  ASSUME IInv, NEW e \in Ends, RowFirst(e[1], e[2]), [Next]_vars
  PROVE  RowFirst(e[1], e[2])'
<1>0. Typed
  BY DEF IInv
<1>1. CASE UNCHANGED <<tws, sent>>
  BY <1>1 DEF RowFirst
<1>2. ASSUME NEW request, NEW next, Ask(request, next), UNCHANGED sent
      PROVE  RowFirst(e[1], e[2])'
  <2>1. tws' = tws \/ \E a \in Answers(request) : tws' = tws \o a
    BY <1>2 DEF Ask
  <2> QED
    BY <1>0, <1>1, <1>2, <2>1, AsksInOrder
<1>3. CASE StartApi \/ Requests
  BY <1>2, <1>3 DEF StartApi, Requests
<1>4. CASE AfterHandshake
  <2>1. UNCHANGED sent /\ (UNCHANGED tws \/ Ask("accts", "wait2"))
    BY <1>4 DEF AfterHandshake
  <2> QED
    BY <1>1, <1>2, <2>1
<1>5. CASE ConnectFails \/ Connect \/ Greeted \/ NotGreeted \/ Woken \/ HandleMsg \/ Drained
           \/ AfterAccounts \/ ChooseAccount \/ HangUp \/ Disconnect \/ Judge \/ StopReader \/ Joined
           \/ ReaderStep \/ Greet \/ GoAway
  BY <1>1, <1>5 DEF ConnectFails, Connect, Greeted, NotGreeted, Woken, HandleMsg, Drained,
     AfterAccounts, ChooseAccount, HangUp, Disconnect, Judge, StopReader, Joined,
     ReaderStep, ReaderWorks, Greet, GoAway, server
<1>6. CASE SendNext
  BY <1>0, <1>6, SendsInOrder DEF SendNext, Sends
<1>7. CASE SendUnasked
  <2>1. PICK m \in {"pos", "warn", "err"} : Sends(m) /\ UNCHANGED tws
    BY <1>7 DEF SendUnasked
  <2>2. m \in Message /\ m # e[2]
    BY KindTypes DEF Ends
  <2> QED
    BY <1>0, <2>1, <2>2, ExtrasInOrder DEF Sends
<1>8. CASE UNCHANGED vars
  BY <1>1, <1>8 DEF vars, server
<1> QED
  BY <1>3, <1>4, <1>5, <1>6, <1>7, <1>8 DEF Next, MainStep, ServerStep

------------------------------------------------------------------------------
(* The snapshot.                                                           *)

(* An end the flags name was handled; a stream that broke off before the   *)
(* last requests was complained about; and what Fetch returned was neither *)
(* complained about nor without its ends.                                  *)
WholeInv ==
  /\ HandledInv
  /\ \A e \in Ends : RowFirst(e[1], e[2])
  /\ \A end \in {"sumEnd", "posEnd"} :
       end \in flags => \E i \in 1..Len(handled) : handled[i] = end
  /\ main \in {"ask4", "leave", "hangup", "judge"} /\ Spoilt => wrapper.fatal
  /\ outcome = "detail" =>
       main \in {"join", "done"} /\ ~Spoilt /\ {"sumEnd", "posEnd"} \subseteq flags

LEMMA WholeStep ==
  ASSUME IInv, IInv', WholeInv, [Next]_vars,
         [Stream!Send \/ Stream!Handle]_<<sent, handled>>
  PROVE  WholeInv'
<1>0. Typed /\ Typed' /\ TypeOK
  BY DEF IInv, Typed
<1>1. HandledInv'
  BY <1>0, StreamHandled DEF WholeInv
<1>2. \A e \in Ends : RowFirst(e[1], e[2])'
  BY OrderStep DEF WholeInv
<1>3. ASSUME UNCHANGED <<flags, handled>>
      PROVE  \A end \in {"sumEnd", "posEnd"} :
               end \in flags' => \E i \in 1..Len(handled') : handled'[i] = end
  BY <1>3 DEF WholeInv
<1>4. handled' = handled => Spoilt' = Spoilt
  BY DEF Spoilt
(* Steps before the last requests: nothing has come of Fetch yet.          *)
<1>5. ASSUME UNCHANGED <<flags, handled>>, main' \notin {"ask4", "leave", "hangup", "judge"},
             main \notin {"join", "done"}, outcome' # "detail"
      PROVE  WholeInv'
  BY <1>1, <1>2, <1>3, <1>5 DEF WholeInv
<1>6. main \notin {"join", "done"} => outcome # "detail"
  BY DEF WholeInv
<1>7. CASE UNCHANGED vars
  <2>1. UNCHANGED <<flags, handled, main, outcome, wrapper>>
    BY <1>7 DEF vars, fetch, streamVars
  <2> QED
    BY <1>1, <1>2, <1>3, <1>4, <2>1 DEF WholeInv
<1>8. CASE ReaderStep
  BY <1>0, <1>1, <1>2, <1>3, <1>4, <1>8, ReaderKeeps DEF WholeInv
<1>9. CASE ServerStep
  <2>1. UNCHANGED <<flags, handled, main, outcome, wrapper>>
    BY <1>9 DEF ServerStep, Greet, SendNext, SendUnasked, Sends, GoAway, fetch
  <2> QED
    BY <1>1, <1>2, <1>3, <1>4, <2>1 DEF WholeInv
<1>10. CASE ConnectFails \/ Connect \/ Greeted \/ NotGreeted \/ StartApi \/ Woken \/ Drained
            \/ AfterHandshake \/ AfterAccounts \/ ChooseAccount
  <2>1. UNCHANGED <<flags, handled>> /\ main \notin {"join", "done"}
    BY <1>10, WaitPhases DEF ConnectFails, Connect, Greeted, NotGreeted, StartApi, Woken, Drained,
       AfterHandshake, AfterAccounts, ChooseAccount
  <2>2. outcome' # "detail"
    BY <1>6, <1>10, <2>1 DEF ConnectFails, Connect, Greeted, NotGreeted, StartApi, Woken, Drained,
       AfterHandshake, AfterAccounts, ChooseAccount, NotConnected, Return
  <2>3. main' \notin {"ask4", "leave", "hangup", "judge"}
    BY <1>0, <1>10, WaitPhases, AskKeeps DEF ConnectFails, Connect, Greeted, NotGreeted, StartApi,
       Woken, Drained, AfterHandshake, AfterAccounts, ChooseAccount, NotConnected, Return
  <2> QED
    BY <1>5, <2>1, <2>2, <2>3
<1>11. CASE HandleMsg
  <2>1. /\ main \in Drains /\ main' \in Waits \cup Drains
        /\ handled' = Append(handled, Head(queue)) /\ outcome' = outcome
        /\ queue # <<>> /\ Callback(Head(queue))
    BY <1>11, WaitPhases DEF HandleMsg
  <2>2. handled \in Seq(Msgs) /\ Head(queue) \in Msgs /\ Len(handled) \in Nat
    BY <1>0, <2>1, HeadTailProperties, LenProperties DEF TypeOK, Msgs
  <2>3. /\ Len(handled') = Len(handled) + 1 /\ handled'[Len(handled) + 1] = Head(queue)
        /\ \A i \in 1..Len(handled) : handled'[i] = handled[i]
    BY <2>1, <2>2, AppendProperties
  <2>4. ASSUME NEW end \in {"sumEnd", "posEnd"}, end \in flags'
        PROVE  \E i \in 1..Len(handled') : handled'[i] = end
    <3>1. end \in flags \/ Head(queue) = end
      BY <2>1, <2>4 DEF Callback
    <3>2. CASE end \in flags
      <4>1. PICK i \in 1..Len(handled) : handled[i] = end
        BY <3>2 DEF WholeInv
      <4>2. i \in 1..Len(handled') /\ handled'[i] = end
        BY <2>2, <2>3, <4>1
      <4> QED
        BY <4>2
    <3>3. CASE Head(queue) = end
      <4>1. Len(handled) + 1 \in 1..Len(handled')
        BY <2>2, <2>3
      <4> QED
        BY <2>3, <3>3, <4>1
    <3> QED
      BY <3>1, <3>2, <3>3
  <2>5. main \notin {"join", "done"} /\ main' \notin {"ask4", "leave", "hangup", "judge"}
    BY <2>1, WaitPhases
  <2> QED
    BY <1>1, <1>2, <1>6, <2>1, <2>4, <2>5 DEF WholeInv
<1>12. CASE Requests
  <2>1. UNCHANGED <<flags, handled, outcome>> /\ main \notin {"join", "done"}
    BY <1>12 DEF Requests
  <2>2. CASE main \in {"ask1", "ask2"}
    <3>1. main' \notin {"ask4", "leave", "hangup", "judge"}
      BY <1>0, <1>12, <2>2, AskKeeps DEF Requests
    <3> QED
      BY <1>5, <1>6, <2>1, <3>1
  <2>3. CASE main \in {"wait3", "ask4"}
    <3>1. /\ wrapper.fatal => wrapper'.fatal
          /\ ~sock => wrapper'.fatal
      BY <1>0, <1>12, <2>3, AskKeeps DEF Requests
    <3>2. Spoilt => ~sock
      BY SpoiltMeansGone DEF WholeInv
    <3> QED
      BY <1>1, <1>2, <1>3, <1>4, <1>6, <2>1, <3>1, <3>2 DEF WholeInv
  <2> QED
    BY <1>12, <2>2, <2>3 DEF Requests
<1>13. CASE HangUp \/ Disconnect
  <2>1. /\ UNCHANGED <<flags, handled, outcome>>
        /\ main \in {"leave", "hangup"} /\ main' \in {"hangup", "judge"}
        /\ wrapper' = wrapper \/ wrapper' = [wrapper EXCEPT !.leaving = TRUE]
    BY <1>13 DEF HangUp, Disconnect
  <2>2. wrapper'.fatal = wrapper.fatal
    BY <1>0, <2>1 DEF TypeOK
  <2> QED
    BY <1>1, <1>2, <1>3, <1>4, <1>6, <2>1, <2>2 DEF WholeInv
<1>14. CASE Judge
  <2>1. /\ UNCHANGED <<flags, handled>> /\ main = "judge" /\ main' = "join"
        /\ outcome' = CASE wrapper.fatal -> "failed"
                        [] ~wrapper.fatal /\ ~Ready("wait3") -> "timeout"
                        [] OTHER -> "detail"
    BY <1>14 DEF Judge, Return
  <2>2. outcome' = "detail" => ~wrapper.fatal /\ Ready("wait3")
    BY <2>1
  <2>3. Ready("wait3") => {"sumEnd", "posEnd"} \subseteq flags
    BY DEF Ready
  <2> QED
    BY <1>1, <1>2, <1>3, <1>4, <2>1, <2>2, <2>3 DEF WholeInv
<1>15. CASE StopReader \/ Joined
  <2>1. UNCHANGED <<flags, handled, outcome>> /\ main = "join" /\ main' \in {"join", "done"}
    BY <1>15 DEF StopReader, Joined, fetch
  <2> QED
    BY <1>1, <1>2, <1>3, <1>4, <2>1 DEF WholeInv
<1> QED
  BY <1>7, <1>8, <1>9, <1>10, <1>11, <1>12, <1>13, <1>14, <1>15 DEF Next, MainStep

(* A snapshot that Fetch returns is made of undamaged messages, and the    *)
(* rows of summary and portfolio are in it.                                *)
THEOREM SnapshotsAreWhole == Spec => []SnapshotIsWhole
<1>1. Init => WholeInv
  BY EmptySeq DEF Init, WholeInv, HandledInv, RowFirst, Spoilt
<1>2. IInv /\ [Next]_vars => IInv' /\ [Stream!Send \/ Stream!Handle]_<<sent, handled>>
  BY NextIInv
<1>3. IInv /\ WholeInv /\ [Next]_vars => WholeInv'
  BY <1>2, WholeStep
<1>4. IInv /\ WholeInv => SnapshotIsWhole
  <2> SUFFICES ASSUME IInv, WholeInv, outcome = "detail"
               PROVE  /\ \A i \in DOMAIN handled : i \in DOMAIN sent /\ handled[i] = sent[i]
                      /\ \A row \in {"sum", "pos"} : \E i \in DOMAIN handled : handled[i] = row
    BY DEF SnapshotIsWhole
  <2>1. /\ sent \in Seq(Message) /\ handled \in Seq(Msgs)
        /\ Len(sent) \in Nat /\ Len(handled) \in Nat
        /\ DOMAIN sent = 1..Len(sent) /\ DOMAIN handled = 1..Len(handled)
    BY LenProperties DEF IInv, Typed, TypeOK, Msgs
  <2>2. \A i \in DOMAIN handled : i \in DOMAIN sent /\ handled[i] = sent[i]
    <3> SUFFICES ASSUME NEW i \in 1..Len(handled)
                 PROVE  i \in 1..Len(sent) /\ handled[i] = sent[i]
      BY <2>1
    <3>1. ~Spoilt /\ HandledInv
      BY DEF WholeInv
    <3>2. handled[i] # Damaged
      BY <3>1 DEF Spoilt
    <3>3. i \in 1..Len(sent)
      <4>1. Len(handled) <= Len(sent)
        BY <3>1 DEF HandledInv
      <4> QED
        BY <2>1, <4>1
    <3> QED
      BY <3>1, <3>2, <3>3 DEF HandledInv
  <2>3. ASSUME NEW e \in Ends PROVE \E i \in DOMAIN handled : handled[i] = e[1]
    <3>1. PICK i \in 1..Len(handled) : handled[i] = e[2]
      BY DEF WholeInv, Ends
    <3>2. PICK j \in 1..Len(sent) : j < i /\ sent[j] = e[1]
      BY <2>1, <2>2, <3>1 DEF WholeInv, RowFirst
    <3>3. j \in DOMAIN handled
      BY <2>1, <3>2
    <3> QED
      BY <2>2, <3>2, <3>3
  <2>4. <<"sum", "sumEnd">> \in Ends /\ <<"pos", "posEnd">> \in Ends
    BY DEF Ends
  <2>5. \A row \in {"sum", "pos"} : \E i \in DOMAIN handled : handled[i] = row
    BY <2>3, <2>4
  <2> QED
    BY <2>2, <2>5
<1> QED
  BY <1>1, <1>2, <1>3, <1>4, InitIInv, PTL DEF Spec
==============================================================================
