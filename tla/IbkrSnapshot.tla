---------------------------- MODULE IbkrSnapshot ----------------------------
(***************************************************************************)
(* One read-only account snapshot from TWS: SnapshotClient::Fetch in the   *)
(* caller's thread, the EReader thread beside it, and TWS, which answers   *)
(* when it likes, complains, closes or resets the connection.              *)
(***************************************************************************)
EXTENDS TwsReader

CONSTANTS
  MaxLag,       \* bound: messages TWS has sent and the client has not handled
  MaxExtras     \* bound: messages TWS sends unasked

ASSUME SnapshotBounds == MaxLag \in Nat /\ MaxExtras \in Nat

(* The handshake's answers; what TWS sends in the session: the next order  *)
(* id, the accounts or an empty list of them, the rows and ends of summary *)
(* and portfolio, notices the client ignores and errors.                   *)
Greetings == {"ok", "old", "redirect"}
Kinds == {"ids", "accts", "none", "sum", "sumEnd", "pos", "posEnd", "warn", "err"}

ASSUME KindsAssumption == Message = Kinds \cup Greetings

VARIABLES
  main,      \* the caller's thread, inside Fetch
  outcome,   \* what Fetch came to
  flags,     \* the flags and lists the callbacks fill
  tws,       \* TWS: what it has been asked for and not sent yet
  sent,      \* history: the messages of the session
  handled,   \* history: the messages the callbacks were given
  extras,    \* unasked messages so far
  cut        \* history: the connection was ended by TWS or the network

fetch == <<main, outcome, flags, handled>>
server == <<tws, sent, extras, cut>>
vars == <<streamVars, fetch, server>>

Init ==
  /\ wire = <<>> /\ peer = "closed" /\ sock = FALSE
  /\ reader = ReaderAt("off")
  /\ queue = <<>> /\ open = FALSE /\ alive = TRUE
  /\ wrapper = [fatal |-> FALSE, leaving |-> FALSE, dead |-> FALSE, smashed |-> FALSE]
  /\ main = "connect" /\ outcome = "none" /\ flags = {} /\ handled = <<>>
  /\ tws = <<>> /\ sent = <<>> /\ extras = 0 /\ cut = FALSE

------------------------------------------------------------------------------
(* Requests.  isConnected() is looked at first; what happens to bytes sent *)
(* to a peer that is gone is up to the system: they vanish, the send fails *)
(* or SIGPIPE ends the process.                                            *)

(* What TWS answers: the next order id, with or without the accounts; the  *)
(* accounts, or none; rows and ends of summary and portfolio.              *)
Answers(request) ==
  CASE request = "start" -> {<<"accts", "ids">>, <<"ids">>}
    [] request = "accts" -> {<<"accts">>, <<"none">>}
    [] request = "summary" -> {<<"sum", "sumEnd">>}
    [] request = "updates" -> {<<"pos", "posEnd">>}
    [] OTHER -> {<<>>}

\* Faulty: a request without a connection goes unnoticed.
AskSilently(request, next) ==
  /\ main' = next
  /\ IF sock /\ peer = "open" THEN \E a \in Answers(request) : tws' = tws \o a
     ELSE UNCHANGED tws
  /\ UNCHANGED <<sock, wire, peer, wrapper>>

Ask(request, next) ==
  \/ /\ ~sock
     /\ wrapper' = Complained(504)
     /\ main' = next
     /\ UNCHANGED <<sock, wire, peer, tws>>
  \/ /\ sock
     /\ main' = next
     /\ IF peer = "open" THEN \E a \in Answers(request) : tws' = tws \o a
        ELSE UNCHANGED tws
     /\ UNCHANGED <<sock, wire, peer, wrapper>>
  \/ /\ sock /\ peer # "open"
     /\ Disconnected /\ wrapper' = Complained(509)
     /\ main' = next
     /\ UNCHANGED tws
  \/ /\ sock /\ peer # "open"
     /\ main' = "killed"
     /\ UNCHANGED <<sock, wire, peer, wrapper, tws>>

(* Fetch throws, or returns: the client is destroyed, error_text_ before   *)
(* the reader.                                                             *)
Return(result) ==
  /\ outcome' = result
  /\ main' = "join"
  /\ wrapper' = [wrapper EXCEPT !.dead = TRUE]

------------------------------------------------------------------------------
(* eConnect, in the caller's thread.                                       *)

NotConnected ==
  /\ main' = "done" /\ outcome' = "failed"
  /\ wrapper' = [wrapper EXCEPT !.fatal = TRUE, !.dead = TRUE]

ConnectFails ==
  /\ main = "connect"
  /\ NotConnected
  /\ UNCHANGED <<wire, peer, sock, threads, alive, flags, handled, server>>

Connect ==
  /\ main = "connect"
  /\ sock' = TRUE /\ peer' = "open"
  /\ main' = "greet"
  /\ UNCHANGED <<wire, threads, alive, wrapper, outcome, flags, handled, server>>

(* A reader of eConnect's own waits, without a limit, for the message that *)
(* carries the version; what it received beyond that message is gone.      *)
Greeted ==
  /\ main = "greet" /\ Len(wire) = 2
  /\ LET m == wire[1].of IN
       \/ /\ m = "ok"
          /\ main' = "start" /\ wire' = <<>>
          /\ UNCHANGED <<sock, peer, wrapper, outcome>>
       \/ /\ m = "redirect"
          /\ wrapper' = Complained(502)
          /\ main' = "spin" /\ wire' = <<>>
          /\ UNCHANGED <<sock, peer, outcome>>
       \/ /\ m = "old"
          /\ Disconnected /\ NotConnected
  /\ UNCHANGED <<threads, alive, flags, handled, server>>

NotGreeted ==
  /\ main = "greet" /\ Len(wire) < 2 /\ peer # "open"
  /\ Disconnected /\ NotConnected
  /\ UNCHANGED <<threads, alive, flags, handled, server>>

(* startApi; then the reader that stays. *)
StartApi ==
  /\ main = "start"
  /\ Ask("start", "wait1")
  /\ reader' = ReaderAt("top")
  /\ UNCHANGED <<queue, open, alive, outcome, flags, handled, sent, extras, cut>>

------------------------------------------------------------------------------
(* WaitFor: until the flags are there or the deadline has passed.          *)

Waits == {"wait1", "wait2", "wait3"}
Drain == [w \in Waits |->
           CASE w = "wait1" -> "drain1" [] w = "wait2" -> "drain2" [] OTHER -> "drain3"]
Drains == {Drain[w] : w \in Waits}
WaitOf(d) == CHOOSE w \in Waits : Drain[w] = d

\* Faulty: either end is enough.
ReadyEither(w) ==
  \/ w = "wait1" /\ ("ids" \in flags \/ "accts" \in flags \/ wrapper.fatal)
  \/ w = "wait2" /\ ("accts" \in flags \/ wrapper.fatal)
  \/ w = "wait3" /\ ("sumEnd" \in flags \/ "posEnd" \in flags)

Ready(w) ==
  \/ w = "wait1" /\ ("ids" \in flags \/ "accts" \in flags \/ wrapper.fatal)
  \/ w = "wait2" /\ ("accts" \in flags \/ wrapper.fatal)
  \/ w = "wait3" /\ {"sumEnd", "posEnd"} \subseteq flags

(* waitForSignal, which gives up after 200 ms. *)
Woken ==
  /\ main \in Waits /\ ~Ready(main)
  /\ open' = FALSE
  /\ main' = Drain[main]
  /\ UNCHANGED <<wire, peer, sock, reader, queue, alive, wrapper, outcome, flags, handled, server>>

\* Faulty: every message leaves a mark.
CallbackMarks(m) ==
  /\ flags' = flags \cup {m}
  /\ wrapper' = IF m = "err" THEN Complained(100) ELSE wrapper

(* The callback of one message. *)
Callback(m) ==
  \/ /\ m \in Kinds
     /\ flags' = flags \cup
          (CASE m \in {"ids", "sumEnd", "posEnd"} -> {m}
             [] m = "accts" -> {"accts", "named"}
             [] m = "none" -> {"accts"}
             [] OTHER -> {})
     /\ wrapper' = IF m = "err" THEN Complained(100) ELSE wrapper
  \/ /\ m \notin Kinds
     /\ \/ flags' \in {flags, flags \cup {"ids"}, flags \cup {"accts"},
                       flags \cup {"accts", "named"}} /\ UNCHANGED wrapper
        \/ wrapper' = Complained(505) /\ UNCHANGED flags

\* Faulty: one message per signal.
HandleOne ==
  /\ main \in Drains /\ queue # <<>>
  /\ queue' = Tail(queue)
  /\ handled' = Append(handled, Head(queue))
  /\ Callback(Head(queue))
  /\ main' = WaitOf(main)
  /\ UNCHANGED <<wire, peer, sock, reader, open, alive, outcome, server>>

(* processMsgs: message after message, until the queue is empty or the     *)
(* decoder fails.                                                          *)
HandleMsg ==
  /\ main \in Drains /\ queue # <<>>
  /\ queue' = Tail(queue)
  /\ handled' = Append(handled, Head(queue))
  /\ Callback(Head(queue))
  /\ main' \in IF Head(queue) = Damaged THEN {main, WaitOf(main)} ELSE {main}
  /\ UNCHANGED <<wire, peer, sock, reader, open, alive, outcome, server>>

Drained ==
  /\ main \in Drains /\ queue = <<>>
  /\ main' = WaitOf(main)
  /\ UNCHANGED <<streamVars, outcome, flags, handled, server>>

------------------------------------------------------------------------------
(* Fetch, between the waits.  A wait ends with its flags or its deadline.  *)

AfterHandshake ==
  /\ main = "wait1"
  /\ \/ /\ wrapper.fatal /\ Return("failed")
        /\ UNCHANGED <<sock, wire, peer, tws>>
     \/ /\ ~wrapper.fatal /\ flags \cap {"ids", "accts"} = {}
        /\ Disconnected /\ Return("timeout")
        /\ UNCHANGED tws
     \/ /\ ~wrapper.fatal /\ "accts" \in flags
        /\ main' = "choose"
        /\ UNCHANGED <<sock, wire, peer, wrapper, outcome, tws>>
     \/ /\ ~wrapper.fatal /\ "ids" \in flags /\ "accts" \notin flags
        /\ Ask("accts", "wait2")
        /\ UNCHANGED outcome
  /\ UNCHANGED <<threads, alive, flags, handled, sent, extras, cut>>

AfterAccounts ==
  /\ main = "wait2"
  /\ main' = "choose"
  /\ UNCHANGED <<streamVars, outcome, flags, handled, server>>

ChooseAccount ==
  /\ main = "choose"
  /\ IF wrapper.fatal \/ "named" \notin flags
     THEN Return("failed")
     ELSE main' = "ask1" /\ UNCHANGED <<wrapper, outcome>>
  /\ UNCHANGED <<wire, peer, sock, threads, alive, flags, handled, server>>

Requests ==
  /\ \/ main = "ask1" /\ Ask("summary", "ask2")
     \/ main = "ask2" /\ Ask("updates", "wait3")
     \/ main = "wait3" /\ Ask("cancel", "ask4")
     \/ main = "ask4" /\ Ask("stop", "leave")
  /\ UNCHANGED <<threads, alive, outcome, flags, handled, sent, extras, cut>>

(* disconnecting_ is set before the socket is closed. *)
HangUp ==
  /\ main = "leave"
  /\ wrapper' = [wrapper EXCEPT !.leaving = TRUE]
  /\ main' = "hangup"
  /\ UNCHANGED <<wire, peer, sock, threads, alive, outcome, flags, handled, server>>

Disconnect ==
  /\ main = "hangup"
  /\ Disconnected
  /\ main' = "judge"
  /\ UNCHANGED <<threads, alive, wrapper, outcome, flags, handled, server>>

Judge ==
  /\ main = "judge"
  /\ Return(CASE wrapper.fatal -> "failed"
              [] ~wrapper.fatal /\ ~Ready("wait3") -> "timeout"
              [] OTHER -> "detail")
  /\ UNCHANGED <<wire, peer, sock, threads, alive, flags, handled, server>>

\* Faulty: the destructor does not disconnect.
StopReaderOnly ==
  /\ main = "join" /\ alive
  /\ alive' = FALSE
  /\ UNCHANGED <<wire, peer, sock, threads, wrapper, fetch, server>>

(* ~EReader: end the thread and wait for it. *)
StopReader ==
  /\ main = "join" /\ alive
  /\ alive' = FALSE /\ Disconnected
  /\ UNCHANGED <<threads, wrapper, fetch, server>>

Joined ==
  /\ main = "join" /\ ~alive /\ reader.pc = "gone"
  /\ main' = "done"
  /\ UNCHANGED <<streamVars, outcome, flags, handled, server>>

MainStep ==
  \/ ConnectFails \/ Connect \/ Greeted \/ NotGreeted \/ StartApi
  \/ Woken \/ HandleMsg \/ Drained
  \/ AfterHandshake \/ AfterAccounts \/ ChooseAccount \/ Requests
  \/ HangUp \/ Disconnect \/ Judge \/ StopReader \/ Joined

------------------------------------------------------------------------------
(* TWS, as long as the client has not closed the socket.                   *)

Up == peer = "open" /\ sock

Greet ==
  /\ Up /\ main = "greet" /\ wire = <<>>
  /\ \E g \in Greetings : wire' = UnitsOf(g)
  /\ UNCHANGED <<peer, sock, threads, alive, wrapper, fetch, server>>

Sends(m) ==
  /\ Up /\ main # "greet" /\ Len(sent) - Len(handled) < MaxLag
  /\ wire' = wire \o UnitsOf(m)
  /\ sent' = Append(sent, m)
  /\ UNCHANGED <<peer, sock, threads, alive, wrapper, fetch, cut>>

SendNext ==
  /\ tws # <<>>
  /\ Sends(Head(tws))
  /\ tws' = Tail(tws)
  /\ UNCHANGED extras

(* Unasked: news of a position, once they have been asked for; a notice or *)
(* an error, at any time in the session.                                   *)
SendUnasked ==
  /\ extras < MaxExtras
  /\ \E m \in {"pos", "warn", "err"} :
       /\ \E i \in DOMAIN sent : sent[i] = (IF m = "pos" THEN "posEnd" ELSE "ids")
       /\ Sends(m)
  /\ extras' = extras + 1
  /\ UNCHANGED tws

(* TWS goes away; of what is on its way, a part may still arrive. *)
GoAway ==
  /\ Up
  /\ peer' \in {"closed", "reset"}
  /\ \E n \in 0..Len(wire) :
       wire' \in {SubSeq(wire, 1, n)} \cup
                {SubSeq(wire, 1, n) \o <<[of |-> wire[k].of, part |-> 0]>> :
                   k \in {j \in {n + 1} \cap DOMAIN wire : wire[j].part = 1}}
  /\ cut' = TRUE
  /\ UNCHANGED <<sock, threads, alive, wrapper, fetch, tws, sent, extras>>

ServerStep == Greet \/ SendNext \/ SendUnasked \/ GoAway

ReaderWorks == ReaderRuns /\ UNCHANGED <<fetch, server>>
ReaderStep == ReaderWorks \/ (Receive /\ UNCHANGED <<fetch, server>>)

------------------------------------------------------------------------------

Next ==
  /\ main # "killed"
  /\ \/ MainStep
     \/ ReaderStep
     \/ ServerStep

Spec == Init /\ [][Next]_vars

(* Both threads keep running, and every deadline passes in the end, however *)
(* often the loop goes round.  Nothing is asked of TWS and the network: an *)
(* answer may never come, and half a message may be all there is of it.    *)
Deadline == AfterHandshake \/ AfterAccounts \/ (main = "wait3" /\ Requests)

FairSpec == Spec /\ WF_vars(MainStep) /\ WF_vars(ReaderWorks) /\ SF_vars(Deadline)

------------------------------------------------------------------------------
(* Properties.                                                             *)

MainPhases == {"connect", "greet", "start", "spin", "choose", "ask1", "ask2", "ask4",
               "leave", "hangup", "judge", "join", "done", "killed"} \cup Waits \cup Drains

(* Every variable has its type. *)
TypeOK ==
  /\ wire \in Seq(Unit)
  /\ peer \in {"open", "closed", "reset"} /\ sock \in BOOLEAN
  /\ reader \in [pc : {"off", "top", "read", "signal", "fatal", "text", "close",
                       "leave", "last", "gone"},
                 buf : Seq(Unit), padded : BOOLEAN, badf : BOOLEAN,
                 back : {"none", "read", "leave", "last"}]
  /\ queue \in Seq(Message \cup {Damaged}) /\ open \in BOOLEAN /\ alive \in BOOLEAN
  /\ wrapper \in [fatal : BOOLEAN, leaving : BOOLEAN, dead : BOOLEAN, smashed : BOOLEAN]
  /\ main \in MainPhases
  /\ outcome \in {"none", "failed", "timeout", "detail"}
  /\ flags \subseteq {"ids", "accts", "named", "sumEnd", "posEnd"}
  /\ sent \in Seq(Message) /\ handled \in Seq(Message \cup {Damaged})
  /\ cut \in BOOLEAN

(* putMessageToQueue and waitForSignal: the client never sleeps over a     *)
(* message in the queue whose signal it has already used up.               *)
NoLostWakeup ==
  main \in Waits /\ queue # <<>> => open \/ reader.pc = "signal"

(* EReader delivers what TWS sent, in order and without gaps, up to one    *)
(* damaged message at the end of a connection that broke off.              *)
Stream == INSTANCE MessageStream
ImplementsStream == Stream!Spec

(* A snapshot that Fetch returns is whole: it is made of undamaged rows,   *)
(* every one TWS sent before it ended summary and portfolio.               *)
SnapshotIsWhole ==
  outcome = "detail" =>
    /\ \A i \in DOMAIN handled : i \in DOMAIN sent /\ handled[i] = sent[i]
    /\ \A row \in {"sum", "pos"} : \E i \in DOMAIN handled : handled[i] = row

(* If TWS neither ended the connection nor sent an error, the end of the   *)
(* session is quiet: what the reader makes of the socket that Fetch closes *)
(* under it neither turns the snapshot into a failure nor is written into  *)
(* the dying client.                                                       *)
HangUpIsQuiet ==
  wrapper.leaving /\ ~cut /\ (\A i \in DOMAIN handled : handled[i] # "err") =>
    ~wrapper.fatal /\ ~wrapper.smashed

(* Past the handshake Fetch comes back, whatever TWS does: the deadlines   *)
(* end its waits, and the reader thread it joins ends too.                 *)
FetchReturns == (main = "wait1") ~> (main \in {"done", "killed"})

(* "ibkr handshake timed out; accept or authorize the API session in       *)
(* TWS/IB Gateway": a handshake TWS does not answer comes to an end.       *)
HandshakeTimesOut == (main = "greet") ~> (main # "greet" /\ main # "spin")
=============================================================================
