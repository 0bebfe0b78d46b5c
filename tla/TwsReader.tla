------------------------------ MODULE TwsReader -----------------------------
(***************************************************************************)
(* The connection to TWS: EClientSocket over a TCP stream, and EReader,    *)
(* whose thread cuts the stream into messages and puts them into a queue   *)
(* that the client's own thread empties, woken by an EReaderOSSignal.      *)
(*                                                                         *)
(* A message travels as two units, its length prefix (part 1) and its body *)
(* (part 2); part 0 is a length prefix that was cut off.  A select never   *)
(* reports a readable socket that is not.                                  *)
(***************************************************************************)
EXTENDS Sequences, Integers

CONSTANTS
  Message,   \* the kinds of messages TWS sends
  Damaged    \* what is left of a message whose end never came

ASSUME MessageAssumption == Damaged \notin Message

Unit == [of : Message, part : 0..2]
UnitsOf(m) == <<[of |-> m, part |-> 1], [of |-> m, part |-> 2]>>

VARIABLES
  wire,      \* units on their way to the client
  peer,      \* TWS's end, while the client's is open: "open", "closed", "reset"
  sock,      \* m_fd >= 0, and with it isConnected()
  reader,    \* the thread: what it does, m_buf, errno
  queue,     \* m_msgQueue
  open,      \* the flag of EReaderOSSignal
  alive,     \* m_isAlive
  wrapper    \* the client's flags that callbacks of either thread touch

threads == <<reader, queue, open>>
streamVars == <<wire, peer, sock, threads, alive, wrapper>>

(* buf: the units received and not yet handed on, from the length prefix   *)
(* of the message in hand; padded: m_buf still has the size it was blown   *)
(* up to for a receive that brought nothing; badf: errno is EBADF; back:   *)
(* where it goes on after handleSocketError.                               *)
ReaderAt(phase) ==
  [pc |-> phase, buf |-> <<>>, padded |-> FALSE, badf |-> FALSE, back |-> "none"]

------------------------------------------------------------------------------
(* EWrapper::error of the snapshot's client: the code of a quiet hang-up   *)
(* is ignored, any other spoils the snapshot.  In the client's own thread  *)
(* it is one step.                                                         *)
Complained(code) ==
  IF wrapper.leaving /\ code = 509 THEN wrapper
  ELSE [wrapper EXCEPT !.fatal = TRUE]

(* eDisconnect: what is still on its way no longer matters. *)
Disconnected == sock' = FALSE /\ wire' = <<>> /\ peer' = "closed"

(* handleSocketError in the reader's thread, where the client's thread may *)
(* run between any two steps of it: EWrapper::error with code 509 looks at *)
(* disconnecting_, then sets fatal_error_, then writes error_text_; the    *)
(* socket is closed last.  `smashed' records a write to error_text_ after  *)
(* its destruction.                                                        *)

\* Faulty: a complaint of the socket is never ignored.
ComplainsAlways(back) ==
  /\ reader' = [reader EXCEPT !.pc = "fatal", !.back = back]
  /\ UNCHANGED <<wire, peer, sock, wrapper>>

Complains(back) ==
  /\ reader' = [reader EXCEPT !.pc = IF wrapper.leaving THEN "close" ELSE "fatal",
                              !.back = back]
  /\ UNCHANGED <<wire, peer, sock, wrapper>>

SetFatal ==
  /\ reader.pc = "fatal"
  /\ wrapper' = [wrapper EXCEPT !.fatal = TRUE]
  /\ reader' = [reader EXCEPT !.pc = "text"]
  /\ UNCHANGED <<wire, peer, sock, queue, open, alive>>

SetText ==
  /\ reader.pc = "text"
  /\ wrapper' = [wrapper EXCEPT !.smashed = @ \/ wrapper.dead]
  /\ reader' = [reader EXCEPT !.pc = "close"]
  /\ UNCHANGED <<wire, peer, sock, queue, open, alive>>

(* A receive that failed inside readSingleMsg leaves its zeros in m_buf.   *)
CloseSocket ==
  /\ reader.pc = "close"
  /\ Disconnected
  /\ reader' = IF reader.back = "read"
               THEN [reader EXCEPT !.pc = "read", !.padded = TRUE, !.back = "none"]
               ELSE ReaderAt(reader.back)
  /\ UNCHANGED <<queue, open, alive, wrapper>>

------------------------------------------------------------------------------
(* readToQueue: the thread's rounds.  "top" is the head of its loop, where *)
(* it looks at m_isAlive; "read" is the inside of readSingleMsg.           *)

(* What readSingleMsg still waits for: the length, then the body. *)
Enough ==
  \/ reader.padded
  \/ reader.pc = "top" /\ reader.buf # <<>>
  \/ reader.pc = "read" /\ Len(reader.buf) > 1

NotAlive ==
  /\ reader.pc = "top" /\ ~alive
  /\ reader' = ReaderAt("leave")
  /\ UNCHANGED <<wire, peer, sock, queue, open, alive, wrapper>>

(* Bytes are left over, or have just come: readSingleMsg. *)
TakeNext ==
  /\ reader.pc = "top" /\ alive /\ Enough
  /\ reader' = IF sock THEN [reader EXCEPT !.pc = "read"] ELSE ReaderAt("leave")
  /\ UNCHANGED <<wire, peer, sock, queue, open, alive, wrapper>>

MaySelect == ~Enough /\ ((reader.pc = "top" /\ alive) \/ reader.pc = "read")

(* The socket is closed on this side.  If that happened in the middle of a *)
(* select, errno may say so.                                               *)
SocketGone ==
  /\ MaySelect /\ ~sock
  /\ \E badf \in BOOLEAN : reader' = [ReaderAt("leave") EXCEPT !.badf = badf]
  /\ UNCHANGED <<wire, peer, sock, queue, open, alive, wrapper>>

(* onReceive: some of the bytes that have arrived. *)
Receive ==
  /\ MaySelect /\ sock
  /\ \E n \in 1..Len(wire) :
       /\ reader' = [reader EXCEPT !.buf = @ \o SubSeq(wire, 1, n)]
       /\ wire' = SubSeq(wire, n + 1, Len(wire))
  /\ UNCHANGED <<peer, sock, queue, open, alive, wrapper>>

(* onReceive: the end of the stream, or an error; both disconnect, and the *)
(* zeros stay in m_buf.                                                    *)
ReceiveEnd ==
  /\ MaySelect /\ sock /\ wire = <<>> /\ peer = "closed"
  /\ Disconnected
  /\ reader' = IF reader.pc = "top" THEN ReaderAt("leave")
               ELSE [reader EXCEPT !.padded = TRUE]
  /\ UNCHANGED <<queue, open, alive, wrapper>>

ReceiveError ==
  /\ MaySelect /\ sock /\ wire = <<>> /\ peer = "reset"
  /\ Complains(IF reader.pc = "top" THEN "leave" ELSE "read")
  /\ UNCHANGED <<queue, open, alive>>

\* Faulty: what else has been received goes with the message.
PutDropsRest ==
  /\ reader.pc = "read" /\ Enough
  /\ queue' = Append(queue, IF reader.padded THEN Damaged ELSE Head(reader.buf).of)
  /\ reader' = [reader EXCEPT !.pc = "signal", !.buf = <<>>]
  /\ UNCHANGED <<wire, peer, sock, open, alive, wrapper>>

(* putMessageToQueue: first the queue, then the signal.  Zeros stand in    *)
(* for a body, or the end of a length, that never came.                    *)
PutMessage ==
  /\ reader.pc = "read" /\ Enough
  /\ queue' = Append(queue, IF reader.padded THEN Damaged ELSE Head(reader.buf).of)
  /\ reader' = [reader EXCEPT !.pc = "signal",
                              !.buf = IF reader.padded THEN <<>> ELSE SubSeq(@, 3, Len(@))]
  /\ UNCHANGED <<wire, peer, sock, open, alive, wrapper>>

(* A length made up of zeros may be none. *)
BadLength ==
  /\ reader.pc = "read" /\ reader.padded /\ Head(reader.buf).part = 0
  /\ reader' = ReaderAt("leave")
  /\ UNCHANGED <<wire, peer, sock, queue, open, alive, wrapper>>

IssueSignal ==
  /\ reader.pc = "signal"
  /\ open' = TRUE
  /\ reader' = [reader EXCEPT !.pc = "top"]
  /\ UNCHANGED <<wire, peer, sock, queue, alive, wrapper>>

(* The thread ends: handleSocketError, and a last signal. *)
Leave ==
  /\ reader.pc = "leave"
  /\ IF reader.badf
     THEN Complains("last")
     ELSE reader' = ReaderAt("last") /\ UNCHANGED <<wrapper, wire, peer, sock>>
  /\ UNCHANGED <<queue, open, alive>>

LastSignal ==
  /\ reader.pc = "last"
  /\ open' = TRUE
  /\ reader' = ReaderAt("gone")
  /\ UNCHANGED <<wire, peer, sock, queue, alive, wrapper>>

(* What the thread does by itself; what it receives is up to the network. *)
ReaderRuns ==
  \/ NotAlive \/ TakeNext \/ SocketGone \/ ReceiveEnd \/ ReceiveError
  \/ SetFatal \/ SetText \/ CloseSocket
  \/ PutMessage \/ BadLength \/ IssueSignal \/ Leave \/ LastSignal
=============================================================================
