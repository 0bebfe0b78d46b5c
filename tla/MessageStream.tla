--------------------------- MODULE MessageStream ---------------------------
(***************************************************************************)
(* What a client of TWS may rely on: the messages it handles are those TWS *)
(* sent, in their order and without gaps.  When the connection breaks off  *)
(* inside a message, one damaged message may stand in for it, and it is    *)
(* the last.                                                               *)
(***************************************************************************)
EXTENDS Sequences, Naturals

CONSTANTS Message, Damaged

VARIABLES sent, handled

Init == sent = <<>> /\ handled = <<>>

Send == \E m \in Message : sent' = Append(sent, m) /\ UNCHANGED handled

Broken == handled # <<>> /\ handled[Len(handled)] = Damaged

Handle ==
  /\ ~Broken /\ Len(handled) < Len(sent)
  /\ \E m \in {sent[Len(handled) + 1], Damaged} : handled' = Append(handled, m)
  /\ UNCHANGED sent

Spec == Init /\ [][Send \/ Handle]_<<sent, handled>>
=============================================================================
