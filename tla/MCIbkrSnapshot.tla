-------------------------- MODULE MCIbkrSnapshot --------------------------
(* IbkrSnapshot on a small instance.                                       *)
EXTENDS IbkrSnapshot

AllMessages == Kinds \cup Greetings
=============================================================================
