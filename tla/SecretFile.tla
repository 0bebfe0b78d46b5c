----------------------------- MODULE SecretFile -----------------------------
(***************************************************************************)
(* The directory of a provider's secret as WriteSecureText sees it: the    *)
(* secret itself and one temporary file, whose name all writers share.  A  *)
(* writer keeps the temporary file open until its text is flushed; a       *)
(* rename moves the file under it, a removal leaves it nameless.           *)
(***************************************************************************)
EXTENDS Integers

CONSTANTS
  Procs,   \* the processes that write the secret
  Nil      \* what a text says that is no secret

Text(Secrets) == [kind : {"none", "blank", "garbled"}, says : {Nil}]
                   \cup [kind : {"ok"}, says : Secrets]

Absent == [kind |-> "none", says |-> Nil]
Blank == [kind |-> "blank", says |-> Nil]      \* truncated, not yet written
Garbled == [kind |-> "garbled", says |-> Nil]  \* one text over a longer one
Saying(secret) == [kind |-> "ok", says |-> secret]

Names == {"secret", "temp", "nameless", "closed"}

Directory(Secrets) ==
  [secret : Text(Secrets), temp : Text(Secrets), open : [Procs -> Names]]

NewDirectory == [secret |-> Absent, temp |-> Absent, open |-> [p \in Procs |-> "closed"]]

(* The stream's constructor creates or truncates the temporary file. *)
Opened(d, p) == [d EXCEPT !.temp = Blank, !.open[p] = "temp"]

Closed(d, p) == [d EXCEPT !.open[p] = "closed"]

(* The text goes where the open file is by now, over what is in it. *)
Over(old, text) == IF old.kind = "blank" THEN {text} ELSE {text, Garbled}

Flushed(d, p, text) ==
  IF d.open[p] = "temp"
  THEN {[Closed(d, p) EXCEPT !.temp = t] : t \in Over(d.temp, text)}
  ELSE IF d.open[p] = "secret"
  THEN {[Closed(d, p) EXCEPT !.secret = t] : t \in Over(d.secret, text)}
  ELSE {Closed(d, p)}

(* The name of an open file after the secret was replaced or removed. *)
Unnamed(name) == IF name = "secret" THEN "nameless" ELSE name
Moved(name) == IF name = "temp" THEN "secret" ELSE Unnamed(name)

Renamed(d) ==
  [secret |-> d.temp, temp |-> Absent, open |-> [p \in Procs |-> Moved(d.open[p])]]

Removed(d) ==
  [d EXCEPT !.secret = Absent, !.open = [p \in Procs |-> Unnamed(d.open[p])]]

Discarded(d) ==
  [d EXCEPT !.temp = Absent,
            !.open = [p \in Procs |-> IF d.open[p] = "temp" THEN "nameless" ELSE d.open[p]]]
==============================================================================
