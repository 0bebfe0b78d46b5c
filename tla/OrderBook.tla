------------------------------ MODULE OrderBook ------------------------------
(***************************************************************************)
(* What the simulated order book promises its callers: an append-only      *)
(* history in which every call takes effect at once.  Submitting adds an   *)
(* accepted order at the end, cancelling marks one order, replacing does   *)
(* both in a single step.  LocalOrders implements it over a JSON file.     *)
(***************************************************************************)
EXTENDS Integers, Sequences

VARIABLES
  book,      \* the order history, oldest first
  failures   \* crashes and failed writes so far

(* Of orders that share an id, the one submitted first has it. *)
Named(k, id) == book[k].id = id /\ \A j \in 1..(k - 1) : book[j].id # id

Cancelled(id) == [k \in DOMAIN book |->
                    IF Named(k, id)
                    THEN [book[k] EXCEPT !.status = "cancelled"]
                    ELSE book[k]]

Known(id) == \E k \in DOMAIN book : book[k].id = id

Init == book = <<>> /\ failures = 0

Submit(o) == /\ o.status = "accepted"
             /\ book' = Append(book, o)

Cancel(id) == /\ Known(id)
              /\ book' = Cancelled(id)

Replace(id, o) == /\ Known(id)
                  /\ o.status = "accepted"
                  /\ book' = Append(Cancelled(id), o)

HalfReplace == \E k \in DOMAIN book : Cancel(book[k].id)

Lose == book' = <<>>

(* What an implementation chooses of a new order is what it appends. *)
Operation ==
  /\ \/ book' # <<>> /\ Submit(book'[Len(book')])
     \/ \E k \in DOMAIN book :
           \/ Cancel(book[k].id)
           \/ book' # <<>> /\ Replace(book[k].id, book'[Len(book')])
  /\ UNCHANGED failures

(***************************************************************************)
(* All a failure may do: cut a replacement short after its cancellation,   *)
(* or destroy the whole history.  After a loss the next submission starts  *)
(* a new history.                                                          *)
(***************************************************************************)
Failure ==
  /\ failures' = failures + 1
  /\ HalfReplace \/ Lose \/ UNCHANGED book

Next == Operation \/ Failure

Spec == Init /\ [][Next]_<<book, failures>>
==============================================================================
