---------------------------- MODULE WatchlistRows ----------------------------
(***************************************************************************)
(* The edits both watchlist providers make on the rows of one list.  A row *)
(* is reduced to what the edits look at: its symbol and its pin.           *)
(***************************************************************************)
EXTENDS Naturals, SequencesExt, Sieve

Row(symbol, pinned) == [symbol |-> symbol, pinned |-> pinned]

Symbols(rows) == {rows[i].symbol : i \in DOMAIN rows}

(* The row std::find_if stops at; 0 is end(). *)
PosOf(rows, symbol) == SelectInSeq(rows, LAMBDA row : row.symbol = symbol)
FirstUnpinned(rows) == SelectInSeq(rows, LAMBDA row : ~row.pinned)

(* vector::insert at an iterator that may be end(). *)
InsertBefore(rows, i, row) ==
  IF i = 0 THEN Append(rows, row) ELSE InsertAt(rows, i, row)

(* Faulty: the list is not searched before adding. *)
AddedTwice(rows, symbol) == Append(rows, Row(symbol, FALSE))

Added(rows, symbol) ==
  IF PosOf(rows, symbol) = 0 THEN Append(rows, Row(symbol, FALSE)) ELSE rows

Removed(rows, symbol) ==
  Sifted(rows, {i \in DOMAIN rows : rows[i].symbol # symbol})

Taken(rows, symbol) == RemoveAt(rows, PosOf(rows, symbol))

(* Faulty: the flag is set where the row stands. *)
PinnedInPlace(rows, symbol, pinned) ==
  [rows EXCEPT ![PosOf(rows, symbol)].pinned = pinned]

(* A pinned row goes after the other pinned ones, an unpinned one to the end. *)
Pinned(rows, symbol, pinned) ==
  LET rest == Taken(rows, symbol)
  IN  InsertBefore(rest, IF pinned THEN FirstUnpinned(rest) ELSE 0, Row(symbol, pinned))

(* The place of before is looked up again after the row was taken out: a   *)
(* row moved before itself goes to the end.                                *)
Moved(rows, symbol, before) ==
  LET rest == Taken(rows, symbol)
  IN  InsertBefore(rest, PosOf(rest, before), rows[PosOf(rows, symbol)])

(* The rows are free of duplicates. *)
EachOnce(rows) == \A i, j \in DOMAIN rows : rows[i].symbol = rows[j].symbol => i = j

(* No pinned row stands behind an unpinned one. *)
PinsLead(rows) == \A i, j \in DOMAIN rows : i < j /\ rows[j].pinned => rows[i].pinned
==============================================================================
