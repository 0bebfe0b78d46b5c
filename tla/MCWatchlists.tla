---------------------------- MODULE MCWatchlists ----------------------------
(* Watchlists on small instances.  One of the names clients choose is that  *)
(* of the demonstration list, so that ids can clash.                       *)
EXTENDS Watchlists, TLC

CONSTANTS api, desktop, aapl, msft

Both == {api, desktop}
Interchangeable == Permutations(Both)

NameSet == {"Core", "Tech"}
SlugOf == [n \in NameSet |-> IF n = "Core" THEN "core" ELSE "tech"]
Pair == {aapl, msft}

DemoList(id, name, rows) == [id |-> id, name |-> name, archived |-> FALSE, rows |-> rows]
DemoLists == <<DemoList("core", "Core", <<Row(aapl, TRUE), Row(msft, FALSE)>>)>>

(* Removing sifts a list as a selection of its rows does. *)
ASSUME RemovedSelects ==
  \A rows \in BoundedSeq([symbol : Pair, pinned : BOOLEAN], 3), symbol \in Pair :
    Removed(rows, symbol) = SelectSeq(rows, LAMBDA row : row.symbol # symbol)
==============================================================================
