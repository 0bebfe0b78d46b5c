--------------------------- MODULE MCTdaWatchlists ---------------------------
(* TdaWatchlists on a small instance: two accounts, of which the primary   *)
(* one is listed twice, and an overlay that is missing or decorates both.  *)
EXTENDS TdaWatchlists, TLC

CONSTANTS a, b, local, core, aapl, msft

Accounts == <<a, b, a>>
NameSet == {core}
Pair == {aapl, msft}
SlugOf == [n \in NameSet |-> <<local, 1>>]

List(id, rows, archived) ==
  [id |-> id, name |-> core, archived |-> archived, rows |-> rows]

DemoLists == <<List(<<local, 1>>, <<Row(aapl, TRUE)>>, FALSE)>>

AtTda == <<[id |-> <<a, 0>>, name |-> core, symbols |-> <<aapl, msft>>],
           [id |-> <<b, 0>>, name |-> core, symbols |-> <<aapl>>]>>

Overlays == {<<>>,
             <<List(<<a, 0>>, <<Row(msft, TRUE), Row(aapl, FALSE)>>, FALSE),
               List(<<b, 0>>, <<Row(aapl, FALSE)>>, TRUE)>>}
==============================================================================
