------------------------- MODULE MCChartAnnotations -------------------------
(* ChartAnnotations on small instances: two charts, of which one key may   *)
(* lie inside the other.                                                   *)
EXTENDS ChartAnnotations, TLC

CONSTANTS brk, brkB, entry

OneChart == {brk}
DottedCharts == {brk, brkB}
JustBrk == {brk}
NoneNested == {}
BInside == {<<brkB, brk>>}

One == {entry}
Cleared == {<<>>}
==============================================================================
