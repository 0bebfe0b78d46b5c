--------------------------- MODULE MCOrderRouting ---------------------------
(* OrderRouting on small instances: which brokers have credentials, how    *)
(* many requests and lost answers are set in the .cfg files.               *)
EXTENDS OrderRouting, TLC
==============================================================================
