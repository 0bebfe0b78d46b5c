---------------------------- MODULE MCLocalOrders ----------------------------
(* LocalOrders on small instances; the .cfg files choose the processes.    *)
EXTENDS LocalOrders, TLC

CONSTANTS api, desktop

ApiOnly == {api}
Both == {api, desktop}
==============================================================================
