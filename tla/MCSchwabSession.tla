-------------------------- MODULE MCSchwabSession --------------------------
(* SchwabSession on small instances.                                       *)
EXTENDS SchwabSession

CONSTANTS api, desktop

ApiOnly == {api}
Both == {api, desktop}
==============================================================================
