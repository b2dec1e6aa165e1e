--------------------------- MODULE MCDomainList ---------------------------
(* Two domains and two runs at a time, three in all, so that a run can      *)
(* start over what a killed one left behind and two can interleave.         *)
EXTENDS DomainList
============================================================================
