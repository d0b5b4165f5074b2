---------------------------- MODULE MCPerfClient ----------------------------
(* A small instance of PerfClient for TLC: two connections on one IO       *)
(* thread, of which the second makes no adds.                              *)
EXTENDS PerfClient

CONSTANTS c1, c2, t1

MCThreadOf == [c \in Connections |-> t1]

MCEntries == [c \in Connections |-> IF c = c1 THEN 4 ELSE 0]

MCOrder == <<c1, c2>>
=============================================================================
