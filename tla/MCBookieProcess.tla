-------------------------- MODULE MCBookieProcess --------------------------
(* BookieProcess with two IO threads and two handles, for TLC. *)
EXTENDS BookieProcess

CONSTANTS t1, t2, h1, h2
=============================================================================
