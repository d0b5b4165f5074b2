----------------------- MODULE MCBookieRegistration -----------------------
(* Small instances of BookieRegistration for TLC: the bookie registers one *)
(* listener.                                                               *)
EXTENDS BookieRegistration

CONSTANT l1
=============================================================================
