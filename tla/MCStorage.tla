----------------------------- MODULE MCStorage -----------------------------
(***************************************************************************)
(* Small instances of Storage for TLC.  Requests r1 and r3 ask for one key *)
(* (an entry sent twice), and r2's entry comes in two buffers.             *)
(***************************************************************************)
EXTENDS Storage, TLC

CONSTANTS t1, t2, r1, r2, r3, k1, k2

MCKeyOf == (r1 :> k1) @@ (r2 :> k2) @@ (r3 :> k1)

MCSegmentsOf == (r1 :> 1) @@ (r2 :> 2) @@ (r3 :> 1)

(* Where keys do not matter: every request has the same one. *)
MCKeyOfOne == [r \in Requests |-> k1]

MCKeyOfTwo == (r1 :> k1) @@ (r2 :> k2)

MCSegmentsOfTwo == (r1 :> 1) @@ (r2 :> 2)
=============================================================================
