--------------------------- MODULE MCBookieServer ---------------------------
(* A small instance of BookieServer for TLC. *)
EXTENDS BookieServer, TLC

CONSTANTS c1, c2, t1, a1, a2, r1, x1

Id(n) == [i \in 1 .. 8 |-> IF i = 8 THEN n ELSE 0]

Add(ledger, entry, flags, data) ==
  [protocolVersion |-> 2, opCode |-> AddEntry, flags |-> flags,
   ledgerId |-> Id(ledger), entryId |-> Id(entry), data |-> data]

(* Two adds of different sizes on one connection, the second of them empty,*)
(* with an add that lacks the last byte of its entry number; a read that   *)
(* fences on the other.                                                    *)
MCRequestOf ==
  (a1 :> Add(7, 1, 0, <<91, 92>>)) @@
  (a2 :> Add(7, 2, 2, <<>>)) @@
  (x1 :> Add(8, 1, 0, <<>>)) @@
  (r1 :> [Add(7, 1, 1, <<>>) EXCEPT !.opCode = ReadEntry])

Sent == DOMAIN MCRequestOf

MCCutOf == [m \in Sent |-> IF m = x1 THEN 1 ELSE 0]

MCConnectionOf == [m \in Sent |-> IF m = r1 THEN c2 ELSE c1]

MCThreadOf == [c \in {c1, c2} |-> t1]
=============================================================================
