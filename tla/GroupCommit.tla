---------------------------- MODULE GroupCommit ----------------------------
(***************************************************************************)
(* What Storage::put promises to its callers, without threads, queue or    *)
(* batches.  Adds take a place in one order; the database is handed the    *)
(* order in groups of at most SyncLimit + 1; an add is answered only when  *)
(* the group it belongs to has been handed over, and the answers come in   *)
(* that same order.  When the store goes away the adds still open get a    *)
(* broken promise or no answer at all, and a broken promise is only ever   *)
(* given to an add the database has not seen.                              *)
(***************************************************************************)
EXTENDS Naturals, Sequences

CONSTANTS Requests,   \* the add-entry calls, each made once
          SyncLimit   \* a group holds at most SyncLimit + 1 adds

VARIABLES
  future,     \* what the caller's future holds, per request
  order,      \* the requests in the order the store accepted them
  committed,  \* the database has been handed order[1..committed]
  answered    \* order[1..answered] need no further answer

vars == <<future, order, committed, answered>>

Outcomes == {"unused", "pending", "value", "broken", "lost"}

Init ==
  /\ future = [r \in Requests |-> "unused"]
  /\ order = <<>>
  /\ committed = 0
  /\ answered = 0

Call(r) ==
  /\ future[r] = "unused"
  /\ future' = [future EXCEPT ![r] = "pending"]
  /\ UNCHANGED <<order, committed, answered>>

Accept(r) ==
  /\ future[r] = "pending"
  /\ \A i \in DOMAIN order : order[i] # r
  /\ order' = Append(order, r)
  /\ UNCHANGED <<future, committed, answered>>

(* One group at a time: the previous one has been answered completely. *)
Commit(k) ==
  /\ committed = answered
  /\ k \in committed + 1 .. committed + SyncLimit + 1
  /\ k <= Len(order)
  /\ committed' = k
  /\ UNCHANGED <<future, order, answered>>

Answer ==
  /\ answered < committed
  /\ future' = [future EXCEPT ![order[answered + 1]] = "value"]
  /\ answered' = answered + 1
  /\ UNCHANGED <<order, committed>>

(* The next adds in line are given up before the database has seen them. *)
GiveUp(k) ==
  /\ committed = answered
  /\ k \in committed .. Len(order)
  /\ future' = [r \in Requests |->
                  IF \E i \in committed + 1 .. k : order[i] = r
                    THEN "broken" ELSE future[r]]
  /\ committed' = k
  /\ answered' = k
  /\ UNCHANGED order

(* The store goes away, in order or by a crash. *)
Close(dropped) ==
  /\ \A r \in dropped : future[r] = "pending"
  /\ \A i \in 1 .. committed : order[i] \notin dropped
  /\ future' = [r \in Requests |->
                  IF r \in dropped THEN "broken"
                  ELSE IF future[r] = "pending" THEN "lost" ELSE future[r]]
  /\ committed' = Len(order)
  /\ answered' = Len(order)
  /\ UNCHANGED order

Next ==
  \/ \E r \in Requests : Call(r) \/ Accept(r)
  \/ \E k \in 0 .. Len(order) : Commit(k) \/ GiveUp(k)
  \/ Answer
  \/ \E dropped \in SUBSET Requests : Close(dropped)

Spec == Init /\ [][Next]_vars
=============================================================================
