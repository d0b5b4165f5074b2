----------------------------- MODULE AddService -----------------------------
(***************************************************************************)
(* What a bookie does for the clients that add entries, over all the lives *)
(* of its process.  Each entry has at most one place in one log, and the   *)
(* places grow; an add is told at most once what became of it.  An entry   *)
(* that was refused is not in the log and never will be.  One that was     *)
(* acknowledged is in the log for good, unless the database reported an    *)
(* error when it was to be logged: the bookie drops that error and         *)
(* acknowledges all the same, so that such an entry may be there or not.   *)
(* What a client adds after it has read an acknowledgment comes behind     *)
(* that entry, if both are there.                                          *)
(*                                                                         *)
(* The process may crash; the machine does not (Storage has both).         *)
(***************************************************************************)
EXTENDS Naturals

CONSTANT Adds   \* the add requests of all clients, each made once

VARIABLES
  asked,   \* the adds that were made
  place,   \* the place in the log of each entry that has one
  failed,  \* the adds for which the database reported an error
  told     \* "ok", "error" or "nothing", per add

serviceVars == <<asked, place, failed, told>>

InLog(m) == m \in DOMAIN place

(* The database has been asked to log the entry, which it is only once.    *)
Tried(m) == InLog(m) \/ m \in failed

Init ==
  /\ asked = {}
  /\ place = [m \in {} |-> 0]
  /\ failed = {}
  /\ told = [m \in Adds |-> "nothing"]

Ask(m) ==
  /\ m \notin asked
  /\ asked' = asked \cup {m}
  /\ UNCHANGED <<place, failed, told>>

Open(group) ==
  \A m \in group : m \in asked /\ told[m] = "nothing" /\ ~Tried(m)

(* A group of entries goes behind all others, in some order.               *)
GoesBehind(group) ==
  /\ DOMAIN place' = DOMAIN place \cup group
  /\ \A m \in DOMAIN place : place'[m] = place[m]
  /\ \A m \in group :
       /\ place'[m] \in Nat
       /\ \A n \in DOMAIN place : place[n] < place'[m]
       /\ \A n \in group : place'[n] = place'[m] => n = m

Log(group) ==
  /\ Open(group)
  /\ GoesBehind(group)
  /\ UNCHANGED <<asked, failed, told>>

(* The whole group is in the log in spite of the error, or none of it.     *)
Fail(group) ==
  /\ Open(group)
  /\ GoesBehind(group) \/ UNCHANGED place
  /\ failed' = failed \cup group
  /\ UNCHANGED <<asked, told>>

Acknowledge(m) ==
  /\ m \in asked /\ told[m] = "nothing" /\ Tried(m)
  /\ told' = [told EXCEPT ![m] = "ok"]
  /\ UNCHANGED <<asked, place, failed>>

Refuse(m) ==
  /\ m \in asked /\ told[m] = "nothing" /\ ~Tried(m)
  /\ told' = [told EXCEPT ![m] = "error"]
  /\ UNCHANGED <<asked, place, failed>>

Next ==
  \/ \E group \in SUBSET Adds : Log(group) \/ Fail(group)
  \/ \E m \in Adds : Ask(m) \/ Acknowledge(m) \/ Refuse(m)

Spec == Init /\ [][Next]_serviceVars
=============================================================================
