------------------------ MODULE BookieRegistration ------------------------
(***************************************************************************)
(* BookieRegistration.cpp and ZooKeeper::create: the bookie's only session *)
(* listener creates the ephemeral node of the bookie and ends the process  *)
(* when that fails.  The processes of the bookie follow one another, each  *)
(* with sessions of its own; the servers keep the node until its session   *)
(* is closed or expires.                                                   *)
(*                                                                         *)
(* The listener calls create on a handle's thread, the thread that later   *)
(* delivers the completion, so create and its getFuture are one step.      *)
(***************************************************************************)
EXTENDS ZooKeeper

CONSTANTS
  MayEnd   \* the process may be killed or stopped

(* BookieRegistration is the only caller of registerSessionListener. *)
ASSUME RegistrationAssumption ==
  /\ MayEnd \in BOOLEAN
  /\ \A l, m \in Listeners : l = m

VARIABLES
  process,   \* "off", "built" or "up" (started)
  node,      \* the session whose ephemeral node exists, 0 for no node
  requests,  \* creates of each handle not answered yet
  reported,  \* the session for which "Registered bookie" was logged
  earlier,   \* handles opened by earlier processes
  stray,     \* handles with a create under way on a connection that is lost
  ownNode    \* history: a process met a node of its own

registrationVars ==
  <<process, node, requests, reported, earlier, stray, ownNode>>
vars == <<sessionVars, registrationVars>>

Init ==
  /\ SessionInit
  /\ process = "off"
  /\ node = 0
  /\ requests = [h \in Handles |-> <<>>]
  /\ reported = 0
  /\ earlier = 0
  /\ stray = {}
  /\ ownNode = FALSE

-----------------------------------------------------------------------------
(* The life of the process. *)

(* Bound: a process is started while there is a handle left for it. *)
Construct ==
  /\ process = "off"
  /\ handles < MaxHandles
  /\ process' = "built"
  /\ earlier' = handles
  /\ UNCHANGED <<sessionVars, node, requests, reported, stray, ownNode>>

(* Bookie's constructor comes to bookieRegistration_. *)
Register(l) ==
  /\ process # "off"
  /\ RegisterListener(l)
  /\ UNCHANGED registrationVars

MutantStartAnyTime == process = "built"

Constructed == process = "built" /\ sessionListeners # <<>>

Start ==
  /\ Constructed
  /\ process' = "up"
  /\ StartSession
  /\ UNCHANGED <<node, requests, reported, earlier, stray, ownNode>>

AllSent == {h \in Handles : \E i \in DOMAIN requests[h] :
                            requests[h][i] = "sent"}

(* Nothing of the client is left; closed is the session that               *)
(* zookeeper_close ended on the servers, 0 for none.                       *)
EndProcess(closed) ==
  /\ process' = "off"
  /\ zk' = 0
  /\ promiseSet' = FALSE
  /\ sessionListeners' = <<>>
  /\ registering' = [l \in Listeners |-> 0]
  /\ server' = [h \in Handles |-> IF h = closed THEN "expired" ELSE server[h]]
  /\ link' = [h \in Handles |-> FALSE]
  /\ gone' = [h \in Handles |-> h <= handles]
  /\ events' = [h \in Handles |-> <<>>]
  /\ pc' = [h \in Handles |-> "idle"]
  /\ toNotify' = [h \in Handles |-> <<>>]
  /\ node' = IF node = closed THEN 0 ELSE node
  /\ requests' = [h \in Handles |-> <<>>]
  /\ reported' = 0
  /\ stray' = stray \cup AllSent
  /\ UNCHANGED <<handles, notified, earlier, ownNode>>

(* exit and the end of main destroy the bookie: ~ZooKeeper closes the      *)
(* handle in zk_, which reaches the servers if it is connected.            *)
Exit ==
  \E closed \in {0} \cup {h \in {zk} \cap Handles : link[h]} :
    EndProcess(closed)

(* A signal stops the bookie, or it is killed. *)
End ==
  /\ MayEnd
  /\ process # "off"
  /\ Exit \/ EndProcess(0)

-----------------------------------------------------------------------------
(* registerBookie: create, and what is chained to its future. *)

CanCreate == zk \in Handles /\ ~gone[zk]

(* zoo_acreate queues the request. *)
Create(h) ==
  /\ Callback(h)
  /\ CanCreate
  /\ requests' = [requests EXCEPT ![zk] = Append(@, "sent")]
  /\ UNCHANGED <<process, node, reported, earlier, stray, ownNode>>

(* It refuses a handle whose session is known to have expired; the future  *)
(* has failed when onError is chained to it.                               *)
CreateRefused(h) ==
  /\ pc[h] = "notify"
  /\ ~CanCreate
  /\ Exit

MutantExistsIsFine == {"ok", "exists"}

Success == {"ok"}

(* The completion, with the continuation that logs the registration. *)
Created(h) ==
  /\ \E event \in Success : NextIs(h, event)
  /\ reported' = h
  /\ UNCHANGED <<client, network, threads, notified, process, node, requests,
                 earlier, stray, ownNode>>

(* The completion, with onError. *)
CreateFailed(h) ==
  /\ pc[h] = "idle"
  /\ events[h] # <<>>
  /\ Head(events[h]) \in Completions \ Success
  /\ Exit

-----------------------------------------------------------------------------
(* The servers and the connection. *)

FirstSent(h, i) ==
  \A j \in 1 .. i : (requests[h][j] = "sent") = (j = i)

(* A server takes up a create: the node is there or it is not. *)
TakeUp(h) ==
  /\ node' = IF node = 0 THEN h ELSE node
  /\ ownNode' = (ownNode \/ (node > earlier /\ h > earlier))

ServerCreate(h, i) ==
  /\ link[h]
  /\ FirstSent(h, i)
  /\ requests' = [requests EXCEPT ![h][i] = IF node = 0 THEN "ok" ELSE "exists"]
  /\ TakeUp(h)
  /\ UNCHANGED <<sessionVars, process, reported, earlier, stray>>

(* It does so also when nobody waits any more, while the session lives. *)
StrayCreate(h) ==
  /\ h \in stray
  /\ stray' = stray \ {h}
  /\ IF server[h] = "live" THEN TakeUp(h) ELSE UNCHANGED <<node, ownNode>>
  /\ UNCHANGED <<sessionVars, process, requests, reported, earlier>>

Reply(h) ==
  /\ link[h]
  /\ requests[h] # <<>>
  /\ Head(requests[h]) # "sent"
  /\ events' = [events EXCEPT ![h] = Append(@, Head(requests[h]))]
  /\ requests' = [requests EXCEPT ![h] = Tail(@)]
  /\ UNCHANGED <<client, network, threads, notified, process, node, reported,
                 earlier, stray, ownNode>>

Lost(h) == [i \in DOMAIN requests[h] |-> "loss"]

Reconnect(h) == Connect(h) /\ UNCHANGED registrationVars

(* What was asked for and not answered fails, whether it was done, will be *)
(* done or never is.                                                       *)
LoseConnection(h) ==
  /\ Disconnect(h)
  /\ events' = [events EXCEPT ![h] = @ \o Lost(h)]
  /\ requests' = [requests EXCEPT ![h] = <<>>]
  /\ stray' = stray \cup (AllSent \cap {h})
  /\ UNCHANGED <<process, node, reported, earlier, ownNode>>

SessionExpires(h) ==
  /\ Expire(h)
  /\ node' = IF node = h THEN 0 ELSE node
  /\ UNCHANGED <<process, requests, reported, earlier, stray, ownNode>>

(* The expiry is announced before the creates that fail with it. *)
LearnOfExpiry(h) ==
  /\ LearnExpired(h)
  /\ events' = [events EXCEPT ![h] = (@ \o <<"expired">>) \o Lost(h)]
  /\ requests' = [requests EXCEPT ![h] = <<>>]
  /\ UNCHANGED <<process, node, reported, earlier, stray, ownNode>>

HandleEvent(h) ==
  /\ HandleConnected(h) \/ HandleExpired(h) \/ Restart(h)
  /\ UNCHANGED registrationVars

-----------------------------------------------------------------------------
HandleThread(h) ==
  HandleEvent(h) \/ Create(h) \/ CreateRefused(h) \/ Created(h)
    \/ CreateFailed(h)

NetworkProgress(h) ==
  \/ \E i \in DOMAIN requests[h] : ServerCreate(h, i)
  \/ Reply(h)
  \/ Reconnect(h)
  \/ LearnOfExpiry(h)

Next ==
  \/ Construct
  \/ \E l \in Listeners : Register(l)
  \/ Start
  \/ End
  \/ \E h \in Handles :
       \/ HandleEvent(h)
       \/ Create(h)
       \/ CreateRefused(h)
       \/ Created(h)
       \/ CreateFailed(h)
       \/ \E i \in DOMAIN requests[h] : ServerCreate(h, i)
       \/ StrayCreate(h)
       \/ Reply(h)
       \/ Reconnect(h)
       \/ LoseConnection(h)
       \/ SessionExpires(h)
       \/ LearnOfExpiry(h)

(* Threads run, and a client that looks for a server finds one in the end  *)
(* and is answered if the connection holds.                                *)
Fairness ==
  \A h \in Handles :
    WF_vars(HandleThread(h)) /\ WF_vars(NetworkProgress(h))

Spec == Init /\ [][Next]_vars /\ Fairness

-----------------------------------------------------------------------------
RegistrationTypeOK ==
  /\ SessionTypeOK
  /\ process \in {"off", "built", "up"}
  /\ node \in 0 .. handles
  /\ requests \in [Handles -> Seq({"sent", "ok", "exists"})]
  /\ reported \in 0 .. handles
  /\ earlier \in 0 .. handles
  /\ stray \in SUBSET Handles
  /\ ownNode \in BOOLEAN

(* The process never ends because of the node it created itself: a         *)
(* reconnection does not register again, and a new session registers only  *)
(* when the servers have removed the node of the one before.  A node of an *)
(* earlier process may be met, and ends this one.                          *)
NeverMeetsItself == ~ownNode

(* When the bookie has logged that it is registered, its node is there as  *)
(* long as the session lives: it did not take the node of an earlier       *)
(* process, which will go away, for its own.                               *)
ReportedNodeIsThere ==
  reported # 0 /\ server[reported] = "live" => node = reported

(* create only runs on the thread that delivers its completion, so that    *)
(* getFuture never finds the context deleted (ZooKeeper.cpp:133,141): the  *)
(* listener is in place before the first session can be ready, and a       *)
(* thread that tells of a session is the thread of the handle in zk_.      *)
CreateOnItsThread ==
  /\ \A l \in Listeners : registering[l] = 0
  /\ \A h \in Handles : pc[h] = "notify" => zk = h

(* A bookie with a ready session does not stay unregistered: it registers, *)
(* ends, or learns that the session has expired.                           *)
RegisteredOrGone ==
  (process = "up" /\ promiseSet) ~>
    \/ reported = zk
    \/ process = "off"
    \/ ~promiseSet

(* BookieRegistration.h:29 has the node re-created after the session       *)
(* expires.                                                                *)
ReRegistered ==
  (process = "up" /\ reported # 0 /\ server[reported] = "expired") ~>
    (node # 0 /\ server[node] = "live")
=============================================================================
