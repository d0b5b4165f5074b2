----------------------------- MODULE ZooKeeper -----------------------------
(***************************************************************************)
(* ZooKeeper.cpp: the bookie's wrapper of the ZooKeeper C client.  Each    *)
(* zookeeper_init makes a handle with a session of its own and a thread    *)
(* that delivers its events in order; handleSessionEvent runs on that      *)
(* thread and opens the next handle when the session has expired.          *)
(* Listeners are told of each new session, by that thread or, when the     *)
(* session is there already, by the thread that registers them.  What is   *)
(* done under mutex_ is one step.                                          *)
(*                                                                         *)
(* The C client, the network and the servers are modelled from how they    *)
(* are used: a session lives on the servers, the connection comes and      *)
(* goes, a session without a connection may expire, and the client learns  *)
(* of that when it reaches a server again.                                 *)
(***************************************************************************)
EXTENDS Naturals, Sequences

CONSTANTS
  Listeners,    \* callbacks given to registerSessionListener
  MaxHandles,   \* bound: handles opened in a behaviour
  MaxEvents,    \* bound: connections are made only while fewer are queued
  InitMayFail   \* zookeeper_init may return no handle

ASSUME SessionAssumption ==
  /\ MaxHandles \in Nat \ {0}
  /\ MaxEvents \in Nat \ {0}
  /\ InitMayFail \in BOOLEAN

VARIABLES
  handles,           \* handles 1 .. handles have been opened
  zk,                \* zk_, 0 for a null pointer
  promiseSet,        \* sessionPromise_ is fulfilled
  sessionListeners,
  registering,       \* the session a registering thread must tell its
                     \* listener of, 0 for none
  server,            \* each handle's session as the servers know it
  link,              \* the handle is connected
  gone,              \* the C client has learnt that the session expired
  events,            \* what waits for the handle's thread
  pc,                \* where the handle's thread is
  toNotify,          \* the listeners the handle's thread has yet to call
  notified           \* history: calls of each listener for each session

client  == <<handles, zk, promiseSet, sessionListeners>>
network == <<server, link, gone>>
threads == <<pc, toNotify, registering>>
sessionVars == <<client, network, threads, events, notified>>

Handles == 1 .. MaxHandles

(* What a completion of zoo_acreate may report. *)
Completions == {"ok", "exists", "loss"}

SessionInit ==
  /\ handles = 0
  /\ zk = 0
  /\ promiseSet = FALSE
  /\ sessionListeners = <<>>
  /\ registering = [l \in Listeners |-> 0]
  /\ server = [h \in Handles |-> "none"]
  /\ link = [h \in Handles |-> FALSE]
  /\ gone = [h \in Handles |-> FALSE]
  /\ events = [h \in Handles |-> <<>>]
  /\ pc = [h \in Handles |-> "idle"]
  /\ toNotify = [h \in Handles |-> <<>>]
  /\ notified = [l \in Listeners |-> [h \in Handles |-> 0]]

-----------------------------------------------------------------------------
(* startSession: zk_ is whatever zookeeper_init returned; the caller may   *)
(* try again when that was nothing.                                        *)

OpenHandle ==
  \/ handles < MaxHandles /\ handles' = handles + 1 /\ zk' = handles'
  \/ InitMayFail /\ zk' = 0 /\ UNCHANGED handles

StartSession ==
  /\ zk = 0
  /\ OpenHandle
  /\ UNCHANGED <<promiseSet, sessionListeners, network, threads, events,
                 notified>>

(* registerSessionListener, first under the lock and then, when a session  *)
(* is ready, the call without it.                                          *)

MutantSessionOpened == zk # 0

SessionReady == promiseSet

RegisterListener(l) ==
  /\ \A i \in DOMAIN sessionListeners : sessionListeners[i] # l
  /\ sessionListeners' = Append(sessionListeners, l)
  /\ registering' = [registering EXCEPT ![l] = IF SessionReady THEN zk ELSE 0]
  /\ UNCHANGED <<handles, zk, promiseSet, network, pc, toNotify, events,
                 notified>>

CallDirect(l) ==
  /\ registering[l] # 0
  /\ registering' = [registering EXCEPT ![l] = 0]
  /\ notified' = [notified EXCEPT ![l][registering[l]] = @ + 1]
  /\ UNCHANGED <<client, network, pc, toNotify, events>>

-----------------------------------------------------------------------------
(* handleSessionEvent, on the handle's own thread. *)

NextIs(h, event) ==
  /\ pc[h] = "idle"
  /\ events[h] # <<>>
  /\ Head(events[h]) = event
  /\ events' = [events EXCEPT ![h] = Tail(@)]

MutantEveryConnection == sessionListeners # <<>>

MustNotify == ~promiseSet /\ sessionListeners # <<>>

(* A first connection fulfils the promise and takes a copy of the          *)
(* listeners; a reconnection finds it fulfilled.                           *)
HandleConnected(h) ==
  /\ NextIs(h, "connected")
  /\ zk' = h
  /\ promiseSet' = TRUE
  /\ IF MustNotify
       THEN /\ toNotify' = [toNotify EXCEPT ![h] = sessionListeners]
            /\ pc' = [pc EXCEPT ![h] = "notify"]
       ELSE UNCHANGED <<pc, toNotify>>
  /\ UNCHANGED <<handles, sessionListeners, network, registering, notified>>

MutantStayNotifying(h) == "notify"

AfterCallback(h) == IF Len(toNotify[h]) = 1 THEN "idle" ELSE "notify"

Callback(h) ==
  /\ pc[h] = "notify"
  /\ toNotify' = [toNotify EXCEPT ![h] = Tail(@)]
  /\ pc' = [pc EXCEPT ![h] = AfterCallback(h)]
  /\ notified' = [notified EXCEPT ![Head(toNotify[h])][h] = @ + 1]
  /\ UNCHANGED <<client, network, registering, events>>

MutantKeepPromise == UNCHANGED promiseSet

ResetPromise == promiseSet' = FALSE

HandleExpired(h) ==
  /\ NextIs(h, "expired")
  /\ ResetPromise
  /\ pc' = [pc EXCEPT ![h] = "restart"]
  /\ UNCHANGED <<handles, zk, sessionListeners, network, toNotify,
                 registering, notified>>

(* The lock was given up in between; the old handle is not closed. *)
Restart(h) ==
  /\ pc[h] = "restart"
  /\ pc' = [pc EXCEPT ![h] = "idle"]
  /\ OpenHandle
  /\ UNCHANGED <<promiseSet, sessionListeners, network, toNotify,
                 registering, events, notified>>

-----------------------------------------------------------------------------
(* The C client's network thread and the servers. *)

Connect(h) ==
  /\ h <= handles
  /\ ~link[h]
  /\ ~gone[h]
  /\ server[h] # "expired"
  /\ Len(events[h]) < MaxEvents
  /\ link' = [link EXCEPT ![h] = TRUE]
  /\ server' = [server EXCEPT ![h] = "live"]
  /\ events' = [events EXCEPT ![h] = Append(@, "connected")]
  /\ UNCHANGED <<client, gone, threads, notified>>

(* The event of a lost connection is one that handleSessionEvent ignores. *)
Disconnect(h) ==
  /\ link[h]
  /\ link' = [link EXCEPT ![h] = FALSE]
  /\ UNCHANGED <<client, server, gone, threads, notified>>

(* Bound: the session of the last handle does not expire. *)
Expire(h) ==
  /\ h < MaxHandles
  /\ server[h] = "live"
  /\ ~link[h]
  /\ server' = [server EXCEPT ![h] = "expired"]
  /\ UNCHANGED <<client, link, gone, threads, events, notified>>

LearnExpired(h) ==
  /\ server[h] = "expired"
  /\ ~gone[h]
  /\ gone' = [gone EXCEPT ![h] = TRUE]
  /\ UNCHANGED <<client, server, link, threads, notified>>

-----------------------------------------------------------------------------
SessionThread(h) ==
  HandleConnected(h) \/ Callback(h) \/ HandleExpired(h) \/ Restart(h)

SessionNext ==
  \/ StartSession
  \/ \E l \in Listeners : RegisterListener(l) \/ CallDirect(l)
  \/ \E h \in Handles :
       \/ HandleConnected(h)
       \/ Callback(h)
       \/ HandleExpired(h)
       \/ Restart(h)
       \/ Connect(h)
       \/ Disconnect(h) /\ UNCHANGED events
       \/ Expire(h)
       \/ /\ LearnExpired(h)
          /\ events' = [events EXCEPT ![h] = Append(@, "expired")]

(* Threads run; nothing is assumed of the network. *)
SessionSpec ==
  /\ SessionInit
  /\ [][SessionNext]_sessionVars
  /\ \A h \in Handles : WF_sessionVars(SessionThread(h))
  /\ \A l \in Listeners : WF_sessionVars(CallDirect(l))

-----------------------------------------------------------------------------
SessionTypeOK ==
  /\ handles \in 0 .. MaxHandles
  /\ zk \in 0 .. MaxHandles
  /\ promiseSet \in BOOLEAN
  /\ sessionListeners \in Seq(Listeners)
  /\ registering \in [Listeners -> 0 .. MaxHandles]
  /\ server \in [Handles -> {"none", "live", "expired"}]
  /\ link \in [Handles -> BOOLEAN]
  /\ gone \in [Handles -> BOOLEAN]
  /\ events \in [Handles -> Seq({"connected", "expired"} \cup Completions)]
  /\ pc \in [Handles -> {"idle", "notify", "restart"}]
  /\ toNotify \in [Handles -> Seq(Listeners)]
  /\ \A h \in Handles : pc[h] = "notify" <=> toNotify[h] # <<>>
  /\ notified \in [Listeners -> [Handles -> Nat]]

(* A listener hears of a session once: not again when the connection comes *)
(* back, and not both from handleSessionEvent and from the thread that     *)
(* registers it while the session comes up.                                *)
OncePerSession ==
  \A l \in Listeners, h \in Handles : notified[l][h] <= 1

(* Whoever is registered while a session is ready hears of it, also of the *)
(* sessions that replace an expired one.                                   *)
EverySessionIsTold ==
  \A l \in Listeners, h \in Handles :
    (promiseSet /\ zk = h /\ \E i \in DOMAIN sessionListeners :
                               sessionListeners[i] = l)
      ~> (notified[l][h] > 0)
=============================================================================
