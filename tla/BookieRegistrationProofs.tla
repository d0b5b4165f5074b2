---------------------- MODULE BookieRegistrationProofs ----------------------
(***************************************************************************)
(* The bookie's node, over any number of sessions, processes, lost and     *)
(* restored connections: the process never meets a node of its own and     *)
(* does not take another's for its own.                                    *)
(***************************************************************************)
EXTENDS BookieRegistration, ZooKeeperProofs

(* Nothing happens on this handle and nothing is under way for it. *)
Quiet(h) == ~link[h] /\ events[h] = <<>> /\ pc[h] = "idle" /\ requests[h] = <<>>

(* The client has one listener from the end of its construction on, and a  *)
(* session only when it was started.                                       *)
LifeInv ==
  /\ process = "built" => earlier = handles
  /\ process # "up" => zk = 0 /\ ~promiseSet
  /\ process = "off" => sessionListeners = <<>>
  /\ process = "up" => sessionListeners # <<>>
  /\ Len(sessionListeners) <= 1
  /\ \A l \in Listeners : registering[l] = 0

(* The thread has yet to hear that the session has expired. *)
ExpiryAhead(h) == \E i \in DOMAIN events[h] : events[h][i] = "expired"

Expirable(h) == ~gone[h] \/ ExpiryAhead(h)

(* What comes after the expiry are the creates that fail with it. *)
ExpiryLast(h) ==
  \A i, j \in DOMAIN events[h] :
    i < j /\ events[h][i] = "expired" => events[h][j] = "loss"

OnlyLosses(h) == \A i \in DOMAIN events[h] : events[h][i] = "loss"

(* A create of this session has succeeded; the thread will hear of it, or  *)
(* the client will.                                                        *)
OkAhead(h) == \E i \in DOMAIN events[h] : events[h][i] = "ok"

OkAnswered(h) == \E i \in DOMAIN requests[h] : requests[h][i] = "ok"

SentFrom(h) == \E i \in DOMAIN requests[h] : requests[h][i] = "sent"

(* Only the handle opened last by this process is in use.                  *)
HandleOK(h) ==
  /\ h > handles => Quiet(h) /\ server[h] = "none" /\ ~gone[h]
  /\ h <= handles /\ (h <= earlier \/ process # "up") => Quiet(h) /\ gone[h]
  /\ h < handles => ~Expirable(h) /\ pc[h] = "idle"
  /\ earlier < h /\ (h < handles \/ (gone[h] /\ process = "up")) =>
       server[h] = "expired"
  /\ link[h] => server[h] = "live"
  /\ gone[h] => ~link[h] /\ requests[h] = <<>>

(* What the thread of a handle has to do fits what it has done.            *)
ThreadOK(h) ==
  /\ Len(toNotify[h]) <= 1
  /\ pc[h] = "notify" => zk = h /\ promiseSet
  /\ pc[h] = "restart" => ~Expirable(h) /\ ~promiseSet
  /\ ExpiryAhead(h) => gone[h]
  /\ ExpiryLast(h)
  /\ ~Expirable(h) => OnlyLosses(h)

(* The session has not asked for its node. *)
Fresh(h) == requests[h] = <<>> /\ h \notin stray /\ node # h

(* A session asks once for its node.                                       *)
CreateOK(h) ==
  /\ h > handles \/ (Expirable(h) /\ ~promiseSet) \/ pc[h] = "notify"
       => Fresh(h)
  /\ Len(requests[h]) <= 1
  /\ requests[h] # <<>> => h \notin stray
  /\ SentFrom(h) \/ h \in stray => node # h

(* The node stays with a session that was told of its success.             *)
NodeOK(h) ==
  server[h] # "expired" /\ (reported = h \/ OkAnswered(h) \/ OkAhead(h)) =>
    node = h

PromiseInv == promiseSet => zk = handles /\ zk # 0

(* The node goes with its session. *)
NodeInv == /\ node # 0 => server[node] = "live"
           /\ ~ownNode

HandlesInv ==
  \A h \in Handles : HandleOK(h) /\ ThreadOK(h) /\ CreateOK(h) /\ NodeOK(h)

RegistrationInv == LifeInv /\ PromiseInv /\ HandlesInv /\ NodeInv

Answers == {"sent", "ok", "exists"}

Events == {"connected", "expired"} \cup Completions

-----------------------------------------------------------------------------
(* Types *)

(* After the end of a process the volatile state is as at the start.       *)
LEMMA EndTypes ==
  ASSUME RegistrationTypeOK, NEW closed, EndProcess(closed)
  PROVE  RegistrationTypeOK'
PROOF
  <1> USE SessionAssumption
  <1>1. /\ server' \in [Handles -> {"none", "live", "expired"}]
        /\ link' \in [Handles -> BOOLEAN]
        /\ gone' \in [Handles -> BOOLEAN]
        /\ pc' \in [Handles -> {"idle", "notify", "restart"}]
        /\ registering' \in [Listeners -> 0 .. MaxHandles]
    BY DEF EndProcess, RegistrationTypeOK, SessionTypeOK
  <1>2. /\ events' \in [Handles -> Seq(Events)]
        /\ toNotify' \in [Handles -> Seq(Listeners)]
        /\ requests' \in [Handles -> Seq(Answers)]
        /\ sessionListeners' \in Seq(Listeners)
        /\ \A h \in Handles : pc'[h] = "notify" <=> toNotify'[h] # <<>>
    BY DEF EndProcess
  <1>a. /\ zk' = 0 /\ promiseSet' = FALSE /\ handles' = handles
        /\ notified' = notified /\ 0 \in 0 .. MaxHandles
    BY DEF EndProcess
  <1>b. /\ handles \in 0 .. MaxHandles
        /\ notified \in [Listeners -> [Handles -> Nat]]
    BY DEF RegistrationTypeOK, SessionTypeOK
  <1>3. SessionTypeOK'
    BY <1>1, <1>2, <1>a, <1>b DEF SessionTypeOK, Events
  <1>4. stray' \in SUBSET Handles /\ node' \in 0 .. handles'
    BY DEF EndProcess, RegistrationTypeOK, SessionTypeOK, AllSent
  <1> QED
    BY <1>2, <1>3, <1>4 DEF EndProcess, RegistrationTypeOK, SessionTypeOK,
                            Answers

(* Steps of the client alone. *)
LEMMA ClientTypes ==
  ASSUME RegistrationTypeOK, SessionNext,
         UNCHANGED <<node, requests, stray, ownNode>>,
         process' \in {"off", "built", "up"},
         reported' \in 0 .. handles, earlier' \in 0 .. handles
  PROVE  RegistrationTypeOK' /\ handles <= handles'
PROOF
  <1> USE SessionAssumption
  <1>1. SessionTypeOK'
    BY SessionTypeStep DEF RegistrationTypeOK
  <1>2. handles \in Nat /\ handles' \in Nat /\ handles <= handles'
    <2>1. handles \in Nat /\ handles' \in Nat
      BY <1>1 DEF RegistrationTypeOK, SessionTypeOK
    <2>2. CASE OpenHandle
      BY <2>1, <2>2 DEF OpenHandle
    <2>3. CASE UNCHANGED handles
      BY <2>1, <2>3
    <2>4. OpenHandle \/ UNCHANGED handles
      BY DEF SessionNext, StartSession, RegisterListener, CallDirect,
             HandleConnected, Callback, HandleExpired, Restart, Connect,
             Disconnect, Expire, LearnExpired, client
    <2> QED BY <2>1, <2>2, <2>3, <2>4
  <1>3. \A n \in 0 .. handles : n \in 0 .. handles'
    BY <1>2
  <1> QED BY <1>1, <1>2, <1>3 DEF RegistrationTypeOK

(* Every variable keeps its type.                                          *)
LEMMA RegistrationTypeStep ==
  ASSUME RegistrationTypeOK, HandlesInv, [Next]_vars
  PROVE  RegistrationTypeOK'
PROOF
  <1> USE SessionAssumption
  <1>0. /\ SessionTypeOK /\ handles \in Nat
        /\ events \in [Handles -> Seq(Events)]
        /\ requests \in [Handles -> Seq(Answers)]
    BY DEF RegistrationTypeOK, SessionTypeOK, Events, Answers
  <1>a. ASSUME NEW h \in Handles, events[h] # <<>> \/ link[h] \/ h \in stray
        PROVE  h \in 0 .. handles
    <2>1. h \in Nat
      BY DEF Handles
    <2> QED BY <1>0, <1>a, <2>1 DEF HandlesInv, HandleOK, Quiet, CreateOK, Fresh
  <1>b. ASSUME UNCHANGED sessionVars PROVE SessionTypeOK'
    BY <1>0, <1>b DEF SessionTypeOK, sessionVars, client, network, threads
  <1>1. CASE Construct \/ UNCHANGED vars
    BY <1>0, <1>1 DEF Construct, RegistrationTypeOK, SessionTypeOK, vars,
                 registrationVars, sessionVars, client, network, threads
  <1>2. CASE \E l \in Listeners : Register(l)
    BY <1>0, <1>2, ClientTypes
    DEF Register, registrationVars, SessionNext, RegistrationTypeOK
  <1>3. CASE Start
    BY <1>0, <1>3, ClientTypes DEF Start, SessionNext, RegistrationTypeOK
  <1>4. ASSUME NEW h \in Handles, HandleEvent(h) \/ Reconnect(h)
        PROVE  RegistrationTypeOK'
    BY <1>0, <1>4, ClientTypes
    DEF HandleEvent, Reconnect, registrationVars, SessionNext,
        RegistrationTypeOK
  <1>5. CASE Exit \/ End
    BY <1>5, EndTypes DEF Exit, End
  <1>6. ASSUME NEW h \in Handles, Create(h) PROVE RegistrationTypeOK'
    <2>1. SessionTypeOK'
      BY <1>0, <1>6, SessionTypeStep DEF Create, SessionNext
    <2>2. requests' \in [Handles -> Seq(Answers)]
      <3>1. \A g \in Handles : Append(requests[g], "sent") \in Seq(Answers)
        BY <1>0 DEF Answers
      <3> QED BY <1>0, <1>6, <3>1 DEF Create, CanCreate
    <2> QED
      BY <1>6, <2>1, <2>2
      DEF Create, Callback, client, RegistrationTypeOK, Answers
  <1>7. ASSUME NEW h \in Handles, Created(h) PROVE RegistrationTypeOK'
    <2>1. events' \in [Handles -> Seq(Events)]
      BY <1>0, <1>7, NextIsTypes DEF Created, Events
    <2>2. UNCHANGED <<handles, zk, promiseSet, sessionListeners, server, link,
                      gone, pc, toNotify, registering, notified>>
      BY <1>7 DEF Created, client, network, threads
    <2>3. SessionTypeOK'
      BY <1>0, <2>1, <2>2 DEF SessionTypeOK, Events
    <2>4. h \in 0 .. handles
      BY <1>a, <1>7 DEF Created, NextIs
    <2> QED BY <1>7, <2>3, <2>4 DEF Created, client, RegistrationTypeOK
  <1>8. ASSUME NEW h \in Handles, NEW i \in DOMAIN requests[h],
               ServerCreate(h, i)
        PROVE  RegistrationTypeOK'
    <2>1. requests' \in [Handles -> Seq(Answers)]
      <3>1. \A x \in Answers : [requests[h] EXCEPT ![i] = x] \in Seq(Answers)
        BY <1>0
      <3> QED BY <1>0, <1>8, <3>1 DEF ServerCreate, Answers
    <2>2. h \in 0 .. handles
      BY <1>8, <1>a DEF ServerCreate
    <2> QED
      BY <1>8, <1>b, <2>1, <2>2
      DEF ServerCreate, TakeUp, RegistrationTypeOK, Answers, sessionVars, client
  <1>9. ASSUME NEW h \in Handles, StrayCreate(h) PROVE RegistrationTypeOK'
    <2>1. h \in 0 .. handles
      BY <1>9, <1>a DEF StrayCreate
    <2> QED
      BY <1>9, <1>b, <2>1
      DEF StrayCreate, TakeUp, RegistrationTypeOK, sessionVars, client
  <1>c. ASSUME NEW h \in Handles, NEW s \in Seq(Events),
               events' = [events EXCEPT ![h] = @ \o s]
        PROVE  events' \in [Handles -> Seq(Events)]
    BY <1>0, <1>c
  <1>10. ASSUME NEW h \in Handles, Reply(h) PROVE RegistrationTypeOK'
    <2>1. /\ Head(requests[h]) \in Answers /\ Head(requests[h]) # "sent"
          /\ Tail(requests[h]) \in Seq(Answers)
      BY <1>0, <1>10 DEF Reply
    <2>2. Append(events[h], Head(requests[h])) \in Seq(Events)
      BY <1>0, <2>1 DEF Answers, Events, Completions
    <2>3. /\ events' \in [Handles -> Seq(Events)]
          /\ requests' \in [Handles -> Seq(Answers)]
      BY <1>0, <1>10, <2>1, <2>2 DEF Reply
    <2>4. UNCHANGED <<handles, zk, promiseSet, sessionListeners, server, link,
                      gone, pc, toNotify, registering, notified>>
      BY <1>10 DEF Reply, client, network, threads
    <2>5. SessionTypeOK'
      BY <1>0, <2>3, <2>4 DEF SessionTypeOK, Events
    <2> QED
      BY <1>10, <2>3, <2>4, <2>5 DEF Reply, RegistrationTypeOK, Answers
  <1>11. ASSUME NEW h \in Handles, LoseConnection(h)
         PROVE  RegistrationTypeOK'
    <2>1. Lost(h) \in Seq(Events)
      BY <1>0 DEF Lost, Events, Completions
    <2>2. /\ events' \in [Handles -> Seq(Events)]
          /\ requests' \in [Handles -> Seq(Answers)]
          /\ link' \in [Handles -> BOOLEAN]
      BY <1>0, <1>11, <1>c, <2>1 DEF LoseConnection, Disconnect, SessionTypeOK
    <2>3. UNCHANGED <<handles, zk, promiseSet, sessionListeners, server,
                      gone, pc, toNotify, registering, notified>>
      BY <1>11 DEF LoseConnection, Disconnect, client, threads
    <2>4. SessionTypeOK'
      BY <1>0, <2>2, <2>3 DEF SessionTypeOK, Events
    <2> QED
      BY <1>11, <2>2, <2>3, <2>4
      DEF LoseConnection, AllSent, RegistrationTypeOK, Answers
  <1>12. ASSUME NEW h \in Handles, SessionExpires(h)
         PROVE  RegistrationTypeOK'
    <2>1. SessionTypeOK'
      BY <1>0, <1>12, SessionTypeStep DEF SessionExpires, SessionNext
    <2> QED
      BY <1>0, <1>12, <2>1
      DEF SessionExpires, Expire, client, RegistrationTypeOK
  <1>13. ASSUME NEW h \in Handles, LearnOfExpiry(h)
         PROVE  RegistrationTypeOK'
    <2>1. Lost(h) \in Seq(Events) /\ <<"expired">> \in Seq(Events)
      BY <1>0 DEF Lost, Events, Completions
    <2>2. (events[h] \o <<"expired">>) \o Lost(h) \in Seq(Events)
      BY <1>0, <2>1
    <2>3. /\ events' \in [Handles -> Seq(Events)]
          /\ requests' \in [Handles -> Seq(Answers)]
          /\ gone' \in [Handles -> BOOLEAN]
      BY <1>0, <1>13, <2>2 DEF LearnOfExpiry, LearnExpired, SessionTypeOK
    <2>4. UNCHANGED <<handles, zk, promiseSet, sessionListeners, server,
                      link, pc, toNotify, registering, notified>>
      BY <1>13 DEF LearnOfExpiry, LearnExpired, client, threads
    <2>5. SessionTypeOK'
      BY <1>0, <2>3, <2>4 DEF SessionTypeOK, Events
    <2> QED
      BY <1>13, <2>3, <2>4, <2>5
      DEF LearnOfExpiry, RegistrationTypeOK, Answers
  <1> QED
    BY <1>1, <1>2, <1>3, <1>4, <1>5, <1>6, <1>7, <1>8, <1>9, <1>10, <1>11,
       <1>12, <1>13
    DEF Next, CreateRefused, CreateFailed

-----------------------------------------------------------------------------
(* Queues of events and of creates                                         *)

(* Taking the only element of a sequence. *)
LEMMA OnlyOne ==
  ASSUME NEW S, NEW r \in Seq(S), r # <<>>, Len(r) <= 1
  PROVE  /\ Len(r) = 1 /\ DOMAIN r = {1}
         /\ Head(r) = r[1] /\ Head(r) \in S
         /\ Tail(r) = <<>>
PROOF
  <1>1. Len(r) \in Nat \ {0}
    BY EmptySeq
  <1>2. Len(r) = 1
    <2>1. \A n \in Nat \ {0} : n <= 1 => n = 1
      OBVIOUS
    <2> QED BY <1>1, <2>1, Zenon
  <1>a. Head(r) \in S /\ Tail(r) \in Seq(S)
    OBVIOUS
  <1>b. Len(Tail(r)) = Len(r) - 1
    BY HeadTailProperties
  <1>3. Len(Tail(r)) = 0
    BY <1>2, <1>b
  <1>4. Tail(r) = <<>>
    BY <1>3, <1>a, EmptySeq, Zenon
  <1>5. DOMAIN r = 1 .. 1 /\ Head(r) = r[1]
    BY <1>2
  <1> QED BY <1>2, <1>a, <1>4, <1>5

(* Taking an event away. *)
LEMMA EventTaken ==
  ASSUME RegistrationTypeOK, NEW h \in Handles, ExpiryLast(h),
         events[h] # <<>>, events' = [events EXCEPT ![h] = Tail(@)]
  PROVE  /\ ExpiryLast(h)'
         /\ OnlyLosses(h) => OnlyLosses(h)' /\ Head(events[h]) = "loss"
         /\ OkAhead(h)' => OkAhead(h)
         /\ Head(events[h]) = "ok" => OkAhead(h)
         /\ Head(events[h]) = "expired" =>
              ExpiryAhead(h) /\ OnlyLosses(h)' /\ ~ExpiryAhead(h)'
         /\ Head(events[h]) # "expired" => (ExpiryAhead(h)' <=> ExpiryAhead(h))
PROOF
  <1>1. /\ Len(events[h]) \in Nat \ {0}
        /\ Head(events[h]) = events[h][1]
        /\ DOMAIN events[h] = 1 .. Len(events[h])
        /\ DOMAIN events'[h] = 1 .. Len(events[h]) - 1
        /\ \A i \in DOMAIN events'[h] :
             /\ i \in Nat \ {0}
             /\ events'[h][i] = events[h][i + 1]
             /\ i + 1 \in DOMAIN events[h]
    BY TailOfEvents DEF RegistrationTypeOK, SessionTypeOK
  <1>2. \A i \in DOMAIN events[h] :
          /\ i \in Nat
          /\ i = 1 \/ (i - 1 \in DOMAIN events'[h]
                      /\ events[h][i] = events'[h][i - 1])
    BY <1>1
  <1>3. ExpiryLast(h)'
    <2> SUFFICES ASSUME NEW i \in DOMAIN events'[h], NEW j \in DOMAIN events'[h],
                        i < j, events'[h][i] = "expired"
                 PROVE  events'[h][j] = "loss"
      BY DEF ExpiryLast
    <2>1. i + 1 < j + 1
      BY <1>1
    <2> QED BY <1>1, <2>1 DEF ExpiryLast
  <1>4. OnlyLosses(h) => OnlyLosses(h)' /\ Head(events[h]) = "loss"
    BY <1>1 DEF OnlyLosses
  <1>5. /\ OkAhead(h)' => OkAhead(h)
        /\ Head(events[h]) = "ok" => OkAhead(h)
    BY <1>1 DEF OkAhead
  <1>6. ASSUME Head(events[h]) = "expired"
        PROVE  ExpiryAhead(h) /\ OnlyLosses(h)' /\ ~ExpiryAhead(h)'
    <2>1. ExpiryAhead(h)
      BY <1>1, <1>6 DEF ExpiryAhead
    <2>2. OnlyLosses(h)'
      <3>1. \A i \in DOMAIN events'[h] : 1 < i + 1 /\ 1 \in DOMAIN events[h]
        BY <1>1
      <3> QED BY <1>1, <1>6, <3>1 DEF OnlyLosses, ExpiryLast
    <2> QED BY <2>1, <2>2 DEF OnlyLosses, ExpiryAhead
  <1>7. Head(events[h]) # "expired" => (ExpiryAhead(h)' <=> ExpiryAhead(h))
    BY <1>1, <1>2 DEF ExpiryAhead
  <1> QED BY <1>3, <1>4, <1>5, <1>6, <1>7

(* Putting one behind the others. *)
LEMMA EventAdded ==
  ASSUME RegistrationTypeOK, NEW h \in Handles, ~ExpiryAhead(h),
         NEW x, events' = [events EXCEPT ![h] = Append(@, x)]
  PROVE  /\ ExpiryAhead(h)' <=> x = "expired"
         /\ OkAhead(h)' <=> OkAhead(h) \/ x = "ok"
         /\ ExpiryLast(h)'
PROOF
  <1>1. /\ Len(events[h]) \in Nat
        /\ DOMAIN events[h] = 1 .. Len(events[h])
        /\ DOMAIN events'[h] = 1 .. Len(events[h]) + 1
        /\ events'[h][Len(events[h]) + 1] = x
        /\ \A i \in 1 .. Len(events[h]) : events'[h][i] = events[h][i]
    BY DEF RegistrationTypeOK, SessionTypeOK
  <1>2. \A i \in DOMAIN events'[h] :
          i \in DOMAIN events[h] \/ i = Len(events[h]) + 1
    BY <1>1
  <1>3. ExpiryAhead(h)' <=> x = "expired"
    BY <1>1, <1>2 DEF ExpiryAhead
  <1>4. OkAhead(h)' <=> OkAhead(h) \/ x = "ok"
    BY <1>1, <1>2 DEF OkAhead
  <1>5. ExpiryLast(h)'
    <2>1. \A i \in DOMAIN events[h] : events'[h][i] # "expired"
      BY <1>1 DEF ExpiryAhead
    <2> QED BY <1>1, <1>2, <2>1 DEF ExpiryLast
  <1> QED BY <1>3, <1>4, <1>5

(* Failing the creates that are under way. *)
LEMMA LossesAdded ==
  ASSUME NEW e, NEW s, NEW all, e \in Seq(Events), s \in Seq(Events),
         \A i \in DOMAIN s : s[i] = "loss", all = e \o s
  PROVE  /\ Len(e) \in Nat /\ DOMAIN e = 1 .. Len(e)
         /\ \A i \in 1 .. Len(e) : all[i] = e[i] /\ i \in DOMAIN all
         /\ \A i \in DOMAIN all :
              /\ i \in Nat
              /\ i \in DOMAIN e \/ (i > Len(e) /\ all[i] = "loss")
PROOF
  <1>1. /\ Len(e) \in Nat /\ Len(s) \in Nat /\ Len(all) = Len(e) + Len(s)
        /\ DOMAIN e = 1 .. Len(e) /\ DOMAIN s = 1 .. Len(s)
        /\ DOMAIN all = 1 .. Len(e) + Len(s)
        /\ \A i \in 1 .. Len(e) : all[i] = e[i]
        /\ \A i \in 1 .. Len(e) + Len(s) :
             i > Len(e) => all[i] = s[i - Len(e)]
    OBVIOUS
  <1>2. \A i \in 1 .. Len(e) + Len(s) :
          i \in 1 .. Len(e) \/ (i > Len(e) /\ i - Len(e) \in DOMAIN s)
    BY <1>1
  <1> QED BY <1>1, <1>2

(* A lost connection puts losses behind the events of its handle. *)
LEMMA EventsLost ==
  ASSUME RegistrationTypeOK, NEW h \in Handles, ExpiryLast(h), ~ExpiryAhead(h),
         events' = [events EXCEPT ![h] = @ \o Lost(h)]
  PROVE  /\ ~ExpiryAhead(h)'
         /\ OkAhead(h)' <=> OkAhead(h)
         /\ ExpiryLast(h)'
PROOF
  <1>1. /\ events[h] \in Seq(Events) /\ Lost(h) \in Seq(Events)
        /\ \A i \in DOMAIN Lost(h) : Lost(h)[i] = "loss"
    BY DEF RegistrationTypeOK, SessionTypeOK, Lost, Events, Completions
  <1>2. events'[h] = events[h] \o Lost(h)
    BY DEF RegistrationTypeOK, SessionTypeOK
  <1>3. /\ \A i \in DOMAIN events[h] :
             i \in DOMAIN events'[h] /\ events'[h][i] = events[h][i]
        /\ \A i \in DOMAIN events'[h] :
             \/ i \in DOMAIN events[h] /\ events'[h][i] = events[h][i]
             \/ events'[h][i] = "loss"
    BY <1>1, <1>2, LossesAdded
  <1>4. \A i \in DOMAIN events'[h] : events'[h][i] # "expired"
    BY <1>3 DEF ExpiryAhead
  <1> QED BY <1>3, <1>4 DEF ExpiryAhead, OkAhead, ExpiryLast

(* The expiry of a session comes before the creates that fail with it. *)
LEMMA ExpiryAnnounced ==
  ASSUME RegistrationTypeOK, NEW h \in Handles, ~ExpiryAhead(h),
         events' = [events EXCEPT ![h] = (@ \o <<"expired">>) \o Lost(h)]
  PROVE  /\ ExpiryAhead(h)'
         /\ OkAhead(h)' <=> OkAhead(h)
         /\ ExpiryLast(h)'
PROOF
  <1> DEFINE e == events[h]
             x == e \o <<"expired">>
             s == Lost(h)
  <1>1. /\ e \in Seq(Events) /\ s \in Seq(Events)
        /\ \A i \in DOMAIN s : s[i] = "loss"
    BY DEF RegistrationTypeOK, SessionTypeOK, Lost, Events, Completions
  <1>2. events'[h] = x \o s
    BY DEF RegistrationTypeOK, SessionTypeOK
  <1> HIDE DEF s, e
  <1>3. /\ x \in Seq(Events) /\ Len(x) = Len(e) + 1 /\ Len(e) \in Nat
        /\ DOMAIN e = 1 .. Len(e)
        /\ x[Len(e) + 1] = "expired" /\ \A i \in 1 .. Len(e) : x[i] = e[i]
    <2>1. <<"expired">> \in Seq(Events) /\ Len(<<"expired">>) = 1
          /\ <<"expired">>[1] = "expired"
      BY DEF Events
    <2> QED BY <1>1, <2>1
  <1> HIDE DEF x
  <1>a. \A all : all = x \o s =>
          /\ DOMAIN x = 1 .. Len(x)
          /\ \A i \in 1 .. Len(x) : all[i] = x[i] /\ i \in DOMAIN all
          /\ \A i \in DOMAIN all :
               /\ i \in Nat
               /\ i \in DOMAIN x \/ (i > Len(x) /\ all[i] = "loss")
    <2>1. x \in Seq(Events)
      BY <1>3
    <2> QED BY <1>1, <2>1, LossesAdded
  <1>4. /\ DOMAIN x = 1 .. Len(x)
        /\ \A i \in 1 .. Len(x) :
             events'[h][i] = x[i] /\ i \in DOMAIN events'[h]
        /\ \A i \in DOMAIN events'[h] :
             i \in DOMAIN x \/ (i > Len(x) /\ events'[h][i] = "loss")
        /\ \A i \in DOMAIN events'[h] : i \in Nat
    BY <1>2, <1>a, Zenon
  <1>5. /\ Len(e) + 1 \in DOMAIN events'[h]
        /\ events'[h][Len(e) + 1] = "expired"
        /\ \A i \in DOMAIN e :
             i \in DOMAIN events'[h] /\ events'[h][i] = e[i]
        /\ \A i \in DOMAIN events'[h] :
             \/ i \in DOMAIN e
             \/ i = Len(e) + 1
             \/ i > Len(e) + 1 /\ events'[h][i] = "loss"
    BY <1>3, <1>4
  <1>6. ExpiryAhead(h)'
    BY <1>5 DEF ExpiryAhead
  <1>7. OkAhead(h)' <=> OkAhead(h)
    BY <1>5 DEF OkAhead, e
  <1>8. ExpiryLast(h)'
    <2> SUFFICES ASSUME NEW i \in DOMAIN events'[h], NEW j \in DOMAIN events'[h],
                        i < j, events'[h][i] = "expired"
                 PROVE  events'[h][j] = "loss"
      BY DEF ExpiryLast
    <2>1. i \notin DOMAIN e
      BY <1>5 DEF ExpiryAhead, e
    <2>2. i > Len(e) /\ i \in Nat /\ j \in Nat
      BY <1>3, <1>4, <1>5, <2>1
    <2>3. j \notin DOMAIN e /\ j # Len(e) + 1
      BY <1>3, <2>2
    <2> QED BY <1>5, <2>3
  <1> QED BY <1>6, <1>7, <1>8

(* What does not touch a handle's queues.                                  *)
LEMMA QueuesKept ==
  ASSUME NEW h, events'[h] = events[h], requests'[h] = requests[h]
  PROVE  /\ ExpiryAhead(h)' <=> ExpiryAhead(h)
         /\ ExpiryLast(h)' <=> ExpiryLast(h)
         /\ OnlyLosses(h)' <=> OnlyLosses(h)
         /\ OkAhead(h)' <=> OkAhead(h)
         /\ OkAnswered(h)' <=> OkAnswered(h)
         /\ SentFrom(h)' <=> SentFrom(h)
PROOF
  BY DEF ExpiryAhead, ExpiryLast, OnlyLosses, OkAhead, OkAnswered, SentFrom

(* Empty queues hold neither an expiry nor an answer. *)
LEMMA NothingQueued ==
  ASSUME NEW h
  PROVE  /\ events[h] = <<>> => /\ ~ExpiryAhead(h) /\ ~OkAhead(h)
                                /\ ExpiryLast(h) /\ OnlyLosses(h)
         /\ requests[h] = <<>> => ~OkAnswered(h) /\ ~SentFrom(h)
PROOF
  BY DEF ExpiryAhead, ExpiryLast, OnlyLosses, OkAhead, OkAnswered, SentFrom

-----------------------------------------------------------------------------
(* Handles and what is left alone *)

(* A handle that is known to the client and not yet done with is the one   *)
(* that this process opened last.                                          *)
LEMMA InUse ==
  ASSUME RegistrationTypeOK, HandlesInv, NEW h \in Handles,
         h <= handles, Expirable(h)
  PROVE  h = handles /\ earlier < h /\ process = "up"
PROOF
  <1>1. handles \in Nat /\ earlier \in Nat /\ h \in Nat
    BY DEF RegistrationTypeOK, SessionTypeOK, Handles
  <1>2. HandleOK(h)
    BY DEF HandlesInv
  <1>3. ~(Quiet(h) /\ gone[h])
    BY NothingQueued DEF Quiet, Expirable
  <1> QED BY <1>1, <1>2, <1>3 DEF HandleOK

(* Whatever happens happens on a handle that was opened. *)
LEMMA Opened ==
  ASSUME RegistrationTypeOK, HandlesInv, NEW h \in Handles,
         \/ link[h] \/ events[h] # <<>> \/ requests[h] # <<>>
         \/ pc[h] # "idle" \/ server[h] # "none" \/ gone[h] \/ h \in stray
  PROVE  h <= handles
PROOF
  <1>1. handles \in Nat /\ h \in Nat
    BY DEF RegistrationTypeOK, SessionTypeOK, Handles
  <1> QED BY <1>1 DEF HandlesInv, HandleOK, Quiet, CreateOK, Fresh

(* A connected handle is the one in use, and its session lives. *)
LEMMA Linked ==
  ASSUME RegistrationTypeOK, HandlesInv, NEW h \in Handles, link[h]
  PROVE  /\ h = handles /\ earlier < h /\ process = "up"
         /\ server[h] = "live" /\ ~gone[h] /\ ~ExpiryAhead(h)
PROOF
  <1>1. h <= handles
    BY Opened
  <1>2. server[h] = "live" /\ ~gone[h] /\ ~ExpiryAhead(h)
    BY DEF HandlesInv, HandleOK, ThreadOK
  <1> QED BY <1>1, <1>2, InUse DEF Expirable

(* The node is that of the session which is in use, or of one of an        *)
(* earlier process.                                                        *)
LEMMA NodeOfThisProcess ==
  ASSUME RegistrationTypeOK, HandlesInv, NodeInv, node > earlier
  PROVE  node = handles
PROOF
  <1>1. /\ handles \in 0 .. MaxHandles /\ earlier \in Nat
        /\ node \in 0 .. handles
    BY DEF RegistrationTypeOK, SessionTypeOK
  <1>2. node # 0 /\ node \in Handles
    BY <1>1, SessionAssumption DEF Handles
  <1>3. server[node] = "live"
    BY <1>2 DEF NodeInv
  <1> QED BY <1>1, <1>2, <1>3 DEF HandlesInv, HandleOK

Untouched(g) ==
  /\ events'[g] = events[g] /\ requests'[g] = requests[g]
  /\ server'[g] = server[g] /\ link'[g] = link[g] /\ gone'[g] = gone[g]
  /\ pc'[g] = pc[g] /\ toNotify'[g] = toNotify[g]
  /\ g \in stray' <=> g \in stray
  /\ node' = g <=> node = g
  /\ reported' = g => reported = g

LifeKept ==
  UNCHANGED <<process, handles, earlier, zk, promiseSet, sessionListeners,
              registering>>

(* A handle that a step leaves alone. *)
LEMMA Bystander ==
  ASSUME NEW g, HandleOK(g), ThreadOK(g), CreateOK(g), NodeOK(g),
         Untouched(g), LifeKept
  PROVE  HandleOK(g)' /\ ThreadOK(g)' /\ CreateOK(g)' /\ NodeOK(g)'
PROOF
  <1>1. /\ ExpiryAhead(g)' <=> ExpiryAhead(g)
        /\ ExpiryLast(g)' <=> ExpiryLast(g)
        /\ OnlyLosses(g)' <=> OnlyLosses(g)
        /\ OkAhead(g)' <=> OkAhead(g)
        /\ OkAnswered(g)' <=> OkAnswered(g)
        /\ SentFrom(g)' <=> SentFrom(g)
    BY QueuesKept DEF Untouched
  <1>2. Expirable(g)' <=> Expirable(g)
    BY <1>1 DEF Untouched, Expirable
  <1>3. Quiet(g)' <=> Quiet(g)
    BY DEF Untouched, Quiet
  <1>4. HandleOK(g)'
    BY <1>2, <1>3 DEF Untouched, LifeKept, HandleOK
  <1>5. ThreadOK(g)'
    BY <1>1, <1>2 DEF Untouched, LifeKept, ThreadOK
  <1>6. CreateOK(g)'
    BY <1>1, <1>2 DEF Untouched, LifeKept, CreateOK, Fresh
  <1>7. NodeOK(g)'
    BY <1>1 DEF Untouched, NodeOK
  <1> QED BY <1>4, <1>5, <1>6, <1>7

(* A step on one handle. *)
LEMMA OneHandle ==
  ASSUME RegistrationInv, NEW h \in Handles, LifeKept, NodeInv',
         \A g \in Handles : g # h => Untouched(g),
         HandleOK(h)', ThreadOK(h)', CreateOK(h)', NodeOK(h)'
  PROVE  RegistrationInv'
PROOF
  <1>1. HandlesInv'
    <2> SUFFICES ASSUME NEW g \in Handles
                 PROVE  /\ HandleOK(g)' /\ ThreadOK(g)'
                        /\ CreateOK(g)' /\ NodeOK(g)'
      BY DEF HandlesInv
    <2>1. CASE g # h
      BY <2>1, Bystander DEF RegistrationInv, HandlesInv
    <2> QED BY <2>1
  <1>2. LifeInv' /\ PromiseInv'
    BY DEF LifeKept, LifeInv, PromiseInv, RegistrationInv
  <1> QED BY <1>1, <1>2 DEF RegistrationInv

-----------------------------------------------------------------------------
(* The connection and the servers *)

(* The answer of a server moves from the connection to the thread of the   *)
(* handle.                                                                 *)
LEMMA ReplyKeeps ==
  ASSUME RegistrationTypeOK, RegistrationInv, NEW h \in Handles, Reply(h)
  PROVE  RegistrationInv'
PROOF
  <1>0. HandleOK(h) /\ ThreadOK(h) /\ CreateOK(h) /\ NodeOK(h) /\ HandlesInv
    BY DEF RegistrationInv, HandlesInv
  <1>1. /\ h = handles /\ earlier < h /\ process = "up"
        /\ server[h] = "live" /\ ~gone[h] /\ ~ExpiryAhead(h)
    BY <1>0, Linked DEF Reply
  <1>2. /\ LifeKept
        /\ UNCHANGED <<server, link, gone, pc, toNotify, node, reported, stray,
                       ownNode>>
        /\ link[h] /\ requests[h] # <<>> /\ Head(requests[h]) # "sent"
        /\ events' = [events EXCEPT ![h] = Append(@, Head(requests[h]))]
        /\ requests' = [requests EXCEPT ![h] = Tail(@)]
    BY DEF Reply, LifeKept, client, network, threads
  <1>3. /\ events \in [Handles -> Seq(Events)]
        /\ requests \in [Handles -> Seq(Answers)]
        /\ handles \in Nat /\ earlier \in Nat /\ h \in Nat
    BY DEF RegistrationTypeOK, SessionTypeOK, Events, Answers, Handles
  <1>4. /\ requests'[h] = <<>>
        /\ Head(requests[h]) \in {"ok", "exists"}
        /\ Head(requests[h]) = "ok" => OkAnswered(h)
    <2>1. Len(requests[h]) <= 1
      BY <1>0 DEF CreateOK
    <2>2. /\ Len(requests[h]) = 1
          /\ DOMAIN requests[h] = {1}
          /\ Head(requests[h]) = requests[h][1]
          /\ Head(requests[h]) \in Answers
          /\ Tail(requests[h]) = <<>>
      BY <1>2, <1>3, <2>1, OnlyOne
    <2> QED BY <1>2, <1>3, <2>2 DEF OkAnswered, Answers
  <1>5. /\ ~ExpiryAhead(h)'
        /\ OkAhead(h)' <=> OkAhead(h) \/ Head(requests[h]) = "ok"
        /\ ExpiryLast(h)'
    BY <1>1, <1>2, <1>4, EventAdded
  <1>6. ~OkAnswered(h)' /\ ~SentFrom(h)'
    BY <1>4 DEF OkAnswered, SentFrom
  <1>7. Expirable(h) /\ Expirable(h)'
    BY <1>1, <1>2 DEF Expirable
  <1>8. \A g \in Handles : g # h => Untouched(g)
    BY <1>2, <1>3 DEF Untouched
  <1>9. HandleOK(h)'
    BY <1>0, <1>1, <1>2, <1>3, <1>4 DEF HandleOK, LifeKept
  <1>10. ThreadOK(h)'
    BY <1>0, <1>1, <1>2, <1>5, <1>7 DEF ThreadOK, LifeKept
  <1>11. CreateOK(h)'
    <2>1. promiseSet /\ pc[h] # "notify" /\ ~(h > handles)
      BY <1>0, <1>1, <1>2, <1>3, <1>7 DEF CreateOK, Fresh
    <2>2. Len(requests'[h]) <= 1
      BY <1>4
    <2> QED BY <1>0, <1>2, <1>3, <1>4, <1>6, <2>1, <2>2 DEF CreateOK, LifeKept
  <1>12. NodeOK(h)'
    BY <1>0, <1>2, <1>4, <1>5, <1>6 DEF NodeOK
  <1>13. NodeInv'
    BY <1>2 DEF NodeInv, RegistrationInv
  <1> QED
    BY <1>2, <1>8, <1>9, <1>10, <1>11, <1>12, <1>13, OneHandle

(* A handle that comes to a server is the one in use, and its thread is    *)
(* told so once more.                                                      *)
LEMMA ReconnectKeeps ==
  ASSUME RegistrationTypeOK, RegistrationInv, NEW h \in Handles, Reconnect(h)
  PROVE  RegistrationInv'
PROOF
  <1>0. HandleOK(h) /\ ThreadOK(h) /\ CreateOK(h) /\ NodeOK(h) /\ HandlesInv
    BY DEF RegistrationInv, HandlesInv
  <1>2. /\ LifeKept
        /\ UNCHANGED <<gone, pc, toNotify, requests, node, reported, stray,
                       ownNode>>
        /\ h <= handles /\ ~gone[h] /\ server[h] # "expired"
        /\ events' = [events EXCEPT ![h] = Append(@, "connected")]
        /\ link' = [link EXCEPT ![h] = TRUE]
        /\ server' = [server EXCEPT ![h] = "live"]
    BY DEF Reconnect, Connect, LifeKept, client, threads, registrationVars
  <1>3. /\ events \in [Handles -> Seq(Events)]
        /\ server \in [Handles -> {"none", "live", "expired"}]
        /\ link \in [Handles -> BOOLEAN]
        /\ handles \in Nat /\ earlier \in Nat /\ h \in Nat
    BY DEF RegistrationTypeOK, SessionTypeOK, Events, Handles
  <1>1. h = handles /\ earlier < h /\ process = "up" /\ ~ExpiryAhead(h)
    BY <1>0, <1>2, InUse DEF Expirable, ThreadOK
  <1>5. ~ExpiryAhead(h)' /\ (OkAhead(h)' <=> OkAhead(h)) /\ ExpiryLast(h)'
    <2> DEFINE x == "connected"
    <2>1. events' = [events EXCEPT ![h] = Append(@, x)] /\ x \notin {"ok", "expired"}
      BY <1>2
    <2> HIDE DEF x
    <2>2. /\ ExpiryAhead(h)' <=> x = "expired"
          /\ OkAhead(h)' <=> OkAhead(h) \/ x = "ok"
          /\ ExpiryLast(h)'
      BY <1>1, <2>1, EventAdded
    <2> QED BY <2>1, <2>2
  <1>6. /\ OkAnswered(h)' <=> OkAnswered(h)
        /\ SentFrom(h)' <=> SentFrom(h)
    BY <1>2 DEF OkAnswered, SentFrom
  <1>7. Expirable(h) /\ Expirable(h)'
    BY <1>2 DEF Expirable
  <1>8. \A g \in Handles : g # h => Untouched(g)
    BY <1>2, <1>3 DEF Untouched
  <1>9. HandleOK(h)'
    BY <1>0, <1>1, <1>2, <1>3 DEF HandleOK, LifeKept
  <1>10. ThreadOK(h)'
    BY <1>0, <1>1, <1>2, <1>5, <1>7 DEF ThreadOK, LifeKept
  <1>11. CreateOK(h)'
    BY <1>0, <1>2, <1>6, <1>7 DEF CreateOK, LifeKept, Fresh
  <1>12. NodeOK(h)'
    BY <1>0, <1>2, <1>3, <1>5, <1>6 DEF NodeOK
  <1>13. NodeInv'
    BY <1>2, <1>3 DEF NodeInv, RegistrationInv
  <1> QED
    BY <1>2, <1>8, <1>9, <1>10, <1>11, <1>12, <1>13, OneHandle

(* A lost connection fails the create under way, which a server may still  *)
(* take up.                                                                *)
LEMMA LoseConnectionKeeps ==
  ASSUME RegistrationTypeOK, RegistrationInv, NEW h \in Handles,
         LoseConnection(h)
  PROVE  RegistrationInv'
PROOF
  <1>0. HandleOK(h) /\ ThreadOK(h) /\ CreateOK(h) /\ NodeOK(h) /\ HandlesInv
    BY DEF RegistrationInv, HandlesInv
  <1>1. /\ h = handles /\ earlier < h /\ process = "up"
        /\ server[h] = "live" /\ ~gone[h] /\ ~ExpiryAhead(h)
    BY <1>0, Linked DEF LoseConnection, Disconnect
  <1>2. /\ LifeKept
        /\ UNCHANGED <<server, gone, pc, toNotify, node, reported, ownNode>>
        /\ events' = [events EXCEPT ![h] = @ \o Lost(h)]
        /\ requests' = [requests EXCEPT ![h] = <<>>]
        /\ link' = [link EXCEPT ![h] = FALSE]
        /\ stray' = stray \cup (AllSent \cap {h})
    BY DEF LoseConnection, Disconnect, LifeKept, client, threads
  <1>3. /\ events \in [Handles -> Seq(Events)]
        /\ requests \in [Handles -> Seq(Answers)]
        /\ link \in [Handles -> BOOLEAN]
        /\ handles \in Nat /\ earlier \in Nat /\ h \in Nat
    BY DEF RegistrationTypeOK, SessionTypeOK, Events, Answers, Handles
  <1>4. requests'[h] = <<>> /\ link'[h] = FALSE
        /\ (h \in stray' <=> h \in stray \/ SentFrom(h))
    BY <1>2, <1>3 DEF AllSent, SentFrom
  <1>5. ~ExpiryAhead(h)' /\ (OkAhead(h)' <=> OkAhead(h)) /\ ExpiryLast(h)'
    BY <1>0, <1>1, <1>2, EventsLost DEF ThreadOK
  <1>6. ~OkAnswered(h)' /\ ~SentFrom(h)'
    BY <1>4 DEF OkAnswered, SentFrom
  <1>7. Expirable(h) /\ Expirable(h)'
    BY <1>1, <1>2 DEF Expirable
  <1>8. \A g \in Handles : g # h => Untouched(g)
    BY <1>2, <1>3 DEF Untouched
  <1>9. HandleOK(h)'
    BY <1>0, <1>1, <1>2, <1>3, <1>4 DEF HandleOK, LifeKept
  <1>10. ThreadOK(h)'
    BY <1>0, <1>1, <1>2, <1>5, <1>7 DEF ThreadOK, LifeKept
  <1>11. CreateOK(h)'
    <2>1. Fresh(h) => Fresh(h)'
      BY <1>2, <1>4 DEF Fresh, SentFrom
    <2>2. Len(requests'[h]) <= 1
      BY <1>4
    <2> QED BY <1>0, <1>2, <1>4, <1>6, <1>7, <2>1, <2>2 DEF CreateOK, LifeKept
  <1>12. NodeOK(h)'
    BY <1>0, <1>2, <1>4, <1>5, <1>6 DEF NodeOK
  <1>13. NodeInv'
    BY <1>2 DEF NodeInv, RegistrationInv
  <1> QED
    BY <1>2, <1>8, <1>9, <1>10, <1>11, <1>12, <1>13, OneHandle

(* The node goes with its session. *)
LEMMA SessionExpiresKeeps ==
  ASSUME RegistrationTypeOK, RegistrationInv, NEW h \in Handles,
         SessionExpires(h)
  PROVE  RegistrationInv'
PROOF
  <1>0. HandleOK(h) /\ ThreadOK(h) /\ CreateOK(h) /\ NodeOK(h) /\ HandlesInv
    BY DEF RegistrationInv, HandlesInv
  <1>1. h <= handles
    BY <1>0, Opened DEF SessionExpires, Expire
  <1>2. /\ LifeKept
        /\ UNCHANGED <<link, gone, pc, toNotify, events, requests, reported,
                       stray, ownNode>>
        /\ ~link[h]
        /\ server' = [server EXCEPT ![h] = "expired"]
        /\ node' = IF node = h THEN 0 ELSE node
    BY DEF SessionExpires, Expire, LifeKept, client, threads
  <1>3. /\ server \in [Handles -> {"none", "live", "expired"}]
        /\ handles \in Nat /\ earlier \in Nat /\ node \in 0 .. handles
        /\ handles \in 0 .. MaxHandles
        /\ \A g \in Handles : g \in Nat \ {0}
    BY DEF RegistrationTypeOK, SessionTypeOK, Handles
  <1>4. server'[h] = "expired" /\ node' # h
    BY <1>2, <1>3
  <1>5. /\ ExpiryAhead(h)' <=> ExpiryAhead(h)
        /\ ExpiryLast(h)' <=> ExpiryLast(h)
        /\ OnlyLosses(h)' <=> OnlyLosses(h)
        /\ SentFrom(h)' <=> SentFrom(h)
    BY <1>2, QueuesKept
  <1>7. (Expirable(h)' <=> Expirable(h)) /\ (Quiet(h)' <=> Quiet(h))
    BY <1>2, <1>5 DEF Expirable, Quiet
  <1>8. \A g \in Handles : g # h => Untouched(g)
    BY <1>2, <1>3 DEF Untouched
  <1>9. HandleOK(h)'
    BY <1>0, <1>1, <1>2, <1>3, <1>4, <1>7 DEF HandleOK, LifeKept
  <1>10. ThreadOK(h)'
    BY <1>0, <1>2, <1>5, <1>7 DEF ThreadOK, LifeKept
  <1>11. CreateOK(h)'
    BY <1>0, <1>2, <1>4, <1>5, <1>7 DEF CreateOK, LifeKept, Fresh
  <1>12. NodeOK(h)'
    BY <1>4 DEF NodeOK
  <1>13. NodeInv'
    <2>1. node # 0 => node \in Handles
      BY <1>3, SessionAssumption DEF Handles
    <2> QED BY <1>2, <1>3, <2>1 DEF NodeInv, RegistrationInv
  <1> QED
    BY <1>2, <1>8, <1>9, <1>10, <1>11, <1>12, <1>13, OneHandle

(* The client learns of an expiry only for the handle in use. *)
LEMMA LearnOfExpiryKeeps ==
  ASSUME RegistrationTypeOK, RegistrationInv, NEW h \in Handles,
         LearnOfExpiry(h)
  PROVE  RegistrationInv'
PROOF
  <1>0. HandleOK(h) /\ ThreadOK(h) /\ CreateOK(h) /\ NodeOK(h) /\ HandlesInv
    BY DEF RegistrationInv, HandlesInv
  <1>2. /\ LifeKept
        /\ UNCHANGED <<server, link, pc, toNotify, node, reported, stray,
                       ownNode>>
        /\ server[h] = "expired" /\ ~gone[h]
        /\ events' = [events EXCEPT ![h] = (@ \o <<"expired">>) \o Lost(h)]
        /\ requests' = [requests EXCEPT ![h] = <<>>]
        /\ gone' = [gone EXCEPT ![h] = TRUE]
    BY DEF LearnOfExpiry, LearnExpired, LifeKept, client, threads
  <1>3. /\ events \in [Handles -> Seq(Events)]
        /\ requests \in [Handles -> Seq(Answers)]
        /\ gone \in [Handles -> BOOLEAN]
        /\ handles \in Nat /\ earlier \in Nat /\ h \in Nat
    BY DEF RegistrationTypeOK, SessionTypeOK, Events, Answers, Handles
  <1>7. Expirable(h) /\ ~ExpiryAhead(h)
    BY <1>0, <1>2 DEF Expirable, ThreadOK
  <1>1. h = handles /\ earlier < h /\ process = "up" /\ ~link[h]
    <2>1. h <= handles
      BY <1>0, <1>2, Opened
    <2> QED BY <1>0, <1>2, <1>7, <2>1, InUse DEF HandleOK
  <1>4. requests'[h] = <<>> /\ gone'[h]
    BY <1>2, <1>3
  <1>5. ExpiryAhead(h)' /\ ExpiryLast(h)'
    BY <1>2, <1>7, ExpiryAnnounced
  <1>6. ~OkAnswered(h)' /\ ~SentFrom(h)' /\ Expirable(h)'
    BY <1>4, <1>5 DEF OkAnswered, SentFrom, Expirable
  <1>8. \A g \in Handles : g # h => Untouched(g)
    BY <1>2, <1>3 DEF Untouched
  <1>9. HandleOK(h)'
    BY <1>0, <1>1, <1>2, <1>3, <1>4 DEF HandleOK, LifeKept
  <1>10. ThreadOK(h)'
    BY <1>0, <1>2, <1>4, <1>5, <1>6, <1>7 DEF ThreadOK, LifeKept
  <1>11. CreateOK(h)'
    <2>1. Fresh(h) => Fresh(h)'
      BY <1>2, <1>4 DEF Fresh
    <2>2. Len(requests'[h]) <= 1
      BY <1>4
    <2> QED BY <1>0, <1>2, <1>4, <1>6, <1>7, <2>1, <2>2 DEF CreateOK, LifeKept
  <1>12. NodeOK(h)'
    BY <1>2 DEF NodeOK
  <1>13. NodeInv'
    BY <1>2 DEF NodeInv, RegistrationInv
  <1> QED
    BY <1>2, <1>8, <1>9, <1>10, <1>11, <1>12, <1>13, OneHandle

(* A session that has asked for its node does not meet a node of this      *)
(* process.                                                                *)
LEMMA TakeUpMeetsNobody ==
  ASSUME RegistrationTypeOK, RegistrationInv, NEW h \in Handles, TakeUp(h),
         server[h] = "live", server' = server, UNCHANGED earlier,
         SentFrom(h) \/ h \in stray,
         h = handles \/ h <= earlier
  PROVE  /\ NodeInv'
         /\ \A g \in Handles : g # h => (node' = g <=> node = g)
         /\ node = h => node' = h
         /\ node = 0 => node' = h
PROOF
  <1>1. HandlesInv /\ NodeInv /\ CreateOK(h)
    BY DEF RegistrationInv, HandlesInv
  <1>2. /\ handles \in Nat /\ earlier \in Nat /\ node \in Nat
        /\ \A g \in Handles : g \in Nat \ {0}
    BY DEF RegistrationTypeOK, SessionTypeOK, Handles
  <1>3. node # h
    BY <1>1 DEF CreateOK
  <1>4. ~(node > earlier /\ h > earlier)
    BY <1>1, <1>2, <1>3, NodeOfThisProcess
  <1> QED BY <1>1, <1>2, <1>3, <1>4 DEF TakeUp, NodeInv

(* The server that takes up a create meets no node of this process. *)
LEMMA ServerCreateKeeps ==
  ASSUME RegistrationTypeOK, RegistrationInv, NEW h \in Handles,
         NEW i \in DOMAIN requests[h], ServerCreate(h, i)
  PROVE  RegistrationInv'
PROOF
  <1>0. HandleOK(h) /\ ThreadOK(h) /\ CreateOK(h) /\ NodeOK(h) /\ HandlesInv
    BY DEF RegistrationInv, HandlesInv
  <1>1. /\ h = handles /\ earlier < h /\ process = "up"
        /\ server[h] = "live" /\ ~gone[h] /\ ~ExpiryAhead(h)
    BY <1>0, Linked DEF ServerCreate
  <1>2. /\ LifeKept
        /\ UNCHANGED <<events, server, link, gone, pc, toNotify, reported,
                       stray>>
        /\ link[h] /\ TakeUp(h)
        /\ requests' = [requests EXCEPT ![h][i] =
                          IF node = 0 THEN "ok" ELSE "exists"]
    BY DEF ServerCreate, LifeKept, sessionVars, client, network, threads
  <1>3. /\ requests \in [Handles -> Seq(Answers)]
        /\ handles \in Nat /\ earlier \in Nat /\ h \in Nat /\ 0 \notin Handles
    BY DEF RegistrationTypeOK, SessionTypeOK, Answers, Handles
  <1>4. /\ requests[h] # <<>> /\ SentFrom(h)
        /\ requests'[h] # <<>>
        /\ \A j \in DOMAIN requests'[h] :
             requests'[h][j] = IF node = 0 THEN "ok" ELSE "exists"
        /\ Len(requests'[h]) <= 1
    <2> DEFINE r == requests[h]
               x == IF node = 0 THEN "ok" ELSE "exists"
    <2>1. r \in Seq(Answers) /\ i \in DOMAIN r /\ Len(r) <= 1
      BY <1>0, <1>3 DEF CreateOK
    <2>2. requests'[h] = [r EXCEPT ![i] = x]
      BY <1>2, <1>3
    <2> HIDE DEF r, x
    <2>3. r # <<>>
      BY <2>1
    <2>4. DOMAIN r = {1} /\ Len(r) = 1
      BY <2>1, <2>3, OnlyOne
    <2>5. requests'[h][1] = x /\ DOMAIN requests'[h] = {1}
      BY <2>1, <2>2, <2>4
    <2>6. Len(requests'[h]) = 1
      BY <2>1, <2>2, <2>4
    <2>7. requests'[h] # <<>>
      <3>1. Len(<<>>) = 0 /\ 0 # 1
        BY EmptySeq
      <3> QED BY <2>6, <3>1, Zenon
    <2>8. i = 1 /\ r[i] = "sent"
      <3>1. FirstSent(h, 1)
        BY <2>1, <2>4 DEF ServerCreate
      <3> QED BY <2>1, <2>4, <3>1 DEF FirstSent, r
    <2>9. SentFrom(h)
      BY <2>1, <2>8 DEF SentFrom, r
    <2> QED BY <2>3, <2>5, <2>6, <2>7, <2>9 DEF r, x
  <1>5. /\ NodeInv'
        /\ \A g \in Handles : g # h => (node' = g <=> node = g)
        /\ node = h => node' = h
        /\ node = 0 => node' = h
    BY <1>1, <1>2, <1>4, TakeUpMeetsNobody DEF LifeKept
  <1>6. /\ ~SentFrom(h)'
        /\ OkAnswered(h)' => node = 0
    BY <1>4 DEF OkAnswered, SentFrom
  <1>7. Expirable(h) /\ Expirable(h)'
    BY <1>1, <1>2 DEF Expirable
  <1>a. /\ ExpiryAhead(h)' <=> ExpiryAhead(h)
        /\ ExpiryLast(h)' <=> ExpiryLast(h)
        /\ OkAhead(h)' <=> OkAhead(h)
    BY <1>2 DEF ExpiryAhead, ExpiryLast, OkAhead
  <1>8. \A g \in Handles : g # h => Untouched(g)
    BY <1>2, <1>3, <1>5 DEF Untouched
  <1>9. HandleOK(h)'
    BY <1>0, <1>1, <1>2, <1>3 DEF HandleOK, LifeKept
  <1>10. ThreadOK(h)'
    BY <1>0, <1>1, <1>2, <1>7, <1>a DEF ThreadOK, LifeKept
  <1>11. CreateOK(h)'
    BY <1>0, <1>2, <1>4, <1>6, <1>7 DEF CreateOK, Fresh, LifeKept
  <1>12. NodeOK(h)'
    BY <1>0, <1>2, <1>5, <1>6, <1>a DEF NodeOK
  <1> QED
    BY <1>2, <1>5, <1>8, <1>9, <1>10, <1>11, <1>12, OneHandle

(* A create that nobody waits for any more belongs to a session that has   *)
(* asked for nothing since.                                                *)
LEMMA StrayCreateKeeps ==
  ASSUME RegistrationTypeOK, RegistrationInv, NEW h \in Handles,
         StrayCreate(h)
  PROVE  RegistrationInv'
PROOF
  <1>0. /\ HandleOK(h) /\ ThreadOK(h) /\ CreateOK(h) /\ NodeOK(h)
        /\ HandlesInv /\ NodeInv
    BY DEF RegistrationInv, HandlesInv
  <1>1. h <= handles
    BY <1>0, Opened DEF StrayCreate
  <1>2. /\ LifeKept
        /\ UNCHANGED <<events, server, link, gone, pc, toNotify, reported,
                       requests>>
        /\ h \in stray /\ stray' = stray \ {h}
        /\ IF server[h] = "live" THEN TakeUp(h) ELSE UNCHANGED <<node, ownNode>>
    BY DEF StrayCreate, LifeKept, sessionVars, client, network, threads
  <1>3. handles \in Nat /\ earlier \in Nat /\ h \in Nat
    BY DEF RegistrationTypeOK, SessionTypeOK, Handles
  <1>5. /\ NodeInv'
        /\ \A g \in Handles : g # h => (node' = g <=> node = g)
        /\ node = h => node' = h
    <2>1. CASE server[h] = "live"
      <3>1. h = handles \/ h <= earlier
        BY <1>0, <1>1, <1>3, <2>1 DEF HandleOK
      <3> QED BY <1>2, <2>1, <3>1, TakeUpMeetsNobody DEF LifeKept
    <2>2. CASE server[h] # "live"
      BY <1>0, <1>2, <2>2 DEF NodeInv
    <2> QED BY <2>1, <2>2
  <1>a. /\ ExpiryAhead(h)' <=> ExpiryAhead(h)
        /\ ExpiryLast(h)' <=> ExpiryLast(h)
        /\ OnlyLosses(h)' <=> OnlyLosses(h)
        /\ OkAhead(h)' <=> OkAhead(h)
        /\ OkAnswered(h)' <=> OkAnswered(h)
        /\ SentFrom(h)' <=> SentFrom(h)
    BY <1>2, QueuesKept
  <1>4. requests[h] = <<>> /\ ~SentFrom(h)
    BY <1>0, <1>2, NothingQueued DEF CreateOK
  <1>7. (Expirable(h)' <=> Expirable(h)) /\ (Quiet(h)' <=> Quiet(h))
    BY <1>2, <1>a DEF Expirable, Quiet
  <1>8. \A g \in Handles : g # h => Untouched(g)
    BY <1>2, <1>5 DEF Untouched
  <1>9. HandleOK(h)'
    BY <1>0, <1>2, <1>7 DEF HandleOK, LifeKept
  <1>10. ThreadOK(h)'
    BY <1>0, <1>2, <1>7, <1>a DEF ThreadOK, LifeKept
  <1>11. CreateOK(h)'
    <2>1. Len(requests'[h]) <= 1
      BY <1>2, <1>4
    <2>2. h \notin stray'
      BY <1>2
    <2> QED BY <1>0, <1>2, <1>4, <1>7, <1>a, <2>1, <2>2
            DEF CreateOK, Fresh, LifeKept
  <1>12. NodeOK(h)'
    BY <1>0, <1>2, <1>5, <1>a DEF NodeOK
  <1> QED
    BY <1>2, <1>5, <1>8, <1>9, <1>10, <1>11, <1>12, OneHandle

-----------------------------------------------------------------------------
(* The threads *)

(* registerBookie asks for the node once in a session. *)
LEMMA CreateKeeps ==
  ASSUME RegistrationTypeOK, RegistrationInv, NEW h \in Handles, Create(h)
  PROVE  RegistrationInv'
PROOF
  <1>0. HandleOK(h) /\ ThreadOK(h) /\ CreateOK(h) /\ NodeOK(h) /\ HandlesInv
    BY DEF RegistrationInv, HandlesInv
  <1>1. pc[h] = "notify" /\ zk = h /\ promiseSet /\ ~gone[h] /\ Fresh(h)
    BY <1>0 DEF Create, Callback, CanCreate, ThreadOK, CreateOK
  <1>2. /\ LifeKept
        /\ UNCHANGED <<events, server, link, gone, node, reported, stray,
                       ownNode>>
        /\ pc' = [pc EXCEPT ![h] = AfterCallback(h)]
        /\ toNotify' = [toNotify EXCEPT ![h] = Tail(@)]
        /\ requests' = [requests EXCEPT ![h] = Append(@, "sent")]
    BY <1>1 DEF Create, Callback, LifeKept, client, network
  <1>3. /\ requests \in [Handles -> Seq(Answers)]
        /\ toNotify \in [Handles -> Seq(Listeners)]
        /\ pc \in [Handles -> {"idle", "notify", "restart"}]
        /\ toNotify[h] # <<>>
        /\ handles \in Nat /\ earlier \in Nat /\ h \in Nat
    BY <1>1 DEF RegistrationTypeOK, SessionTypeOK, Answers, Handles
  <1>4. h = handles /\ earlier < h /\ process = "up"
    <2>1. h <= handles
      BY <1>0, <1>1, Opened
    <2> QED BY <1>0, <1>1, <2>1, InUse DEF Expirable
  <1>5. pc'[h] = "idle" /\ Len(toNotify'[h]) <= 1
    <2>1. Len(toNotify[h]) = 1 /\ Tail(toNotify[h]) = <<>>
      BY <1>0, <1>3, OnlyOne DEF ThreadOK
    <2>2. toNotify'[h] = <<>>
      BY <1>2, <1>3, <2>1
    <2> QED BY <1>2, <1>3, <2>1, <2>2 DEF AfterCallback
  <1>6. /\ Len(requests'[h]) <= 1
        /\ ~OkAnswered(h)'
    <2>1. requests'[h] = <<"sent">>
      BY <1>1, <1>2, <1>3 DEF Fresh
    <2>2. /\ Len(<<"sent">>) = 1 /\ DOMAIN <<"sent">> = {1}
          /\ <<"sent">>[1] # "ok"
      OBVIOUS
    <2> QED BY <2>1, <2>2 DEF OkAnswered
  <1>7. Expirable(h) /\ Expirable(h)'
    BY <1>1, <1>2 DEF Expirable
  <1>a. /\ ExpiryAhead(h)' <=> ExpiryAhead(h)
        /\ ExpiryLast(h)' <=> ExpiryLast(h)
        /\ OkAhead(h)' <=> OkAhead(h)
    BY <1>2 DEF ExpiryAhead, ExpiryLast, OkAhead
  <1>8. \A g \in Handles : g # h => Untouched(g)
    BY <1>2, <1>3 DEF Untouched
  <1>9. HandleOK(h)'
    BY <1>0, <1>1, <1>2, <1>3, <1>4 DEF HandleOK, LifeKept
  <1>10. ThreadOK(h)'
    BY <1>0, <1>2, <1>5, <1>7, <1>a DEF ThreadOK, LifeKept
  <1>11. CreateOK(h)'
    BY <1>1, <1>2, <1>3, <1>4, <1>5, <1>6 DEF CreateOK, Fresh, LifeKept
  <1>12. NodeOK(h)'
    BY <1>0, <1>2, <1>6, <1>a DEF NodeOK
  <1>13. NodeInv'
    BY <1>2 DEF NodeInv, RegistrationInv
  <1> QED
    BY <1>2, <1>8, <1>9, <1>10, <1>11, <1>12, <1>13, OneHandle

(* What the thread takes next, when it is not the loss of a create, is for *)
(* the handle in use.                                                      *)
LEMMA NextIsInUse ==
  ASSUME RegistrationTypeOK, HandlesInv, NEW h \in Handles, NEW event,
         NextIs(h, event), event # "loss"
  PROVE  /\ pc[h] = "idle" /\ Expirable(h)
         /\ h = handles /\ earlier < h /\ process = "up"
         /\ ExpiryLast(h)'
         /\ OkAhead(h)' => OkAhead(h)
         /\ event = "ok" => OkAhead(h)
         /\ event = "expired" =>
              gone[h] /\ OnlyLosses(h)' /\ ~ExpiryAhead(h)'
         /\ event # "expired" => (ExpiryAhead(h)' <=> ExpiryAhead(h))
         /\ \A g \in Handles : g # h => events'[g] = events[g]
PROOF
  <1>1. /\ pc[h] = "idle" /\ events[h] # <<>> /\ Head(events[h]) = event
        /\ events' = [events EXCEPT ![h] = Tail(@)]
    BY DEF NextIs
  <1>2. ThreadOK(h)
    BY DEF HandlesInv
  <1>3. /\ ExpiryLast(h)'
        /\ OnlyLosses(h) => Head(events[h]) = "loss"
        /\ OkAhead(h)' => OkAhead(h)
        /\ event = "ok" => OkAhead(h)
        /\ event = "expired" =>
             ExpiryAhead(h) /\ OnlyLosses(h)' /\ ~ExpiryAhead(h)'
        /\ event # "expired" => (ExpiryAhead(h)' <=> ExpiryAhead(h))
    BY <1>1, <1>2, EventTaken DEF ThreadOK
  <1>4. Expirable(h)
    BY <1>1, <1>2, <1>3 DEF ThreadOK
  <1>5. h <= handles
    BY <1>1, Opened
  <1>6. events \in [Handles -> Seq(Events)]
    BY DEF RegistrationTypeOK, SessionTypeOK, Events
  <1> QED BY <1>1, <1>2, <1>3, <1>4, <1>5, <1>6, InUse DEF ThreadOK

(* The registration is logged for the session in use. *)
LEMMA CreatedKeeps ==
  ASSUME RegistrationTypeOK, RegistrationInv, NEW h \in Handles, Created(h)
  PROVE  RegistrationInv'
PROOF
  <1>0. HandleOK(h) /\ ThreadOK(h) /\ CreateOK(h) /\ NodeOK(h) /\ HandlesInv
    BY DEF RegistrationInv, HandlesInv
  <1>1. /\ LifeKept
        /\ UNCHANGED <<server, link, gone, pc, toNotify, requests, node, stray,
                       ownNode>>
        /\ NextIs(h, "ok") /\ reported' = h
    BY DEF Created, Success, LifeKept, client, network, threads
  <1>2. /\ pc[h] = "idle" /\ Expirable(h)
        /\ h = handles /\ earlier < h /\ process = "up"
        /\ ExpiryLast(h)' /\ OkAhead(h)
        /\ ExpiryAhead(h)' <=> ExpiryAhead(h)
        /\ \A g \in Handles : g # h => events'[g] = events[g]
    <2> DEFINE x == "ok"
    <2>1. NextIs(h, x) /\ x \notin {"loss", "expired"} /\ x = "ok"
      BY <1>1
    <2> HIDE DEF x
    <2> QED BY <1>0, <2>1, NextIsInUse
  <1>3. handles \in Nat /\ earlier \in Nat /\ h \in Nat
    BY DEF RegistrationTypeOK, SessionTypeOK, Handles
  <1>4. /\ OkAnswered(h)' <=> OkAnswered(h)
        /\ SentFrom(h)' <=> SentFrom(h)
    BY <1>1 DEF OkAnswered, SentFrom
  <1>7. Expirable(h)'
    BY <1>1, <1>2 DEF Expirable
  <1>8. \A g \in Handles : g # h => Untouched(g)
    BY <1>1, <1>2 DEF Untouched
  <1>9. HandleOK(h)'
    BY <1>0, <1>1, <1>2, <1>3 DEF HandleOK, LifeKept
  <1>10. ThreadOK(h)'
    BY <1>0, <1>1, <1>2, <1>7 DEF ThreadOK, LifeKept
  <1>11. CreateOK(h)'
    BY <1>0, <1>1, <1>2, <1>4, <1>7 DEF CreateOK, Fresh, LifeKept
  <1>12. NodeOK(h)'
    BY <1>0, <1>1, <1>2 DEF NodeOK
  <1>13. NodeInv'
    BY <1>1 DEF NodeInv, RegistrationInv
  <1> QED
    BY <1>1, <1>8, <1>9, <1>10, <1>11, <1>12, <1>13, OneHandle

(* A handle that is not the one in use, when the promise or zk_ changes.   *)
LEMMA NotInUse ==
  ASSUME RegistrationTypeOK, RegistrationInv, NEW g \in Handles,
         g # handles, Untouched(g), UNCHANGED <<process, handles, earlier>>
  PROVE  HandleOK(g)' /\ ThreadOK(g)' /\ CreateOK(g)' /\ NodeOK(g)'
PROOF
  <1>0. HandleOK(g) /\ ThreadOK(g) /\ CreateOK(g) /\ NodeOK(g)
    BY DEF RegistrationInv, HandlesInv
  <1>1. /\ handles \in Nat /\ earlier \in Nat /\ g \in Nat
    BY DEF RegistrationTypeOK, SessionTypeOK, Handles
  <1>2. g > handles \/ g < handles
    BY <1>1
  <1>3. pc[g] = "idle" /\ (g > handles \/ ~Expirable(g))
    BY <1>0, <1>2 DEF HandleOK, Quiet
  <1>4. /\ ExpiryAhead(g)' <=> ExpiryAhead(g)
        /\ ExpiryLast(g)' <=> ExpiryLast(g)
        /\ OnlyLosses(g)' <=> OnlyLosses(g)
        /\ OkAhead(g)' <=> OkAhead(g)
        /\ OkAnswered(g)' <=> OkAnswered(g)
        /\ SentFrom(g)' <=> SentFrom(g)
    BY QueuesKept DEF Untouched
  <1>5. Expirable(g)' <=> Expirable(g)
    BY <1>4 DEF Untouched, Expirable
  <1>6. Quiet(g)' <=> Quiet(g)
    BY DEF Untouched, Quiet
  <1>7. HandleOK(g)'
    BY <1>0, <1>5, <1>6 DEF Untouched, HandleOK
  <1>8. ThreadOK(g)'
    BY <1>0, <1>3, <1>4, <1>5 DEF Untouched, ThreadOK
  <1>9. CreateOK(g)'
    BY <1>0, <1>3, <1>4, <1>5 DEF Untouched, CreateOK, Fresh
  <1>10. NodeOK(g)'
    BY <1>0, <1>4 DEF Untouched, NodeOK
  <1> QED BY <1>7, <1>8, <1>9, <1>10

(* The first connection of a session makes its handle the one in zk_. *)
LEMMA HandleConnectedKeeps ==
  ASSUME RegistrationTypeOK, RegistrationInv, NEW h \in Handles,
         HandleConnected(h), UNCHANGED registrationVars
  PROVE  RegistrationInv'
PROOF
  <1>0. /\ HandleOK(h) /\ ThreadOK(h) /\ CreateOK(h) /\ NodeOK(h)
        /\ HandlesInv /\ LifeInv /\ PromiseInv
    BY DEF RegistrationInv, HandlesInv
  <1>1. /\ UNCHANGED <<process, handles, earlier, sessionListeners,
                       registering, server, link, gone, requests, node,
                       reported, stray, ownNode>>
        /\ NextIs(h, "connected") /\ zk' = h /\ promiseSet' = TRUE
    BY DEF HandleConnected, network, registrationVars
  <1>2. /\ pc[h] = "idle" /\ Expirable(h)
        /\ h = handles /\ earlier < h /\ process = "up"
        /\ ExpiryLast(h)' /\ (OkAhead(h)' => OkAhead(h))
        /\ ExpiryAhead(h)' <=> ExpiryAhead(h)
        /\ \A g \in Handles : g # h => events'[g] = events[g]
    <2> DEFINE x == "connected"
    <2>1. NextIs(h, x) /\ x \notin {"loss", "expired", "ok"}
      BY <1>1
    <2> HIDE DEF x
    <2> QED BY <1>0, <2>1, NextIsInUse
  <1>3. /\ handles \in Nat /\ earlier \in Nat /\ h \in Nat \ {0}
        /\ pc \in [Handles -> {"idle", "notify", "restart"}]
        /\ toNotify \in [Handles -> Seq(Listeners)]
    BY DEF RegistrationTypeOK, SessionTypeOK, Handles
  <1>4. /\ Len(toNotify'[h]) <= 1
        /\ pc'[h] = "idle" \/ (pc'[h] = "notify" /\ ~promiseSet)
        /\ \A g \in Handles : g # h => /\ pc'[g] = pc[g]
                                       /\ toNotify'[g] = toNotify[g]
    <2>1. CASE MustNotify
      BY <1>0, <1>3, <2>1 DEF HandleConnected, MustNotify, LifeInv
    <2>2. CASE ~MustNotify
      BY <1>0, <1>2, <2>2 DEF HandleConnected, ThreadOK
    <2> QED BY <2>1, <2>2
  <1>5. /\ OkAnswered(h)' <=> OkAnswered(h)
        /\ SentFrom(h)' <=> SentFrom(h)
    BY <1>1 DEF OkAnswered, SentFrom
  <1>7. Expirable(h)'
    BY <1>1, <1>2 DEF Expirable
  <1>8. \A g \in Handles : g # h => Untouched(g)
    BY <1>1, <1>2, <1>4 DEF Untouched
  <1>9. HandleOK(h)'
    BY <1>0, <1>1, <1>2, <1>3 DEF HandleOK
  <1>10. ThreadOK(h)'
    BY <1>0, <1>1, <1>2, <1>4, <1>7 DEF ThreadOK
  <1>11. CreateOK(h)'
    BY <1>0, <1>1, <1>2, <1>3, <1>4, <1>5 DEF CreateOK, Fresh
  <1>12. NodeOK(h)'
    BY <1>0, <1>1, <1>2, <1>5 DEF NodeOK
  <1>13. HandlesInv'
    BY <1>1, <1>2, <1>8, <1>9, <1>10, <1>11, <1>12, NotInUse DEF HandlesInv
  <1>14. NodeInv' /\ LifeInv' /\ PromiseInv'
    BY <1>0, <1>1, <1>2, <1>3
    DEF NodeInv, LifeInv, PromiseInv, RegistrationInv
  <1> QED BY <1>13, <1>14 DEF RegistrationInv

(* The handle whose thread hears of the expiry is the one in zk_; nothing  *)
(* more is heard from it but losses.                                       *)
LEMMA HandleExpiredKeeps ==
  ASSUME RegistrationTypeOK, RegistrationInv, NEW h \in Handles,
         HandleExpired(h), UNCHANGED registrationVars
  PROVE  RegistrationInv'
PROOF
  <1>0. /\ HandleOK(h) /\ ThreadOK(h) /\ CreateOK(h) /\ NodeOK(h)
        /\ HandlesInv /\ LifeInv
    BY DEF RegistrationInv, HandlesInv
  <1>1. /\ UNCHANGED <<process, handles, earlier, zk, sessionListeners,
                       registering, server, link, gone, toNotify, requests,
                       node, reported, stray, ownNode>>
        /\ NextIs(h, "expired") /\ promiseSet' = FALSE
        /\ pc' = [pc EXCEPT ![h] = "restart"]
    BY DEF HandleExpired, ResetPromise, network, registrationVars
  <1>2. /\ pc[h] = "idle" /\ Expirable(h)
        /\ h = handles /\ earlier < h /\ process = "up"
        /\ ExpiryLast(h)' /\ (OkAhead(h)' => OkAhead(h))
        /\ gone[h] /\ OnlyLosses(h)' /\ ~ExpiryAhead(h)'
        /\ \A g \in Handles : g # h => events'[g] = events[g]
    <2> DEFINE x == "expired"
    <2>1. NextIs(h, x) /\ x # "loss" /\ x = "expired"
      BY <1>1
    <2> HIDE DEF x
    <2> QED BY <1>0, <2>1, NextIsInUse
  <1>3. /\ handles \in Nat /\ earlier \in Nat /\ h \in Nat \ {0}
        /\ pc \in [Handles -> {"idle", "notify", "restart"}]
    BY DEF RegistrationTypeOK, SessionTypeOK, Handles
  <1>4. pc'[h] = "restart" /\ ~Expirable(h)'
    BY <1>1, <1>2, <1>3 DEF Expirable
  <1>5. /\ OkAnswered(h)' <=> OkAnswered(h)
        /\ SentFrom(h)' <=> SentFrom(h)
    BY <1>1 DEF OkAnswered, SentFrom
  <1>8. \A g \in Handles : g # h => Untouched(g)
    BY <1>1, <1>2, <1>3 DEF Untouched
  <1>9. HandleOK(h)'
    BY <1>0, <1>1, <1>2, <1>3 DEF HandleOK
  <1>10. ThreadOK(h)'
    BY <1>0, <1>1, <1>2, <1>4 DEF ThreadOK
  <1>11. CreateOK(h)'
    BY <1>0, <1>1, <1>2, <1>3, <1>4, <1>5 DEF CreateOK
  <1>12. NodeOK(h)'
    BY <1>0, <1>1, <1>2, <1>5 DEF NodeOK
  <1>13. HandlesInv'
    BY <1>1, <1>2, <1>8, <1>9, <1>10, <1>11, <1>12, NotInUse DEF HandlesInv
  <1>14. NodeInv' /\ LifeInv' /\ PromiseInv'
    BY <1>0, <1>1, <1>2
    DEF NodeInv, LifeInv, PromiseInv, RegistrationInv
  <1> QED BY <1>13, <1>14 DEF RegistrationInv

(* A step that changes none of the queues. *)
LEMMA QueuesStay ==
  ASSUME NEW g, UNCHANGED <<events, requests, gone, link>>
  PROVE  /\ ExpiryAhead(g)' <=> ExpiryAhead(g)
         /\ Expirable(g)' <=> Expirable(g)
         /\ ExpiryLast(g)' <=> ExpiryLast(g)
         /\ OnlyLosses(g)' <=> OnlyLosses(g)
         /\ OkAhead(g)' <=> OkAhead(g)
         /\ OkAnswered(g)' <=> OkAnswered(g)
         /\ SentFrom(g)' <=> SentFrom(g)
PROOF
  <1>1. events'[g] = events[g] /\ requests'[g] = requests[g]
    OBVIOUS
  <1> QED BY <1>1, QueuesKept DEF Expirable

(* The next handle is opened when the one before is done with. *)
LEMMA RestartKeeps ==
  ASSUME RegistrationTypeOK, RegistrationInv, NEW h \in Handles,
         Restart(h), UNCHANGED registrationVars
  PROVE  RegistrationInv'
PROOF
  <1>0. HandleOK(h) /\ ThreadOK(h) /\ HandlesInv /\ LifeInv /\ PromiseInv
    BY DEF RegistrationInv, HandlesInv
  <1>1. /\ UNCHANGED <<process, earlier, promiseSet, sessionListeners,
                       registering, server, link, gone, toNotify, events,
                       requests, node, reported, stray, ownNode>>
        /\ pc[h] = "restart" /\ pc' = [pc EXCEPT ![h] = "idle"]
        /\ OpenHandle
    BY DEF Restart, network, registrationVars
  <1>2. /\ handles \in Nat /\ earlier \in Nat /\ h \in Nat \ {0}
        /\ \A g \in Handles : g \in Nat
        /\ pc \in [Handles -> {"idle", "notify", "restart"}]
    BY DEF RegistrationTypeOK, SessionTypeOK, Handles
  <1>3. /\ ~Expirable(h) /\ ~promiseSet /\ gone[h]
        /\ h = handles /\ earlier < h /\ process = "up"
    <2>1. h <= handles
      BY <1>0, <1>1, Opened
    <2> QED BY <1>0, <1>1, <1>2, <2>1 DEF HandleOK, ThreadOK, Quiet, Expirable
  <1>4. server[h] = "expired"
    BY <1>0, <1>3 DEF HandleOK
  <1>5. handles' \in {handles, handles + 1}
    BY <1>1 DEF OpenHandle
  <1>6. ASSUME NEW g \in Handles
        PROVE  HandleOK(g)' /\ ThreadOK(g)' /\ CreateOK(g)' /\ NodeOK(g)'
    <2>0. HandleOK(g) /\ ThreadOK(g) /\ CreateOK(g) /\ NodeOK(g)
      BY DEF RegistrationInv, HandlesInv
    <2>1. /\ ExpiryAhead(g)' <=> ExpiryAhead(g)
          /\ Expirable(g)' <=> Expirable(g)
          /\ ExpiryLast(g)' <=> ExpiryLast(g)
          /\ OnlyLosses(g)' <=> OnlyLosses(g)
          /\ OkAhead(g)' <=> OkAhead(g)
          /\ OkAnswered(g)' <=> OkAnswered(g)
          /\ SentFrom(g)' <=> SentFrom(g)
      BY <1>1, QueuesStay
    <2>2. pc'[g] = "idle"
      <3>1. CASE g = h
        BY <1>1, <1>2, <3>1
      <3>2. CASE g # h
        BY <1>1, <1>2, <1>3, <2>0, <3>2 DEF HandleOK, Quiet
      <3> QED BY <3>1, <3>2
    <2>3. Quiet(g) => Quiet(g)'
      BY <1>1, <2>2 DEF Quiet
    <2>4. HandleOK(g)'
      <3>1. CASE g < h
        <4>1. g < handles /\ g < handles' /\ ~(g > handles') /\ g <= handles
          BY <1>2, <1>3, <1>5, <3>1
        <4>2. UNCHANGED <<process, earlier, server, link, gone, requests>>
          BY <1>1
        <4> QED BY <2>0, <2>1, <2>2, <2>3, <4>1, <4>2, Zenon DEF HandleOK
      <3>2. CASE g = h
        <4>1. /\ ~(h > handles') /\ h <= handles' /\ ~(h <= earlier')
              /\ process' = "up" /\ earlier' < h
          BY <1>1, <1>2, <1>3, <1>5
        <4>2. /\ server'[h] = "expired" /\ ~Expirable(h)' /\ pc'[h] = "idle"
          BY <1>1, <1>3, <1>4, <2>1, <2>2, <3>2
        <4>3. ~link'[h] /\ (gone'[h] => ~link'[h] /\ requests'[h] = <<>>)
          BY <1>0, <1>1, <1>3 DEF HandleOK
        <4> QED BY <3>2, <4>1, <4>2, <4>3 DEF HandleOK
      <3>3. CASE g > h
        <4>1. g > handles /\ ~(g < handles') /\ ~(g <= earlier)
          BY <1>2, <1>3, <1>5, <3>3
        <4> QED BY <1>1, <1>3, <2>0, <2>2, <2>3, <4>1 DEF HandleOK, Quiet
      <3> QED BY <1>2, <3>1, <3>2, <3>3
    <2>5. ThreadOK(g)'
      BY <1>1, <2>0, <2>1, <2>2 DEF ThreadOK
    <2>6. CreateOK(g)'
      <3>1. g > handles' => g > handles
        BY <1>2, <1>5
      <3> QED BY <1>1, <2>0, <2>1, <2>2, <3>1 DEF CreateOK, Fresh
    <2>7. NodeOK(g)'
      BY <1>1, <2>0, <2>1 DEF NodeOK
    <2> QED BY <2>4, <2>5, <2>6, <2>7
  <1>7. NodeInv' /\ LifeInv' /\ PromiseInv'
    BY <1>0, <1>1, <1>3 DEF NodeInv, LifeInv, PromiseInv, RegistrationInv
  <1> QED BY <1>6, <1>7 DEF HandlesInv, RegistrationInv

-----------------------------------------------------------------------------
(* The life of the process *)

(* Before a process is started all handles are those of earlier ones.      *)
LEMMA AllOver ==
  ASSUME RegistrationTypeOK, HandlesInv, NEW g \in Handles, process # "up"
  PROVE  /\ g <= handles => Quiet(g) /\ gone[g]
         /\ g > handles => Quiet(g) /\ ~gone[g] /\ server[g] = "none"
         /\ Quiet(g) => /\ ~ExpiryAhead(g) /\ ~OkAhead(g) /\ ~OkAnswered(g)
                        /\ ~SentFrom(g) /\ Len(requests[g]) <= 1
PROOF
  <1>1. Quiet(g) => Len(requests[g]) = 0
    BY DEF Quiet
  <1> QED BY <1>1, NothingQueued DEF HandlesInv, HandleOK, Quiet

(* A process that is built or started finds no handle of its own in use. *)
LEMMA BeforeStartKeeps ==
  ASSUME RegistrationTypeOK, RegistrationInv, Construct \/ Start
  PROVE  RegistrationInv'
PROOF
  <1>0. HandlesInv /\ LifeInv /\ PromiseInv
    BY DEF RegistrationInv
  <1>1. /\ UNCHANGED <<promiseSet, sessionListeners, registering, server, link,
                       gone, pc, toNotify, events, requests, node, reported,
                       stray, ownNode>>
        /\ process # "up"
        /\ handles' \in {handles, handles + 1} /\ earlier' = handles
    BY <1>0 DEF Construct, Start, Constructed, StartSession, OpenHandle,
                sessionVars, client, network, threads, LifeInv
  <1>2. /\ handles \in Nat /\ earlier \in Nat
        /\ \A g \in Handles : g \in Nat
    BY DEF RegistrationTypeOK, SessionTypeOK, Handles
  <1>3. ASSUME NEW g \in Handles
        PROVE  HandleOK(g)' /\ ThreadOK(g)' /\ CreateOK(g)' /\ NodeOK(g)'
    <2>0. HandleOK(g) /\ ThreadOK(g) /\ CreateOK(g) /\ NodeOK(g)
      BY DEF RegistrationInv, HandlesInv
    <2>1. /\ ExpiryAhead(g)' <=> ExpiryAhead(g)
          /\ Expirable(g)' <=> Expirable(g)
          /\ ExpiryLast(g)' <=> ExpiryLast(g)
          /\ OnlyLosses(g)' <=> OnlyLosses(g)
          /\ OkAhead(g)' <=> OkAhead(g)
          /\ OkAnswered(g)' <=> OkAnswered(g)
          /\ SentFrom(g)' <=> SentFrom(g)
      BY <1>1, QueuesStay
    <2>2. /\ g <= handles => Quiet(g) /\ gone[g] /\ ~Expirable(g)
          /\ g > handles => Quiet(g) /\ ~gone[g] /\ server[g] = "none"
          /\ Quiet(g)
      BY <1>0, <1>1, <1>2, AllOver DEF Expirable
    <2>3. Quiet(g)'
      BY <1>1, <2>2 DEF Quiet
    <2>4. HandleOK(g)'
      <3>1. CASE g <= handles
        <4>1. ~(g > handles') /\ ~(earlier' < g)
          BY <1>1, <1>2, <3>1
        <4> QED BY <1>1, <2>1, <2>2, <2>3, <3>1, <4>1 DEF HandleOK, Quiet
      <3>2. CASE g > handles
        <4>1. ~(g < handles') /\ ~(g <= earlier')
          BY <1>1, <1>2, <3>2
        <4>2. process' = "up" \/ ~(g <= handles')
          BY <1>2, <3>2 DEF Construct, Start, sessionVars, client
        <4>3. ~gone'[g] /\ server'[g] = "none" /\ ~link'[g]
          BY <1>1, <2>2, <3>2 DEF Quiet
        <4> QED BY <2>3, <4>1, <4>2, <4>3 DEF HandleOK
      <3> QED BY <1>2, <3>1, <3>2
    <2>5. ThreadOK(g)'
      BY <1>1, <2>0, <2>1, <2>2 DEF ThreadOK, Quiet
    <2>6. CreateOK(g)'
      <3>1. g > handles' => g > handles
        BY <1>1, <1>2
      <3> QED BY <1>1, <2>0, <2>1, <2>2, <3>1 DEF CreateOK, Fresh, Quiet
    <2>7. NodeOK(g)'
      BY <1>1, <2>0, <2>1 DEF NodeOK
    <2> QED BY <2>4, <2>5, <2>6, <2>7
  <1>4. NodeInv'
    BY <1>1 DEF NodeInv, RegistrationInv
  <1>5. LifeInv' /\ PromiseInv'
    BY <1>0, <1>1 DEF LifeInv, PromiseInv, Construct, Start, Constructed,
                      sessionVars, client
  <1> QED BY <1>3, <1>4, <1>5 DEF HandlesInv, RegistrationInv

(* The one listener registers itself before there can be a session.        *)
LEMMA RegisterKeeps ==
  ASSUME RegistrationTypeOK, RegistrationInv, NEW l \in Listeners, Register(l)
  PROVE  RegistrationInv'
PROOF
  <1>0. HandlesInv /\ LifeInv
    BY DEF RegistrationInv
  <1>1. /\ UNCHANGED <<process, handles, earlier, zk, promiseSet, server, link,
                       gone, pc, toNotify, events, requests, node, reported,
                       stray, ownNode>>
        /\ process # "off"
        /\ \A i \in DOMAIN sessionListeners : sessionListeners[i] # l
        /\ sessionListeners' = Append(sessionListeners, l)
        /\ registering' = [registering EXCEPT ![l] =
                             IF promiseSet THEN zk ELSE 0]
    BY DEF Register, RegisterListener, SessionReady, registrationVars, network
  <1>2. sessionListeners \in Seq(Listeners)
        /\ registering \in [Listeners -> 0 .. MaxHandles]
    BY DEF RegistrationTypeOK, SessionTypeOK
  <1>3. sessionListeners = <<>>
    <2> SUFFICES ASSUME sessionListeners # <<>> PROVE FALSE
      OBVIOUS
    <2>1. Head(sessionListeners) \in Listeners
          /\ Head(sessionListeners) = sessionListeners[1]
          /\ 1 \in DOMAIN sessionListeners
      BY <1>0, <1>2, OnlyOne DEF LifeInv
    <2> QED BY <1>1, <2>1, RegistrationAssumption
  <1>4. process # "up" /\ ~promiseSet
    BY <1>0, <1>3 DEF LifeInv
  <1>5. sessionListeners' = <<l>> /\ Len(sessionListeners') = 1
        /\ sessionListeners' # <<>>
    <2>1. sessionListeners' = <<l>>
      BY <1>1, <1>3
    <2> QED BY <2>1
  <1>6. \A m \in Listeners : registering'[m] = 0
    BY <1>0, <1>1, <1>2, <1>4 DEF LifeInv
  <1>7. LifeInv'
    BY <1>0, <1>1, <1>4, <1>5, <1>6 DEF LifeInv
  <1>8. HandlesInv'
    <2>1. ASSUME NEW g \in Handles
          PROVE  HandleOK(g)' /\ ThreadOK(g)' /\ CreateOK(g)' /\ NodeOK(g)'
      <3>1. /\ ExpiryAhead(g)' <=> ExpiryAhead(g)
            /\ Expirable(g)' <=> Expirable(g)
            /\ ExpiryLast(g)' <=> ExpiryLast(g)
            /\ OnlyLosses(g)' <=> OnlyLosses(g)
            /\ OkAhead(g)' <=> OkAhead(g)
            /\ OkAnswered(g)' <=> OkAnswered(g)
            /\ SentFrom(g)' <=> SentFrom(g)
        BY <1>1, QueuesStay
      <3>2. Quiet(g)' <=> Quiet(g)
        BY <1>1 DEF Quiet
      <3>3. HandleOK(g) /\ ThreadOK(g) /\ CreateOK(g) /\ NodeOK(g)
        BY <1>0 DEF HandlesInv
      <3>4. HandleOK(g)'
        BY <1>1, <3>1, <3>2, <3>3 DEF HandleOK
      <3>5. ThreadOK(g)' /\ CreateOK(g)' /\ NodeOK(g)'
        BY <1>1, <3>1, <3>3 DEF ThreadOK, CreateOK, Fresh, NodeOK
      <3> QED BY <3>4, <3>5
    <2> QED BY <2>1 DEF HandlesInv
  <1>9. NodeInv' /\ PromiseInv'
    BY <1>1 DEF NodeInv, PromiseInv, RegistrationInv
  <1> QED BY <1>7, <1>8, <1>9 DEF RegistrationInv

(* The end of a process leaves the node, and the creates that a server may *)
(* still take up, to the sessions on the servers.                          *)
LEMMA EndProcessKeeps ==
  ASSUME RegistrationTypeOK, RegistrationInv,
         NEW closed \in {0} \cup {h \in {zk} \cap Handles : link[h]},
         EndProcess(closed)
  PROVE  RegistrationInv'
PROOF
  <1>0. HandlesInv /\ NodeInv
    BY DEF RegistrationInv
  <1>1. /\ process' = "off" /\ zk' = 0 /\ promiseSet' = FALSE
        /\ sessionListeners' = <<>> /\ reported' = 0
        /\ registering' = [l \in Listeners |-> 0]
        /\ server' = [h \in Handles |-> IF h = closed THEN "expired"
                                                      ELSE server[h]]
        /\ node' = IF node = closed THEN 0 ELSE node
        /\ stray' = stray \cup AllSent
        /\ handles' = handles /\ earlier' = earlier /\ ownNode' = ownNode
        /\ \A h \in Handles :
             /\ link'[h] = FALSE /\ events'[h] = <<>> /\ requests'[h] = <<>>
             /\ pc'[h] = "idle" /\ toNotify'[h] = <<>>
             /\ gone'[h] = (h <= handles)
    BY DEF EndProcess
  <1>2. /\ handles \in Nat /\ earlier \in Nat /\ node \in 0 .. handles
        /\ handles \in 0 .. MaxHandles
        /\ \A g \in Handles : g \in Nat \ {0}
        /\ MaxHandles \in Nat
    BY SessionAssumption DEF RegistrationTypeOK, SessionTypeOK, Handles
  <1>3. closed \in Handles => closed <= handles
    BY <1>0, <1>2, Opened
  <1>4. ASSUME NEW g \in Handles
        PROVE  HandleOK(g)' /\ ThreadOK(g)' /\ CreateOK(g)' /\ NodeOK(g)'
    <2>0. HandleOK(g) /\ CreateOK(g)
      BY <1>0 DEF HandlesInv
    <2>1. /\ ~ExpiryAhead(g)' /\ ~OkAhead(g)' /\ ExpiryLast(g)'
          /\ OnlyLosses(g)' /\ ~OkAnswered(g)' /\ ~SentFrom(g)'
          /\ Len(requests'[g]) <= 1 /\ Len(toNotify'[g]) <= 1
      <3>1. events'[g] = <<>> /\ requests'[g] = <<>> /\ toNotify'[g] = <<>>
        BY <1>1
      <3>2. Len(requests'[g]) = 0 /\ Len(toNotify'[g]) = 0
        BY <3>1
      <3>3. DOMAIN events'[g] = {} /\ DOMAIN requests'[g] = {}
        BY <3>1
      <3> QED BY <3>2, <3>3 DEF ExpiryAhead, OkAhead, ExpiryLast, OnlyLosses,
                                OkAnswered, SentFrom
    <2>2. Quiet(g)'
      BY <1>1 DEF Quiet
    <2>3. gone'[g] <=> g <= handles
      BY <1>1
    <2>4. server'[g] = IF g = closed THEN "expired" ELSE server[g]
      BY <1>1
    <2>5. HandleOK(g)'
      BY <1>1, <1>2, <1>3, <2>0, <2>1, <2>2, <2>3, <2>4
      DEF HandleOK, Expirable, Quiet
    <2>6. ThreadOK(g)'
      BY <1>1, <2>1 DEF ThreadOK
    <2>7. node' = g => node = g
      BY <1>1, <1>2
    <2>8. g \in stray' <=> g \in stray \/ SentFrom(g)
      BY <1>1 DEF AllSent, SentFrom
    <2>9. CreateOK(g)'
      <3>1. g > handles => Fresh(g) /\ ~SentFrom(g)
        BY <2>0, NothingQueued DEF CreateOK, Fresh
      <3>2. g <= handles \/ g > handles
        BY <1>2
      <3> QED BY <1>1, <2>0, <2>1, <2>3, <2>7, <2>8, <3>1, <3>2
              DEF CreateOK, Fresh, Expirable
    <2>10. NodeOK(g)'
      BY <1>1, <1>2, <2>1 DEF NodeOK
    <2> QED BY <2>5, <2>6, <2>9, <2>10
  <1>5. NodeInv'
    <2>1. node # 0 => node \in Handles
      BY <1>2 DEF Handles
    <2> QED BY <1>0, <1>1, <2>1 DEF NodeInv
  <1>6. LifeInv' /\ PromiseInv'
    <2>1. Len(sessionListeners') = 0
      BY <1>1
    <2> QED BY <1>1, <2>1 DEF LifeInv, PromiseInv
  <1> QED BY <1>4, <1>5, <1>6 DEF HandlesInv, RegistrationInv

-----------------------------------------------------------------------------
(* The theorems *)

(* Every step keeps the inductive invariant. *)
LEMMA RegistrationStep ==
  ASSUME RegistrationTypeOK, RegistrationInv, [Next]_vars
  PROVE  RegistrationInv'
PROOF
  <1>1. CASE UNCHANGED vars
    BY <1>1
    DEF vars, registrationVars, sessionVars, client, network, threads,
        RegistrationInv, LifeInv, PromiseInv, NodeInv, HandlesInv, HandleOK,
        ThreadOK, CreateOK, NodeOK, Quiet, Fresh, Expirable, ExpiryAhead,
        ExpiryLast, OnlyLosses, OkAhead, OkAnswered, SentFrom
  <1>2. ASSUME Exit \/ EndProcess(0) PROVE RegistrationInv'
    BY <1>2, EndProcessKeeps DEF Exit
  <1>3. ASSUME NEW h \in Handles, HandleEvent(h) PROVE RegistrationInv'
    BY <1>3, HandleConnectedKeeps, HandleExpiredKeeps, RestartKeeps
    DEF HandleEvent
  <1> QED
    BY <1>1, <1>2, <1>3, BeforeStartKeeps, RegisterKeeps, CreateKeeps,
       CreatedKeeps, ServerCreateKeeps, StrayCreateKeeps, ReplyKeeps,
       ReconnectKeeps, LoseConnectionKeeps, SessionExpiresKeeps,
       LearnOfExpiryKeeps
    DEF Next, End, CreateRefused, CreateFailed

(* Before the first process nothing is opened, asked for or registered. *)
LEMMA RegistrationInitially ==
  ASSUME Init
  PROVE  RegistrationTypeOK /\ RegistrationInv
PROOF
  <1>1. SessionTypeOK
    BY SessionTypeInit DEF Init
  <1>2. /\ handles = 0 /\ node = 0 /\ reported = 0 /\ earlier = 0
        /\ stray = {} /\ ownNode = FALSE /\ process = "off" /\ zk = 0
        /\ promiseSet = FALSE /\ sessionListeners = <<>>
        /\ registering = [l \in Listeners |-> 0]
        /\ requests = [h \in Handles |-> <<>>]
        /\ \A h \in Handles :
             /\ requests[h] = <<>> /\ events[h] = <<>> /\ toNotify[h] = <<>>
             /\ pc[h] = "idle" /\ ~link[h] /\ ~gone[h] /\ server[h] = "none"
        /\ \A h \in Handles : h \in Nat \ {0}
    BY SessionAssumption DEF Init, SessionInit, Handles
  <1>3. RegistrationTypeOK
    <2>1. requests \in [Handles -> Seq({"sent", "ok", "exists"})]
      BY <1>2
    <2>2. 0 \in 0 .. 0 /\ FALSE \in BOOLEAN
      OBVIOUS
    <2> QED BY <1>1, <1>2, <2>1, <2>2 DEF RegistrationTypeOK
  <1>4. ASSUME NEW h \in Handles
        PROVE  HandleOK(h) /\ ThreadOK(h) /\ CreateOK(h) /\ NodeOK(h)
    <2>1. Len(requests[h]) = 0 /\ Len(toNotify[h]) = 0
      BY <1>2
    <2>2. /\ ~ExpiryAhead(h) /\ ~OkAhead(h) /\ ExpiryLast(h)
          /\ OnlyLosses(h) /\ ~OkAnswered(h) /\ ~SentFrom(h)
      BY <1>2, NothingQueued
    <2>3. Quiet(h) /\ Fresh(h) /\ h > handles
      BY <1>2 DEF Quiet, Fresh
    <2> QED BY <1>2, <2>1, <2>2, <2>3
            DEF HandleOK, ThreadOK, CreateOK, NodeOK, Expirable
  <1>5. LifeInv /\ PromiseInv /\ NodeInv
    <2>1. Len(sessionListeners) = 0
      BY <1>2
    <2> QED BY <1>2, <2>1 DEF LifeInv, PromiseInv, NodeInv
  <1> QED BY <1>3, <1>4, <1>5 DEF HandlesInv, RegistrationInv

(* The inductive invariant holds throughout. *)
LEMMA RegistrationInvariant ==
  Spec => [](RegistrationTypeOK /\ RegistrationInv)
PROOF
  <1>1. Init => RegistrationTypeOK /\ RegistrationInv
    BY RegistrationInitially
  <1>2. RegistrationTypeOK /\ RegistrationInv /\ [Next]_vars
          => (RegistrationTypeOK /\ RegistrationInv)'
    BY RegistrationTypeStep, RegistrationStep DEF RegistrationInv
  <1> QED BY <1>1, <1>2, PTL DEF Spec

(* Over any number of processes and sessions every variable keeps its      *)
(* type.                                                                   *)
THEOREM RegistrationTypeCorrect == Spec => []RegistrationTypeOK
PROOF
  BY RegistrationInvariant, PTL

(* The process never ends because of a node it created itself.  It follows *)
(* from NodeInv: a node belongs to a live session, this process has only   *)
(* one session that lives, and that one asks for its node once.            *)
THEOREM TheProcessNeverMeetsItself == Spec => []NeverMeetsItself
PROOF
  <1>1. RegistrationInv => NeverMeetsItself
    BY DEF RegistrationInv, NodeInv, NeverMeetsItself
  <1> QED BY <1>1, RegistrationInvariant, PTL

(* "Registered bookie" is logged for a session only when the node is that  *)
(* session's, and the node stays while the session lives.                  *)
THEOREM TheReportedNodeIsThere == Spec => []ReportedNodeIsThere
PROOF
  <1>1. RegistrationTypeOK /\ RegistrationInv => ReportedNodeIsThere
    <2> SUFFICES ASSUME RegistrationTypeOK, RegistrationInv, reported # 0,
                        server[reported] = "live"
                 PROVE  node = reported
      BY DEF ReportedNodeIsThere
    <2>1. reported \in Handles
      BY SessionAssumption DEF RegistrationTypeOK, SessionTypeOK, Handles
    <2> QED BY <2>1 DEF RegistrationInv, HandlesInv, NodeOK
  <1> QED BY <1>1, RegistrationInvariant, PTL

(* create runs only on the thread that delivers its completion: the        *)
(* listener is never called by the thread that registers it, and a thread  *)
(* that tells of a session is the thread of the handle in zk_.             *)
THEOREM CreateStaysOnItsThread == Spec => []CreateOnItsThread
PROOF
  <1>1. RegistrationInv => CreateOnItsThread
    BY DEF RegistrationInv, LifeInv, HandlesInv, ThreadOK, CreateOnItsThread
  <1> QED BY <1>1, RegistrationInvariant, PTL
=============================================================================
