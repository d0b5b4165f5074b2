-------------------------- MODULE ZooKeeperProofs --------------------------
(***************************************************************************)
(* A listener hears of each session at most once, for any number of        *)
(* listeners, handles and reconnections.                                   *)
(***************************************************************************)
EXTENDS ZooKeeper, SequenceTheorems, TLAPS

(* The handle's session has expired and its thread has seen that: no event *)
(* will ever reach it again.                                               *)
Over(h) == gone[h] /\ events[h] = <<>>

(* Only the handle opened last is in use.                                  *)
OneCurrent ==
  /\ zk \in {0, handles}
  /\ zk = 0 => handles = 0 \/ (Over(handles) /\ pc[handles] = "idle")
  /\ \A h \in Handles :
       /\ h < handles => Over(h) /\ pc[h] = "idle"
       /\ h > handles => /\ server[h] = "none"
                         /\ ~gone[h]
                         /\ events[h] = <<>>
                         /\ pc[h] = "idle"
       /\ pc[h] = "restart" => Over(h) /\ ~promiseSet
       /\ \A i \in DOMAIN events[h] :
            events[h][i] = "expired" => i = Len(events[h]) /\ gone[h]

Registered(l) == \E i \in DOMAIN sessionListeners : sessionListeners[i] = l

ToCall(l, h) == \E i \in DOMAIN toNotify[h] : toNotify[h][i] = l

(* The listener has been called for the session of h, or is about to be.   *)
Told(l, h) == notified[l][h] > 0 \/ ToCall(l, h) \/ registering[l] = h

(* The promise was fulfilled for the session of h.                         *)
Passed(h) == (promiseSet /\ zk = h) \/ Over(h)

NoRepeat(s) == \A i, j \in DOMAIN s : s[i] = s[j] => i = j

(* A call that was made, is queued or is under way excludes the other two. *)
OneCall(l, h) ==
  /\ notified[l][h] <= 1
  /\ ToCall(l, h) => notified[l][h] = 0 /\ registering[l] # h
  /\ registering[l] = h => notified[l][h] = 0
  /\ Told(l, h) => Passed(h) /\ Registered(l)

CalledOnce ==
  /\ NoRepeat(sessionListeners)
  /\ \A h \in Handles : NoRepeat(toNotify[h])
  /\ \A l \in Listeners, h \in Handles : OneCall(l, h)

-----------------------------------------------------------------------------
(* Types *)

(* One listener fewer to call, and none left when the thread is idle.      *)
LEMMA CallbackTypes ==
  ASSUME SessionTypeOK, NEW h \in Handles, Callback(h)
  PROVE  /\ Head(toNotify[h]) \in Listeners
         /\ Tail(toNotify[h]) \in Seq(Listeners)
         /\ AfterCallback(h) = "notify" <=> (Tail(toNotify[h]) # <<>>)
         /\ AfterCallback(h) \in {"idle", "notify"}
PROOF
  <1> DEFINE s == toNotify[h]
  <1>1. s \in Seq(Listeners) /\ s # <<>>
    BY DEF SessionTypeOK, Callback
  <1>2. /\ Head(s) \in Listeners
        /\ Tail(s) \in Seq(Listeners)
        /\ Len(s) \in Nat
        /\ Len(Tail(s)) = Len(s) - 1
        /\ Len(s) # 0
    BY <1>1
  <1>3. Tail(s) # <<>> => Len(Tail(s)) \in Nat \ {0}
    BY <1>2, EmptySeq
  <1>4. Tail(s) = <<>> => Len(Tail(s)) = 0
    BY EmptySeq
  <1>5. Len(s) = 1 <=> Tail(s) = <<>>
    BY <1>2, <1>3, <1>4
  <1> QED BY <1>2, <1>5 DEF AfterCallback

(* A thread that takes its next event leaves the others in line.           *)
LEMMA NextIsTypes ==
  ASSUME SessionTypeOK, NEW h \in Handles, NEW event, NextIs(h, event)
  PROVE  /\ events[h] # <<>>
         /\ events' = [events EXCEPT ![h] = Tail(events[h])]
         /\ events' \in [Handles -> Seq({"connected", "expired"} \cup Completions)]
PROOF
  <1>1. events[h] # <<>> /\ events' = [events EXCEPT ![h] = Tail(events[h])]
    BY DEF NextIs
  <1>2. Tail(events[h]) \in Seq({"connected", "expired"} \cup Completions)
    BY <1>1 DEF SessionTypeOK
  <1> QED BY <1>1, <1>2 DEF SessionTypeOK

(* The client starts with its types and keeps them.                        *)
LEMMA SessionTypeInit ==
  ASSUME SessionInit
  PROVE  SessionTypeOK
PROOF
  <1> USE SessionAssumption
  <1>1. /\ sessionListeners \in Seq(Listeners)
        /\ events \in [Handles -> Seq({"connected", "expired"} \cup Completions)]
        /\ toNotify \in [Handles -> Seq(Listeners)]
    BY DEF SessionInit
  <1>2. notified \in [Listeners -> [Handles -> Nat]]
    BY DEF SessionInit
  <1>3. registering \in [Listeners -> 0 .. MaxHandles]
    BY DEF SessionInit
  <1>4. /\ server \in [Handles -> {"none", "live", "expired"}]
        /\ link \in [Handles -> BOOLEAN]
        /\ gone \in [Handles -> BOOLEAN]
        /\ pc \in [Handles -> {"idle", "notify", "restart"}]
    BY DEF SessionInit
  <1>5. \A h \in Handles : pc[h] = "notify" <=> toNotify[h] # <<>>
    BY DEF SessionInit
  <1>6. /\ handles \in 0 .. MaxHandles
        /\ zk \in 0 .. MaxHandles
        /\ promiseSet \in BOOLEAN
    <2>1. handles = 0 /\ zk = 0 /\ promiseSet = FALSE
      BY DEF SessionInit
    <2>2. 0 \in 0 .. MaxHandles
      BY DEF SessionAssumption
    <2> QED BY <2>1, <2>2
  <1> QED BY <1>1, <1>2, <1>3, <1>4, <1>5, <1>6 DEF SessionTypeOK

(* Every step of the client keeps the types. *)
LEMMA SessionTypeStep ==
  ASSUME SessionTypeOK, [SessionNext]_sessionVars
  PROVE  SessionTypeOK'
PROOF
  <1> USE SessionAssumption
  <1>1. CASE StartSession
    BY <1>1 DEF StartSession, OpenHandle, network, threads, SessionTypeOK
  <1>2. ASSUME NEW l \in Listeners, RegisterListener(l)
        PROVE  SessionTypeOK'
    <2>1. sessionListeners' \in Seq(Listeners)
      BY <1>2 DEF RegisterListener, SessionTypeOK
    <2>2. registering' \in [Listeners -> 0 .. MaxHandles]
      BY <1>2 DEF RegisterListener, SessionTypeOK
    <2> QED BY <1>2, <2>1, <2>2 DEF RegisterListener, network, SessionTypeOK
  <1>3. ASSUME NEW l \in Listeners, CallDirect(l)
        PROVE  SessionTypeOK'
    <2>1. registering[l] \in Handles
      BY <1>3 DEF CallDirect, SessionTypeOK, Handles
    <2>2. notified[l][registering[l]] \in Nat /\ notified[l] \in [Handles -> Nat]
      BY <2>1 DEF SessionTypeOK
    <2>3. notified' \in [Listeners -> [Handles -> Nat]]
      BY <1>3, <2>1, <2>2 DEF CallDirect, SessionTypeOK
    <2>4. registering' \in [Listeners -> 0 .. MaxHandles]
      BY <1>3 DEF CallDirect, SessionTypeOK
    <2> QED BY <1>3, <2>3, <2>4 DEF CallDirect, client, network, SessionTypeOK
  <1>4. ASSUME NEW h \in Handles, HandleConnected(h)
        PROVE  SessionTypeOK'
    <2>1. events' \in [Handles -> Seq({"connected", "expired"} \cup Completions)]
      BY <1>4, NextIsTypes DEF HandleConnected
    <2>2. zk' \in 0 .. MaxHandles
      BY <1>4 DEF HandleConnected, Handles
    <2>3. CASE MustNotify
      BY <1>4, <2>1, <2>2, <2>3
         DEF HandleConnected, MustNotify, network, SessionTypeOK
    <2>4. CASE ~MustNotify
      BY <1>4, <2>1, <2>2, <2>4 DEF HandleConnected, network, SessionTypeOK
    <2> QED BY <2>3, <2>4
  <1>5. ASSUME NEW h \in Handles, Callback(h)
        PROVE  SessionTypeOK'
    <2>1. /\ toNotify' \in [Handles -> Seq(Listeners)]
          /\ pc' \in [Handles -> {"idle", "notify", "restart"}]
          /\ \A g \in Handles : pc'[g] = "notify" <=> toNotify'[g] # <<>>
      BY <1>5, CallbackTypes DEF Callback, SessionTypeOK
    <2> DEFINE l == Head(toNotify[h])
    <2>2. l \in Listeners /\ notified[l] \in [Handles -> Nat]
      BY <1>5, CallbackTypes DEF SessionTypeOK
    <2>3. notified' \in [Listeners -> [Handles -> Nat]]
      BY SMTT(30), <1>5, <2>2 DEF Callback, SessionTypeOK
    <2> QED BY <1>5, <2>1, <2>3 DEF Callback, client, network, SessionTypeOK
  <1>6. ASSUME NEW h \in Handles, HandleExpired(h)
        PROVE  SessionTypeOK'
    <2>1. events' \in [Handles -> Seq({"connected", "expired"} \cup Completions)]
      BY <1>6, NextIsTypes DEF HandleExpired
    <2> QED BY <1>6, <2>1
            DEF HandleExpired, NextIs, ResetPromise, network, SessionTypeOK
  <1>7. ASSUME NEW h \in Handles, Restart(h)
        PROVE  SessionTypeOK'
    BY <1>7 DEF Restart, OpenHandle, network, SessionTypeOK
  <1>8. ASSUME NEW h \in Handles, Connect(h)
        PROVE  SessionTypeOK'
    <2>1. Append(events[h], "connected")
            \in Seq({"connected", "expired"} \cup Completions)
      BY DEF SessionTypeOK
    <2> QED BY <1>8, <2>1 DEF Connect, client, threads, SessionTypeOK
  <1>9. ASSUME NEW h \in Handles, Disconnect(h), UNCHANGED events
        PROVE  SessionTypeOK'
    BY <1>9 DEF Disconnect, client, threads, SessionTypeOK
  <1>10. ASSUME NEW h \in Handles, Expire(h)
         PROVE  SessionTypeOK'
    BY <1>10 DEF Expire, client, threads, SessionTypeOK
  <1>11. ASSUME NEW h \in Handles, LearnExpired(h),
                events' = [events EXCEPT ![h] = Append(@, "expired")]
         PROVE  SessionTypeOK'
    <2>1. Append(events[h], "expired")
            \in Seq({"connected", "expired"} \cup Completions)
      BY DEF SessionTypeOK
    <2> QED BY <1>11, <2>1 DEF LearnExpired, client, threads, SessionTypeOK
  <1>12. CASE UNCHANGED sessionVars
    BY <1>12 DEF sessionVars, client, network, threads, SessionTypeOK
  <1> QED
    BY <1>1, <1>2, <1>3, <1>4, <1>5, <1>6, <1>7, <1>8, <1>9, <1>10, <1>11,
       <1>12 DEF SessionNext

(* Every variable of the client keeps its type.                            *)
THEOREM SessionTypeCorrect == SessionSpec => []SessionTypeOK
PROOF
  <1>1. SessionInit => SessionTypeOK
    BY SessionTypeInit
  <1>2. SessionTypeOK /\ [SessionNext]_sessionVars => SessionTypeOK'
    BY SessionTypeStep
  <1> QED BY <1>1, <1>2, PTL DEF SessionSpec

-----------------------------------------------------------------------------
(* One handle is in use *)

(* A handle with an event in line, or whose thread is busy, is the one     *)
(* opened last.                                                            *)
LEMMA BusyIsCurrent ==
  ASSUME SessionTypeOK, OneCurrent, NEW h \in Handles,
         events[h] # <<>> \/ pc[h] # "idle"
  PROVE  h = handles
PROOF
  <1>1. h \in Nat /\ handles \in Nat
    BY SessionAssumption DEF SessionTypeOK, Handles, SessionAssumption
  <1>2. ~(h < handles) /\ ~(h > handles)
    BY DEF OneCurrent, Over
  <1> QED BY <1>1, <1>2

(* A handle that was opened and may still connect is the one in zk_.       *)
LEMMA OpenIsCurrent ==
  ASSUME SessionTypeOK, OneCurrent, NEW h \in Handles, ~Over(h),
         events[h] # <<>> \/ (~gone[h] /\ h <= handles)
                         \/ (~gone[h] /\ server[h] # "none")
  PROVE  h = handles /\ zk = handles /\ zk # 0
PROOF
  <1>1. h \in Nat \ {0} /\ handles \in Nat
    BY SessionAssumption DEF SessionTypeOK, Handles, SessionAssumption
  <1>2. ~(h < handles)
    BY DEF OneCurrent
  <1>3. ~(h > handles)
    BY <1>1 DEF OneCurrent
  <1>4. h = handles
    BY <1>1, <1>2, <1>3
  <1>5. zk # 0
    BY <1>1, <1>4 DEF OneCurrent
  <1> QED BY <1>4, <1>5 DEF OneCurrent

(* Taking the first event moves the others up by one.                      *)
LEMMA TailOfEvents ==
  ASSUME SessionTypeOK, NEW h \in Handles, events[h] # <<>>
  PROVE  /\ Len(events[h]) \in Nat \ {0}
         /\ Len(Tail(events[h])) = Len(events[h]) - 1
         /\ Head(events[h]) = events[h][1]
         /\ DOMAIN events[h] = 1 .. Len(events[h])
         /\ DOMAIN Tail(events[h]) = 1 .. Len(Tail(events[h]))
         /\ \A i \in DOMAIN Tail(events[h]) :
              /\ Tail(events[h])[i] = events[h][i + 1]
              /\ i + 1 \in DOMAIN events[h]
PROOF
  <1> DEFINE s == events[h]
             T == {"connected", "expired"} \cup Completions
  <1>1. s \in Seq(T) /\ s # <<>>
    BY DEF SessionTypeOK
  <1> HIDE DEF s, T
  <1>2. /\ Len(s) \in Nat \ {0}
        /\ Len(Tail(s)) = Len(s) - 1
        /\ Head(s) = s[1]
        /\ DOMAIN s = 1 .. Len(s)
        /\ DOMAIN Tail(s) = 1 .. Len(Tail(s))
        /\ \A i \in 1 .. Len(Tail(s)) : Tail(s)[i] = s[i + 1]
    BY <1>1, EmptySeq
  <1>3. \A i \in 1 .. Len(Tail(s)) : i + 1 \in 1 .. Len(s)
    BY <1>2
  <1> QED BY <1>2, <1>3 DEF s

(* A step of the handle in use keeps it in use.                            *)
LEMMA CurrentStays ==
  ASSUME SessionTypeOK, OneCurrent, NEW h \in Handles, h = handles,
         handles' = handles, zk' = handles, zk # 0,
         \A g \in Handles \ {h} : /\ server'[g] = server[g]
                                  /\ gone'[g] = gone[g]
                                  /\ events'[g] = events[g]
                                  /\ pc'[g] = pc[g],
         pc'[h] = "restart" => Over(h)' /\ ~promiseSet',
         \A i \in DOMAIN events'[h] :
           events'[h][i] = "expired" => i = Len(events'[h]) /\ gone'[h]
  PROVE  OneCurrent'
PROOF
  <1>1. handles \in Nat /\ ~(handles < handles) /\ ~(handles > handles)
    BY SessionAssumption DEF SessionTypeOK, SessionAssumption
  <1>2. \A g \in Handles \ {h} : pc[g] = "idle"
    BY BusyIsCurrent
  <1>3. zk' \in {0, handles'} /\ zk' # 0
    BY DEF OneCurrent
  <1>4. ASSUME NEW g \in Handles
        PROVE  g < handles' => Over(g)' /\ pc'[g] = "idle"
    BY <1>1 DEF OneCurrent, Over
  <1>5. ASSUME NEW g \in Handles
        PROVE  g > handles' => /\ server'[g] = "none"
                               /\ ~gone'[g]
                               /\ events'[g] = <<>>
                               /\ pc'[g] = "idle"
    BY <1>1 DEF OneCurrent
  <1>6. ASSUME NEW g \in Handles
        PROVE  pc'[g] = "restart" => Over(g)' /\ ~promiseSet'
    BY <1>2
  <1>7. ASSUME NEW g \in Handles, NEW i \in DOMAIN events'[g],
               events'[g][i] = "expired"
        PROVE  i = Len(events'[g]) /\ gone'[g]
    BY <1>7 DEF OneCurrent
  <1> QED BY <1>3, <1>4, <1>5, <1>6, <1>7 DEF OneCurrent

(* A step leaves one handle in use.                                        *)
LEMMA OneCurrentStep ==
  ASSUME SessionTypeOK, OneCurrent, [SessionNext]_sessionVars
  PROVE  OneCurrent'
PROOF
  <1>0. /\ handles \in 0 .. MaxHandles /\ MaxHandles \in Nat
        /\ events \in [Handles -> Seq({"connected", "expired"} \cup Completions)]
        /\ pc \in [Handles -> {"idle", "notify", "restart"}]
        /\ gone \in [Handles -> BOOLEAN]
        /\ server \in [Handles -> {"none", "live", "expired"}]
    BY SessionAssumption DEF SessionTypeOK, SessionAssumption
  <1>1. CASE StartSession
    <2>1. handles = 0 \/ (Over(handles) /\ pc[handles] = "idle")
      BY <1>1 DEF StartSession, OneCurrent
    <2>2. CASE zk' = 0 /\ UNCHANGED handles
      BY <1>1, <2>1, <2>2
         DEF StartSession, network, threads, OneCurrent, Over
    <2>3. CASE handles' = handles + 1 /\ zk' = handles'
      <3>1. ASSUME NEW h \in Handles, h < handles'
            PROVE  Over(h) /\ pc[h] = "idle"
        <4>1. h < handles \/ (h = handles /\ handles # 0)
          BY <1>0, <2>3, <3>1 DEF Handles
        <4> QED BY <2>1, <4>1 DEF OneCurrent
      <3>2. \A h \in Handles : h > handles' => h > handles
        BY <1>0, <2>3 DEF Handles
      <3>3. handles' # 0
        BY <1>0, <2>3
      <3> QED BY <1>1, <2>3, <3>1, <3>2, <3>3
              DEF StartSession, network, threads, OneCurrent, Over
    <2> QED BY <1>1, <2>2, <2>3 DEF StartSession, OpenHandle
  <1>2. ASSUME NEW l \in Listeners, RegisterListener(l) \/ CallDirect(l)
        PROVE  OneCurrent'
    BY <1>2 DEF RegisterListener, CallDirect, client, network, OneCurrent, Over
  <1>3. ASSUME NEW h \in Handles, HandleConnected(h)
        PROVE  OneCurrent'
    <2>1. /\ events[h] # <<>> /\ pc[h] = "idle"
          /\ events' = [events EXCEPT ![h] = Tail(events[h])]
      BY <1>3 DEF HandleConnected, NextIs
    <2>2. h = handles /\ zk = handles /\ zk # 0
      BY <2>1, OpenIsCurrent DEF Over
    <2>3. /\ pc' \in [Handles -> {"idle", "notify", "restart"}]
          /\ pc'[h] # "restart"
          /\ \A g \in Handles \ {h} : pc'[g] = pc[g] /\ events'[g] = events[g]
      BY <1>0, <1>3, <2>1 DEF HandleConnected
    <2>4. \A i \in DOMAIN events'[h] :
            events'[h][i] = "expired" => i = Len(events'[h]) /\ gone[h]
      <3> SUFFICES ASSUME NEW i \in DOMAIN Tail(events[h]),
                          Tail(events[h])[i] = "expired"
                   PROVE  i = Len(Tail(events[h])) /\ gone[h]
        BY <1>0, <2>1
      <3>1. i + 1 = Len(events[h]) /\ gone[h]
        BY <2>1, TailOfEvents DEF OneCurrent
      <3> QED BY <2>1, <3>1, TailOfEvents
    <2>5. UNCHANGED <<handles, server, gone>> /\ zk' = h
      BY <1>3 DEF HandleConnected, network
    <2> QED BY <2>2, <2>3, <2>4, <2>5, CurrentStays
  <1>4. ASSUME NEW h \in Handles, Callback(h)
        PROVE  OneCurrent'
    <2>1. pc[h] = "notify"
      BY <1>4 DEF Callback
    <2>2. h = handles
      BY <2>1, BusyIsCurrent
    <2>3. zk = handles /\ zk # 0
      BY <1>0, <2>1, <2>2 DEF OneCurrent, Handles
    <2>4. AfterCallback(h) \in {"idle", "notify"}
      BY <1>4, CallbackTypes
    <2>5. /\ pc'[h] # "restart"
          /\ \A g \in Handles \ {h} : pc'[g] = pc[g]
      BY <1>0, <1>4, <2>4 DEF Callback
    <2>6. UNCHANGED <<handles, zk, promiseSet, server, gone, events>>
      BY <1>4 DEF Callback, client, network
    <2>7. \A i \in DOMAIN events'[h] :
            events'[h][i] = "expired" => i = Len(events'[h]) /\ gone'[h]
      BY <2>6 DEF OneCurrent
    <2> QED BY <2>2, <2>3, <2>5, <2>6, <2>7, CurrentStays
  <1>5. ASSUME NEW h \in Handles, HandleExpired(h)
        PROVE  OneCurrent'
    <2>1. /\ events[h] # <<>> /\ Head(events[h]) = "expired"
          /\ events' = [events EXCEPT ![h] = Tail(events[h])]
      BY <1>5 DEF HandleExpired, NextIs
    <2>2. h = handles /\ zk = handles /\ zk # 0
      BY <2>1, OpenIsCurrent DEF Over
    <2>3. 1 = Len(events[h]) /\ gone[h]
      <3>1. 1 \in DOMAIN events[h] /\ events[h][1] = "expired"
        BY <2>1, TailOfEvents
      <3> QED BY <3>1 DEF OneCurrent
    <2>4. Tail(events[h]) = <<>>
      <3>1. Len(Tail(events[h])) = 0
        BY <2>1, <2>3, TailOfEvents
      <3>2. Tail(events[h]) \in Seq({"connected", "expired"} \cup Completions)
        BY <1>0, <2>1
      <3> QED BY <3>1, <3>2, EmptySeq
    <2>5. /\ events'[h] = <<>>
          /\ \A g \in Handles \ {h} : pc'[g] = pc[g] /\ events'[g] = events[g]
      BY <1>0, <1>5, <2>1, <2>4 DEF HandleExpired
    <2>6. UNCHANGED <<handles, zk, server, gone>> /\ ~promiseSet'
      BY <1>5 DEF HandleExpired, network, ResetPromise
    <2>7. Over(h)'
      BY <2>3, <2>5, <2>6 DEF Over
    <2>8. DOMAIN events'[h] = {}
      BY <2>5
    <2> QED BY <2>2, <2>5, <2>6, <2>7, <2>8, CurrentStays
  <1>6. ASSUME NEW h \in Handles, Restart(h)
        PROVE  OneCurrent'
    <2>1. pc[h] = "restart" /\ Over(h) /\ ~promiseSet
      BY <1>6 DEF Restart, OneCurrent
    <2>2. h = handles
      BY <2>1, BusyIsCurrent
    <2>3. /\ pc'[h] = "idle"
          /\ \A g \in Handles \ {h} : pc'[g] = pc[g] /\ pc[g] = "idle"
      BY <1>0, <1>6, <2>2, BusyIsCurrent DEF Restart
    <2>4. UNCHANGED <<promiseSet, server, gone, events>>
      BY <1>6 DEF Restart, network
    <2>5. CASE zk' = 0 /\ UNCHANGED handles
      BY SMTT(30), <1>0, <2>1, <2>2, <2>3, <2>4, <2>5 DEF OneCurrent, Over, Handles
    <2>6. CASE handles' = handles + 1 /\ zk' = handles'
      <3>1. ASSUME NEW g \in Handles, g < handles'
            PROVE  Over(g)
        <4>1. g < handles \/ g = h
          BY <1>0, <2>2, <2>6, <3>1 DEF Handles
        <4> QED BY <2>1, <4>1 DEF OneCurrent
      <3>2. \A g \in Handles : g > handles' => g > handles
        BY <1>0, <2>6 DEF Handles
      <3>3. handles' # 0
        BY <1>0, <2>6
      <3> QED BY <2>3, <2>4, <2>6, <3>1, <3>2, <3>3 DEF OneCurrent, Over
    <2> QED BY <1>6, <2>5, <2>6 DEF Restart, OpenHandle
  <1>7. ASSUME NEW h \in Handles, Connect(h)
        PROVE  OneCurrent'
    <2>1. h <= handles /\ ~gone[h]
      BY <1>7 DEF Connect
    <2>2. h = handles /\ zk = handles /\ zk # 0
      BY <2>1, OpenIsCurrent DEF Over
    <2>3. \A i \in DOMAIN Append(events[h], "connected") :
            Append(events[h], "connected")[i] # "expired"
      BY <1>0, <2>1 DEF OneCurrent
    <2>4. /\ events'[h] = Append(events[h], "connected")
          /\ \A g \in Handles \ {h} :
               server'[g] = server[g] /\ events'[g] = events[g]
      BY <1>0, <1>7 DEF Connect
    <2>5. pc[h] # "restart"
      BY <2>1 DEF OneCurrent, Over
    <2>6. UNCHANGED <<handles, zk, promiseSet, gone, pc>>
      BY <1>7 DEF Connect, client, threads
    <2> QED BY <2>2, <2>3, <2>4, <2>5, <2>6, CurrentStays
  <1>8. ASSUME NEW h \in Handles, Disconnect(h), UNCHANGED events
        PROVE  OneCurrent'
    BY <1>8 DEF Disconnect, client, threads, OneCurrent, Over
  <1>9. ASSUME NEW h \in Handles, Expire(h)
        PROVE  OneCurrent'
    <2>1. \A g \in Handles : server[g] = "none" => server'[g] = "none"
      BY <1>0, <1>9 DEF Expire
    <2> QED BY <1>9, <2>1 DEF Expire, client, threads, OneCurrent, Over
  <1>10. ASSUME NEW h \in Handles, LearnExpired(h),
                events' = [events EXCEPT ![h] = Append(@, "expired")]
         PROVE  OneCurrent'
    <2>1. server[h] = "expired" /\ ~gone[h]
      BY <1>10 DEF LearnExpired
    <2>2. h = handles /\ zk = handles /\ zk # 0
      BY <2>1, OpenIsCurrent DEF Over
    <2>3. \A i \in DOMAIN Append(events[h], "expired") :
            Append(events[h], "expired")[i] = "expired"
              => i = Len(Append(events[h], "expired"))
      BY <1>0, <2>1 DEF OneCurrent
    <2>4. /\ events'[h] = Append(events[h], "expired") /\ gone'[h]
          /\ \A g \in Handles \ {h} :
               gone'[g] = gone[g] /\ events'[g] = events[g]
      BY <1>0, <1>10 DEF LearnExpired
    <2>5. pc[h] # "restart"
      BY <2>1 DEF OneCurrent, Over
    <2>6. UNCHANGED <<handles, zk, promiseSet, server, pc>>
      BY <1>10 DEF LearnExpired, client, threads
    <2> QED BY <2>2, <2>3, <2>4, <2>5, <2>6, CurrentStays
  <1>11. CASE UNCHANGED sessionVars
    BY <1>11 DEF sessionVars, client, network, threads, OneCurrent, Over
  <1> QED
    BY <1>1, <1>2, <1>3, <1>4, <1>5, <1>6, <1>7, <1>8, <1>9, <1>10, <1>11
       DEF SessionNext

-----------------------------------------------------------------------------
(* One call per session *)

(* After a call its listener is no longer among those to call.             *)
LEMMA TailOfCalls ==
  ASSUME SessionTypeOK, NEW h \in Handles, toNotify[h] # <<>>,
         NoRepeat(toNotify[h])
  PROVE  /\ NoRepeat(Tail(toNotify[h]))
         /\ ToCall(Head(toNotify[h]), h)
         /\ \A i \in DOMAIN Tail(toNotify[h]) :
              /\ ToCall(Tail(toNotify[h])[i], h)
              /\ Tail(toNotify[h])[i] # Head(toNotify[h])
PROOF
  <1> DEFINE s == toNotify[h]
             t == Tail(toNotify[h])
  <1>1. s \in Seq(Listeners) /\ s # <<>>
    BY DEF SessionTypeOK
  <1>2. /\ Len(s) \in Nat \ {0} /\ Len(t) = Len(s) - 1
        /\ DOMAIN s = 1 .. Len(s) /\ DOMAIN t = 1 .. Len(t)
        /\ Head(s) = s[1]
        /\ \A i \in 1 .. Len(t) : t[i] = s[i + 1]
    BY <1>1, EmptySeq
  <1>3. \A i \in DOMAIN t : i + 1 \in DOMAIN s /\ i \in Nat /\ i + 1 # 1
    BY <1>2
  <1>4. 1 \in DOMAIN s
    BY <1>2
  <1>5. NoRepeat(s)
    OBVIOUS
  <1> HIDE DEF s, t
  <1>6. NoRepeat(t)
    BY <1>2, <1>3, <1>5 DEF NoRepeat
  <1>7. \A i \in DOMAIN t : t[i] # Head(s)
    BY <1>2, <1>3, <1>4, <1>5 DEF NoRepeat
  <1> QED BY <1>2, <1>3, <1>4, <1>6, <1>7 DEF s, t, ToCall

(* A step that calls and registers nobody needs only to keep what was      *)
(* passed.                                                                 *)
LEMMA CallsStay ==
  ASSUME CalledOnce,
         UNCHANGED <<sessionListeners, toNotify, registering, notified>>,
         \A h \in Handles : Passed(h) => Passed(h)'
  PROVE  CalledOnce'
PROOF
  <1>1. ASSUME NEW l \in Listeners, NEW h \in Handles
        PROVE  OneCall(l, h)'
    BY DEF CalledOnce, OneCall, ToCall, Told, Registered
  <1> QED BY <1>1 DEF CalledOnce, NoRepeat

(* A step keeps what excludes a second call.                               *)
LEMMA CalledOnceStep ==
  ASSUME SessionTypeOK, OneCurrent, CalledOnce, [SessionNext]_sessionVars
  PROVE  CalledOnce'
PROOF
  <1>0. /\ zk \in 0 .. MaxHandles
        /\ events \in [Handles -> Seq({"connected", "expired"} \cup Completions)]
        /\ toNotify \in [Handles -> Seq(Listeners)]
        /\ registering \in [Listeners -> 0 .. MaxHandles]
        /\ notified \in [Listeners -> [Handles -> Nat]]
        /\ sessionListeners \in Seq(Listeners)
        /\ \A h \in Handles : h \in Nat \ {0}
    BY SessionAssumption DEF SessionTypeOK, Handles, SessionAssumption
  <1>1. CASE StartSession
    BY <1>0, <1>1, CallsStay
       DEF StartSession, network, threads, Passed, Over
  <1>2. ASSUME NEW l \in Listeners, RegisterListener(l)
        PROVE  CalledOnce'
    <2>1. ~Registered(l)
      BY <1>2 DEF RegisterListener, Registered
    <2>2. /\ sessionListeners' = Append(sessionListeners, l)
          /\ UNCHANGED <<zk, promiseSet, gone, events, toNotify, notified>>
          /\ registering' = [registering EXCEPT ![l] = IF promiseSet THEN zk ELSE 0]
      BY <1>2 DEF RegisterListener, SessionReady, network
    <2>3. NoRepeat(sessionListeners')
      BY <1>0, <2>1, <2>2 DEF CalledOnce, NoRepeat, Registered
    <2>4. ASSUME NEW k \in Listeners, Registered(k) \/ k = l
          PROVE  Registered(k)'
      <3>1. /\ Len(sessionListeners) \in Nat
            /\ DOMAIN sessionListeners = 1 .. Len(sessionListeners)
            /\ DOMAIN sessionListeners' = 1 .. Len(sessionListeners) + 1
            /\ sessionListeners'[Len(sessionListeners) + 1] = l
            /\ \A i \in 1 .. Len(sessionListeners) :
                 sessionListeners'[i] = sessionListeners[i]
        BY <1>0, <2>2
      <3>2. CASE k = l
        <4>1. Len(sessionListeners) + 1 \in DOMAIN sessionListeners'
          BY <3>1
        <4> QED BY <3>1, <3>2, <4>1 DEF Registered
      <3>3. CASE Registered(k)
        BY <3>1, <3>3 DEF Registered
      <3> QED BY <2>4, <3>2, <3>3
    <2>5. ASSUME NEW k \in Listeners, NEW h \in Handles
          PROVE  OneCall(k, h)'
      <3>1. OneCall(k, h)
        BY DEF CalledOnce
      <3>2. UNCHANGED <<ToCall(k, h), Passed(h), notified[k][h]>>
        BY <2>2 DEF ToCall, Passed, Over
      <3>3. CASE k = l
        <4>1. ~Told(k, h)
          BY <2>1, <3>1, <3>3 DEF OneCall
        <4>2. notified[k][h] = 0 /\ ~ToCall(k, h)
          BY <1>0, <4>1 DEF Told
        <4>3. registering'[k] = h => Passed(h)
          BY <1>0, <2>2, <3>3 DEF Passed
        <4> QED BY <2>4, <3>2, <3>3, <4>2, <4>3 DEF OneCall, Told
      <3>4. CASE k # l
        <4>1. registering'[k] = registering[k]
          BY <1>0, <2>2, <3>4
        <4> QED BY <2>4, <3>1, <3>2, <4>1 DEF OneCall, Told
      <3> QED BY <3>3, <3>4
    <2> QED BY <2>2, <2>3, <2>5 DEF CalledOnce, NoRepeat
  <1>3. ASSUME NEW l \in Listeners, CallDirect(l)
        PROVE  CalledOnce'
    <2> DEFINE r == registering[l]
    <2>1. r \in Handles
      BY <1>0, <1>3, SessionAssumption DEF CallDirect, Handles, SessionAssumption
    <2>2. /\ UNCHANGED <<zk, promiseSet, sessionListeners, gone, events, toNotify>>
          /\ registering' = [registering EXCEPT ![l] = 0]
          /\ notified' = [notified EXCEPT ![l][r] = @ + 1]
      BY <1>3 DEF CallDirect, client, network
    <2>3. ASSUME NEW k \in Listeners, NEW h \in Handles
          PROVE  OneCall(k, h)'
      <3>1. OneCall(k, h)
        BY DEF CalledOnce
      <3>2. UNCHANGED <<ToCall(k, h), Passed(h), Registered(k)>>
        BY <2>2 DEF ToCall, Passed, Over, Registered
      <3>3. CASE k = l /\ h = r
        <4>1. notified[k][h] = 0 /\ ~ToCall(k, h) /\ Told(k, h)
          BY <3>1, <3>3 DEF OneCall, Told
        <4>2. notified'[k][h] = 1 /\ registering'[k] = 0
          BY <1>0, <2>2, <3>3, <4>1
        <4> QED BY <1>0, <3>1, <3>2, <4>1, <4>2 DEF OneCall, Told
      <3>4. CASE ~(k = l /\ h = r)
        <4>1. /\ notified'[k][h] = notified[k][h]
              /\ registering'[k] = h => registering[k] = h
          BY <1>0, <2>2, <3>4
        <4> QED BY <3>1, <3>2, <4>1 DEF OneCall, Told
      <3> QED BY <3>3, <3>4
    <2> QED BY <2>2, <2>3 DEF CalledOnce, NoRepeat
  <1>4. ASSUME NEW h \in Handles, HandleConnected(h)
        PROVE  CalledOnce'
    <2>1. /\ events[h] # <<>>
          /\ events' = [events EXCEPT ![h] = Tail(events[h])]
          /\ UNCHANGED <<sessionListeners, gone, registering, notified>>
          /\ zk' = h /\ promiseSet'
      BY <1>4 DEF HandleConnected, NextIs, network
    <2>2. zk = h
      BY <2>1, OpenIsCurrent DEF Over
    <2>3. \A g \in Handles : Passed(g) => Passed(g)'
      BY <1>0, <2>1, <2>2 DEF Passed, Over
    <2>4. CASE ~MustNotify
      <3>1. UNCHANGED toNotify
        BY <1>4, <2>4 DEF HandleConnected
      <3> QED BY <2>1, <2>3, <3>1, CallsStay
    <2>5. CASE MustNotify
      <3>1. ~Passed(h)
        BY <2>1, <2>5 DEF Passed, Over, MustNotify
      <3>2. toNotify' = [toNotify EXCEPT ![h] = sessionListeners]
        BY <1>4, <2>5 DEF HandleConnected
      <3>3. ASSUME NEW l \in Listeners, NEW g \in Handles
            PROVE  OneCall(l, g)'
        <4>1. OneCall(l, g) /\ (Registered(l) <=> Registered(l)')
          BY <2>1 DEF CalledOnce, Registered
        <4>2. CASE g = h
          <5>1. ~Told(l, h)
            BY <3>1, <4>1, <4>2 DEF OneCall
          <5>2. notified[l][h] = 0 /\ registering[l] # h
            BY <1>0, <5>1 DEF Told
          <5>3. ToCall(l, h)' => Registered(l)
            BY <1>0, <3>2 DEF ToCall, Registered
          <5>4. Passed(h)'
            BY <2>1 DEF Passed
          <5> QED BY <2>1, <4>1, <4>2, <5>2, <5>3, <5>4 DEF OneCall, Told
        <4>3. CASE g # h
          <5>1. ToCall(l, g)' <=> ToCall(l, g)
            BY <1>0, <3>2, <4>3 DEF ToCall
          <5> QED BY <2>1, <2>3, <4>1, <5>1 DEF OneCall, Told
        <4> QED BY <4>2, <4>3
      <3>4. \A g \in Handles : NoRepeat(toNotify'[g])
        BY <1>0, <3>2 DEF CalledOnce
      <3> QED BY <2>1, <3>3, <3>4 DEF CalledOnce, NoRepeat
    <2> QED BY <2>4, <2>5
  <1>5. ASSUME NEW h \in Handles, Callback(h)
        PROVE  CalledOnce'
    <2>0. PICK n \in Listeners : n = Head(toNotify[h])
      BY <1>5, CallbackTypes
    <2>1. toNotify[h] # <<>> /\ NoRepeat(toNotify[h])
      BY <1>5 DEF Callback, SessionTypeOK, CalledOnce
    <2>2. /\ UNCHANGED <<zk, promiseSet, sessionListeners, gone, events, registering>>
          /\ toNotify' = [toNotify EXCEPT ![h] = Tail(toNotify[h])]
          /\ notified' = [notified EXCEPT ![n][h] = @ + 1]
      BY <1>5, <2>0 DEF Callback, client, network
    <2>3. /\ toNotify'[h] = Tail(toNotify[h])
          /\ \A g \in Handles \ {h} : toNotify'[g] = toNotify[g]
      BY <1>0, <2>2
    <2>4. ToCall(n, h) /\ ~ToCall(n, h)' /\ NoRepeat(toNotify'[h])
      <3>1. /\ ToCall(n, h) /\ NoRepeat(toNotify'[h])
            /\ \A i \in DOMAIN toNotify'[h] : toNotify'[h][i] # n
        BY <2>0, <2>1, <2>3, TailOfCalls
      <3> QED BY <3>1 DEF ToCall
    <2>5. \A l \in Listeners, g \in Handles : ToCall(l, g)' => ToCall(l, g)
      <3>1. \A i \in DOMAIN toNotify'[h] : ToCall(toNotify'[h][i], h)
        BY <2>0, <2>1, <2>3, TailOfCalls
      <3>2. \A l \in Listeners : ToCall(l, h)' => ToCall(l, h)
        BY <3>1 DEF ToCall
      <3>3. \A l \in Listeners, g \in Handles \ {h} : ToCall(l, g)' => ToCall(l, g)
        BY <2>3 DEF ToCall
      <3> QED BY <3>2, <3>3
    <2>6. ASSUME NEW l \in Listeners, NEW g \in Handles
          PROVE  OneCall(l, g)'
      <3>1. OneCall(l, g)
        BY DEF CalledOnce
      <3>2. UNCHANGED <<Passed(g), Registered(l), registering[l]>>
        BY <2>2 DEF Passed, Over, Registered
      <3>3. CASE l = n /\ g = h
        <4>1. notified[l][g] = 0 /\ registering[l] # g /\ Told(l, g)
          BY <2>4, <3>1, <3>3 DEF OneCall, Told
        <4>2. notified'[l][g] = 1 /\ ~ToCall(l, g)'
          BY <1>0, <2>2, <2>4, <3>3, <4>1
        <4> QED BY <3>1, <3>2, <4>1, <4>2 DEF OneCall, Told
      <3>4. CASE ~(l = n /\ g = h)
        <4>1. notified'[l][g] = notified[l][g]
          BY <1>0, <2>2, <3>4
        <4> QED BY <2>5, <3>1, <3>2, <4>1 DEF OneCall, Told
      <3> QED BY <3>3, <3>4
    <2>7. \A g \in Handles : NoRepeat(toNotify'[g])
      BY <2>3, <2>4 DEF CalledOnce
    <2> QED BY <2>2, <2>6, <2>7 DEF CalledOnce, NoRepeat
  <1>6. ASSUME NEW h \in Handles, HandleExpired(h)
        PROVE  CalledOnce'
    <2>1. /\ events[h] # <<>>
          /\ events' = [events EXCEPT ![h] = Tail(events[h])]
          /\ UNCHANGED <<zk, gone, sessionListeners, toNotify, registering, notified>>
      BY <1>6 DEF HandleExpired, NextIs, network
    <2>2. zk = h
      BY <2>1, OpenIsCurrent DEF Over
    <2>3. OneCurrent'
      BY OneCurrentStep, <1>6 DEF SessionNext
    <2>4. pc'[h] = "restart"
      BY <1>6 DEF HandleExpired, SessionTypeOK
    <2>5. Over(h)'
      BY <2>3, <2>4 DEF OneCurrent
    <2>6. \A g \in Handles : Passed(g) => Passed(g)'
      BY <1>0, <2>1, <2>2, <2>5 DEF Passed, Over
    <2> QED BY <2>1, <2>6, CallsStay
  <1>7. ASSUME NEW h \in Handles, Restart(h)
        PROVE  CalledOnce'
    <2>1. ~promiseSet
      BY <1>7 DEF Restart, OneCurrent
    <2> QED BY <1>7, <2>1, CallsStay DEF Restart, network, Passed, Over
  <1>8. ASSUME NEW h \in Handles, Connect(h)
        PROVE  CalledOnce'
    <2>1. \A g \in Handles : Over(g) => Over(g)'
      BY <1>0, <1>8 DEF Connect, Over
    <2> QED BY <1>8, <2>1, CallsStay DEF Connect, client, threads, Passed
  <1>9. ASSUME NEW h \in Handles, Disconnect(h), UNCHANGED events
        PROVE  CalledOnce'
    BY <1>9, CallsStay DEF Disconnect, client, threads, Passed, Over
  <1>10. ASSUME NEW h \in Handles, Expire(h)
         PROVE  CalledOnce'
    BY <1>10, CallsStay DEF Expire, client, threads, Passed, Over
  <1>11. ASSUME NEW h \in Handles, LearnExpired(h),
                events' = [events EXCEPT ![h] = Append(@, "expired")]
         PROVE  CalledOnce'
    <2>1. \A g \in Handles : Over(g) => Over(g)'
      BY <1>0, <1>11 DEF LearnExpired, Over, SessionTypeOK
    <2> QED BY <1>11, <2>1, CallsStay DEF LearnExpired, client, threads, Passed
  <1>12. CASE UNCHANGED sessionVars
    BY <1>12, CallsStay
       DEF sessionVars, client, network, threads, Passed, Over
  <1> QED
    BY <1>1, <1>2, <1>3, <1>4, <1>5, <1>6, <1>7, <1>8, <1>9, <1>10, <1>11,
       <1>12 DEF SessionNext

(* registerSessionListener and handleSessionEvent between them tell a      *)
(* listener of a session once, whatever the number of listeners, sessions  *)
(* and reconnections.                                                      *)
THEOREM ToldOnce == SessionSpec => []OncePerSession
PROOF
  <1>1. SessionInit => OneCurrent
    BY SessionAssumption
       DEF SessionInit, OneCurrent, Over, Handles, SessionAssumption
  <1>2. SessionInit => CalledOnce
    BY SessionAssumption
       DEF SessionInit, CalledOnce, OneCall, NoRepeat, ToCall, Told, Handles,
           SessionAssumption
  <1>3. SessionTypeOK /\ OneCurrent /\ CalledOnce /\ [SessionNext]_sessionVars
          => OneCurrent' /\ CalledOnce'
    BY OneCurrentStep, CalledOnceStep
  <1>4. CalledOnce => OncePerSession
    BY DEF CalledOnce, OneCall, OncePerSession
  <1> QED BY <1>1, <1>2, <1>3, <1>4, SessionTypeCorrect, PTL DEF SessionSpec
=============================================================================
