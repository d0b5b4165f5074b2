------------------------ MODULE BookieProcessProofs ------------------------
(***************************************************************************)
(* The safety of one life of the process, for any number of IO threads and *)
(* of ZooKeeper handles.                                                   *)
(***************************************************************************)
EXTENDS BookieProcess, TLAPS

Flags ==
  /\ pointer \in BOOLEAN
  /\ listening \in BOOLEAN
  /\ stopped \in BOOLEAN
  /\ registered \in BOOLEAN
  /\ handler \in BOOLEAN
  /\ told \in BOOLEAN

Destroyers == {"main"} \cup Handles

Names == {"metrics", "server", "zk", "registration", "storage", "bookie"}

(* ProcessTypeOK of the other variables.                                   *)
Life ==
  /\ process \in {"running", "ended", "crashed", "hung"}
  /\ main \in {"parse", "construct", "bind", "startSession", "wait", "reset",
              "destroy", "return"}
  /\ built \in 0 .. 5
  /\ destroying \in SUBSET Destroyers
  /\ misused \in SUBSET Names
  /\ process = "running" => (main = "destroy" <=> "main" \in destroying)

Sessions ==
  /\ event \in [Handles -> {"off", "new", "ready", "restart", "expired", "exit",
                            "ended"}]
  /\ creating \in SUBSET Handles
  /\ zk \in Handles \cup {Null}
  /\ closing \in Handles \cup {Null}

Working ==
  /\ threads \in SUBSET {"stats", "journal"}
  /\ ending \in SUBSET {"stats", "journal"}
  /\ io \in [IOThreads -> {"off", "idle", "lookup", "put", "stuck"}]
  /\ found \in [IOThreads -> IOThreads \cup {Null}]
  /\ uses \in [IOThreads -> IOThreads \cup {Null}]
  /\ metric \in IOThreads \cup {Null}
  /\ mutex \in IOThreads \cup {"stats", Null}
  /\ mutex = "stats" => "stats" \in threads
  /\ \A t \in IOThreads : io[t] = "lookup" <=> mutex = t

(* What is there while main is at each place, and that one thread at most  *)
(* destroys the bookie of a process that still runs.                       *)
InStep ==
  /\ main \in {"parse", "construct"} => ~pointer /\ ~handler /\ misused = {}
  /\ main \in {"parse", "construct", "bind"} =>
       \A t \in IOThreads : io[t] = "off"
  /\ main \in {"parse", "construct", "bind", "startSession"} =>
       /\ destroying = {} /\ ~registered
       /\ \A h \in Handles : event[h] = "off"
  /\ main \in {"bind", "startSession"} => built = 5
  /\ main \notin {"parse", "construct", "bind"} => listening \/ stopped
  /\ process = "running" =>
       destroying = {} \/ \E d \in Destroyers : destroying = {d}
  /\ pointer /\ destroying = {} => built = 5

(* Each thread that uses the metrics runs only while the metrics, and for  *)
(* an IO thread the server, are there.                                     *)
Owned ==
  /\ "stats" \in threads => built >= 1
  /\ \A t \in IOThreads : io[t] # "off" => built >= 2

(* Who looks for the metric keeps what it has found up to date: the lock   *)
(* is held.                                                                *)
OneMetric ==
  \A t \in IOThreads :
    /\ uses[t] # Null => uses[t] = metric
    /\ io[t] = "lookup" => found[t] = metric

IInv ==
  /\ Flags /\ Life /\ Sessions /\ Working
  /\ InStep /\ Owned /\ OneMetric /\ WholeUntilDestroyed /\ MetricsAreThere

-----------------------------------------------------------------------------
(* The members *)

(* Bookie.h:56-61.                                                         *)
LEMMA Positions ==
  /\ Len(Declared) = 5
  /\ Declared[1] = "metrics"
  /\ Declared[2] = "server"
  /\ Declared[3] = "zk"
  /\ Declared[4] = "registration"
  /\ Declared[5] = "storage"
PROOF
  BY DEF Declared

(* A member is there if at least so many are.                              *)
LEMMA Members ==
  ASSUME Life
  PROVE  /\ Alive("metrics") <=> built >= 1
         /\ Alive("server") <=> built >= 2
         /\ Alive("zk") <=> built >= 3
         /\ Alive("registration") <=> built >= 4
         /\ Alive("storage") <=> built >= 5
PROOF
  BY Positions DEF Alive, Life

(* The parts of ProcessTypeOK.                                             *)
LEMMA TypesAre == ProcessTypeOK <=> Flags /\ Life /\ Sessions /\ Working
PROOF
  BY Positions
  DEF ProcessTypeOK, Flags, Life, Destroyers, Names, Sessions, Working

-----------------------------------------------------------------------------
(* The steps *)

(* Nothing that is used is missing while the bookie is whole.              *)
LEMMA WhenWhole ==
  ASSUME Life, built = 5, NEW member \in {"metrics", "storage"}
  PROVE  Use({member}) => misused' = misused
PROOF
  <1>1. Alive(member)
    BY Members
  <1> QED BY <1>1 DEF Use

(* The next handle is one of them.                                         *)
LEMMA OpensNext == Unopened # {} => NextHandle \in Handles
PROOF
  <1> SUFFICES ASSUME Unopened # {}
               PROVE  NextHandle \in Handles
    OBVIOUS
  <1>1. PICK h \in Unopened : TRUE
    OBVIOUS
  <1>2. NextHandle \in Unopened
    BY <1>1 DEF NextHandle
  <1> QED BY <1>2 DEF Unopened

(* Every step writes truth values.                                         *)
LEMMA FlagsKept ==
  ASSUME Flags, process = "running", Next
  PROVE  Flags'
PROOF
  <1> USE DEF lifeVars, threadVars, serverVars, metricVars, sessionVars,
            signalVars, Over, Dies, SessionStep, Flags
  <1>1. ASSUME Main
       PROVE  Flags'
    BY <1>1
       DEF NoHostName, Refuse, Parse, ConstructMember, OpenFails, Assign,
           Bind, BindFails, StartSession, WaitForStop, Reset, ResetAgain,
           Return, TwoDestroy, Main
  <1>2. ASSUME NEW d \in Destroyers, Destroy(d)
       PROVE  Flags'
    BY <1>2
       DEF TellThread, DestroyStorage, DestroyRegistration, CloseSession,
           DestroyZooKeeper, StopServer, DestroyServer, DestroyMetrics,
           Destroyed, Destroy
  <1>3. ASSUME Signal \/ HandlerStops \/ HandlerStopsDead
       PROVE  Flags'
    BY <1>3
       DEF Signal, HandlerStops, HandlerStopsDead, WakeWaiters
  <1>4. ASSUME NEW t \in IOThreads, LookUp(t) \/ Put(t) \/ IoThread(t)
       PROVE  Flags'
    BY <1>4
       DEF LookUp, Put, Insert, PutReturns, PutOnDead, LoopEnds, IoThread
  <1>5. ASSUME Update \/ UpdateEnds
       PROVE  Flags'
    BY <1>5
       DEF Update, UpdateEnds
  <1>6. ASSUME NEW thread \in {"stats", "journal"}, ThreadEnds(thread)
       PROVE  Flags'
    BY <1>6
       DEF ThreadEnds
  <1>7. ASSUME NEW h \in Handles, SessionEvent(h)
       PROVE  Flags'
    BY <1>7
       DEF SessionReady, SessionReadyDead, Created, CreateFails, Expires,
           ExpiresDead, SessionEvent
  <1>8. ASSUME NEW h \in Handles, EventThread(h)
       PROVE  Flags'
    BY <1>8
       DEF Reopen, EventEnds, StaticDestructor, ExitCompletes, ExitAgain,
           TwoDestroy, EventThread
  <1> QED BY <1>1, <1>2, <1>3, <1>4, <1>5, <1>6, <1>7, <1>8 DEF Next, Destroyers

(* A destructor takes away members that are there; main is in ~Bookie as   *)
(* long as destroying says so, unless the process has ended.               *)
LEMMA LifeKept ==
  ASSUME ProcessAssumption, Life, InStep, process = "running", Next
  PROVE  Life'
PROOF
  <1> USE DEF lifeVars, threadVars, serverVars, metricVars, sessionVars,
            signalVars, Over, Dies, SessionStep, Use,
            Destroyers, Names, Life, InStep
  <1>1. ASSUME Main
       PROVE  Life'
    BY <1>1, Positions
       DEF NoHostName, Refuse, Parse, ConstructMember, OpenFails, Assign,
           Bind, BindFails, StartSession, WaitForStop, Reset, ResetAgain,
           Return, Starts, StartOrder, After, TwoDestroy, Main
  <1>2. ASSUME NEW d \in Destroyers, Destroy(d)
       PROVE  Life'
    <2>1. CASE TellThread(d)
      BY <2>1 DEF TellThread
    <2>2. CASE DestroyStorage(d)
      BY <2>2 DEF DestroyStorage, AtMember, Gone
    <2>3. CASE DestroyRegistration(d)
      BY <2>3 DEF DestroyRegistration, AtMember, Gone
    <2>4. CASE CloseSession(d)
      BY <2>4 DEF CloseSession, AtMember
    <2>5. CASE DestroyZooKeeper(d)
      BY <2>5 DEF DestroyZooKeeper, AtMember, Gone
    <2>6. CASE StopServer(d)
      BY <2>6 DEF StopServer, AtMember
    <2>7. CASE DestroyServer(d)
      BY <2>7 DEF DestroyServer, AtMember, Gone
    <2>8. CASE DestroyMetrics(d)
      BY <2>8 DEF DestroyMetrics, AtMember, Gone
    <2>9. CASE Destroyed(d)
      BY <2>9 DEF Destroyed
    <2> QED BY <1>2, <2>1, <2>2, <2>3, <2>4, <2>5, <2>6, <2>7, <2>8, <2>9
            DEF Destroy
  <1>3. ASSUME Signal \/ HandlerStops \/ HandlerStopsDead
       PROVE  Life'
    BY <1>3
       DEF Signal, HandlerStops, HandlerStopsDead
  <1>4. ASSUME NEW t \in IOThreads, LookUp(t) \/ Put(t) \/ IoThread(t)
       PROVE  Life'
    BY <1>4
       DEF LookUp, Put, Insert, PutReturns, PutOnDead, LoopEnds, IoThread
  <1>5. ASSUME Update \/ UpdateEnds
       PROVE  Life'
    BY <1>5
       DEF Update, UpdateEnds
  <1>6. ASSUME NEW thread \in {"stats", "journal"}, ThreadEnds(thread)
       PROVE  Life'
    BY <1>6
       DEF ThreadEnds
  <1>7. ASSUME NEW h \in Handles, SessionEvent(h)
       PROVE  Life'
    BY <1>7
       DEF SessionReady, SessionReadyDead, Created, CreateFails, Expires,
           ExpiresDead, SessionEvent
  <1>8. ASSUME NEW h \in Handles, EventThread(h)
       PROVE  Life'
    BY <1>8, ProcessAssumption
       DEF Reopen, EventEnds, StaticDestructor, ExitCompletes, ExitAgain,
           ProcessAssumption, TwoDestroy, EventThread
  <1> QED BY <1>1, <1>2, <1>3, <1>4, <1>5, <1>6, <1>7, <1>8 DEF Next, Destroyers

(* The threads of the handles; a new handle is one that is not open yet.   *)
LEMMA SessionsKept ==
  ASSUME ProcessAssumption, Sessions, process = "running", Next
  PROVE  Sessions'
PROOF
  <1> USE DEF lifeVars, threadVars, serverVars, metricVars, sessionVars,
            signalVars, Over, Dies, SessionStep, Sessions
  <1>1. ASSUME Main
       PROVE  Sessions'
    BY <1>1, OpensNext
       DEF NoHostName, Refuse, Parse, ConstructMember, OpenFails, Assign,
           Bind, BindFails, StartSession, WaitForStop, Reset, ResetAgain,
           Return, TwoDestroy, Main
  <1>2. ASSUME NEW d \in Destroyers, Destroy(d)
       PROVE  Sessions'
    BY <1>2
       DEF TellThread, DestroyStorage, DestroyRegistration, CloseSession,
           DestroyZooKeeper, StopServer, DestroyServer, DestroyMetrics,
           Destroyed, Destroy
  <1>3. ASSUME Signal \/ HandlerStops \/ HandlerStopsDead
       PROVE  Sessions'
    BY <1>3
       DEF Signal, HandlerStops, HandlerStopsDead
  <1>4. ASSUME NEW t \in IOThreads, LookUp(t) \/ Put(t) \/ IoThread(t)
       PROVE  Sessions'
    BY <1>4
       DEF LookUp, Put, Insert, PutReturns, PutOnDead, LoopEnds, IoThread
  <1>5. ASSUME Update \/ UpdateEnds
       PROVE  Sessions'
    BY <1>5
       DEF Update, UpdateEnds
  <1>6. ASSUME NEW thread \in {"stats", "journal"}, ThreadEnds(thread)
       PROVE  Sessions'
    BY <1>6
       DEF ThreadEnds
  <1>7. ASSUME NEW h \in Handles, SessionEvent(h)
       PROVE  Sessions'
    BY <1>7
       DEF SessionReady, SessionReadyDead, Created, CreateFails, Expires,
           ExpiresDead, SessionEvent
  <1>8. ASSUME NEW h \in Handles, EventThread(h)
       PROVE  Sessions'
    BY <1>8, OpensNext
       DEF Reopen, EventEnds, StaticDestructor, ExitCompletes, ExitAgain,
           TwoDestroy, EventThread
  <1> QED BY <1>1, <1>2, <1>3, <1>4, <1>5, <1>6, <1>7, <1>8 DEF Next, Destroyers

(* The lock is held from LookUp to Insert and during an update, and the    *)
(* statistics thread ends only without it.                                 *)
LEMMA WorkingKept ==
  ASSUME ProcessAssumption, InStep, Working, process = "running", Next
  PROVE  Working'
PROOF
  <1> USE DEF lifeVars, threadVars, serverVars, metricVars, sessionVars,
            signalVars, Over, Dies, SessionStep, InStep, Working
  <1>1. ASSUME Main
       PROVE  Working'
    BY <1>1
       DEF NoHostName, Refuse, Parse, ConstructMember, OpenFails, Assign,
           Bind, BindFails, StartSession, WaitForStop, Reset, ResetAgain,
           Return, Starts, TwoDestroy, Main
  <1>2. ASSUME NEW d \in Destroyers, Destroy(d)
       PROVE  Working'
    BY <1>2
       DEF TellThread, DestroyStorage, DestroyRegistration, CloseSession,
           DestroyZooKeeper, StopServer, DestroyServer, DestroyMetrics,
           Destroyed, Starts, Gone, Destroy
  <1>3. ASSUME Signal \/ HandlerStops \/ HandlerStopsDead
       PROVE  Working'
    BY <1>3
       DEF Signal, HandlerStops, HandlerStopsDead
  <1>4. ASSUME NEW t \in IOThreads, LookUp(t) \/ Put(t) \/ IoThread(t)
       PROVE  Working'
    <2>1. CASE LookUp(t)
      BY <2>1 DEF LookUp, MayLock
    <2>2. CASE Put(t)
      BY <2>2 DEF Put
    <2>3. CASE Insert(t)
      BY <2>3 DEF Insert
    <2>4. CASE PutReturns(t)
      BY <2>4 DEF PutReturns
    <2>5. CASE PutOnDead(t)
      <3>1. /\ UNCHANGED <<threads, ending, found, uses, metric, mutex>>
            /\ \/ io' = io
               \/ \E at \in {"idle", "stuck"} : io' = [io EXCEPT ![t] = at]
        BY <2>5 DEF PutOnDead
      <3> QED BY <2>5, <3>1 DEF PutOnDead
    <2>6. CASE LoopEnds(t)
      BY <2>6 DEF LoopEnds
    <2> QED BY <1>4, <2>1, <2>2, <2>3, <2>4, <2>5, <2>6
            DEF IoThread
  <1>5. ASSUME Update \/ UpdateEnds
       PROVE  Working'
    <2>1. CASE Update
      BY <2>1 DEF Update
    <2>2. CASE UpdateEnds
      BY <2>2 DEF UpdateEnds
    <2> QED BY <1>5, <2>1, <2>2
  <1>6. ASSUME NEW thread \in {"stats", "journal"}, ThreadEnds(thread)
       PROVE  Working'
    BY <1>6
       DEF ThreadEnds
  <1>7. ASSUME NEW h \in Handles, SessionEvent(h)
       PROVE  Working'
    BY <1>7
       DEF SessionReady, SessionReadyDead, Created, CreateFails, Expires,
           ExpiresDead, SessionEvent
  <1>8. ASSUME NEW h \in Handles, EventThread(h)
       PROVE  Working'
    BY <1>8
       DEF Reopen, EventEnds, StaticDestructor, ExitCompletes, ExitAgain,
           TwoDestroy, EventThread
  <1> QED BY <1>1, <1>2, <1>3, <1>4, <1>5, <1>6, <1>7, <1>8 DEF Next, Destroyers

(* The destruction begins only when main has come to waitForStop: an event *)
(* thread that could begin it has been started there.                      *)
LEMMA InStepKept ==
  ASSUME Life, Working, Owned, InStep, process = "running", Next
  PROVE  InStep'
PROOF
  <1> USE DEF lifeVars, threadVars, serverVars, metricVars, sessionVars,
            signalVars, Over, Dies, SessionStep, Destroyers,
            InStep
  <1>1. ASSUME Main
       PROVE  InStep'
    BY <1>1, Positions
       DEF NoHostName, Refuse, Parse, ConstructMember, OpenFails, Assign,
           Bind, BindFails, StartSession, WaitForStop, Reset, ResetAgain,
           Return, Whole, Starts, StartOrder, After, TwoDestroy, Main
  <1>2. ASSUME NEW d \in Destroyers, Destroy(d)
       PROVE  InStep'
    BY <1>2
       DEF TellThread, DestroyStorage, DestroyRegistration, CloseSession,
           DestroyZooKeeper, StopServer, DestroyServer, DestroyMetrics,
           Destroyed, AtMember, Gone, Destroy
  <1>3. ASSUME Signal \/ HandlerStops \/ HandlerStopsDead
       PROVE  InStep'
    <2>1. CASE Signal
      BY <2>1 DEF Signal
    <2>2. CASE HandlerStops
      BY <2>2 DEF HandlerStops, WakeWaiters
    <2>3. CASE HandlerStopsDead
      <3>1. handler /\ ~Alive("server")
        BY <2>3 DEF HandlerStopsDead
      <3>2. CASE Over("crashed")
        BY <3>1, <3>2
      <3>3. CASE /\ handler' = FALSE
                 /\ UNCHANGED <<lifeVars, threadVars, serverVars, metricVars,
                                sessionVars, told>>
        BY <3>1, <3>3
      <3> QED BY <2>3, <3>2, <3>3 DEF HandlerStopsDead
    <2> QED BY <1>3, <2>1, <2>2, <2>3
  <1>4. ASSUME NEW t \in IOThreads, LookUp(t) \/ Put(t) \/ IoThread(t)
       PROVE  InStep'
    BY <1>4, Members
       DEF LookUp, Put, Insert, PutReturns, PutOnDead, LoopEnds, Use,
           IoThread
  <1>5. ASSUME Update \/ UpdateEnds
       PROVE  InStep'
    BY <1>5, Members
       DEF Update, UpdateEnds, Use, Working, Owned
  <1>6. ASSUME NEW thread \in {"stats", "journal"}, ThreadEnds(thread)
       PROVE  InStep'
    BY <1>6
       DEF ThreadEnds, Use
  <1>7. ASSUME NEW h \in Handles, SessionEvent(h)
       PROVE  InStep'
    BY <1>7
       DEF SessionReady, SessionReadyDead, Created, CreateFails, Expires,
           ExpiresDead, Use, SessionEvent
  <1>8. ASSUME NEW h \in Handles, EventThread(h)
       PROVE  InStep'
    <2>1. CASE Reopen(h)
      BY <2>1 DEF Reopen, Use
    <2>2. CASE EventEnds(h)
      BY <2>2 DEF EventEnds, Use
    <2>3. CASE StaticDestructor(h)
      BY <2>3 DEF StaticDestructor, Use
    <2>4. CASE ExitCompletes(h)
      BY <2>4 DEF ExitCompletes, Use
    <2>5. CASE ExitAgain(h)
      BY <2>5 DEF ExitAgain, TwoDestroy, Use
    <2> QED BY <1>8, <2>1, <2>2, <2>3, <2>4, <2>5
            DEF EventThread
  <1> QED BY <1>1, <1>2, <1>3, <1>4, <1>5, <1>6, <1>7, <1>8 DEF Next, Destroyers

(* The destructor of the server goes on when the IO threads have ended,    *)
(* that of the metrics when the statistics thread has.                     *)
LEMMA OwnedKept ==
  ASSUME Life, InStep, Owned, process = "running", Next
  PROVE  Owned'
PROOF
  <1> USE DEF lifeVars, threadVars, serverVars, metricVars, sessionVars,
            signalVars, Over, Dies, SessionStep, Life, InStep,
            Owned
  <1>1. ASSUME Main
       PROVE  Owned'
    BY <1>1, Positions
       DEF NoHostName, Refuse, Parse, ConstructMember, OpenFails, Assign,
           Bind, BindFails, StartSession, WaitForStop, Reset, ResetAgain,
           Return, Starts, TwoDestroy, Main
  <1>2. ASSUME NEW d \in Destroyers, Destroy(d)
       PROVE  Owned'
    <2>1. CASE TellThread(d)
      BY <2>1, Positions DEF TellThread, Joined, Starts
    <2>2. CASE DestroyStorage(d)
      BY <2>2, Positions DEF DestroyStorage, AtMember, Gone, Joined, Starts
    <2>3. CASE DestroyRegistration(d)
      BY <2>3, Positions DEF DestroyRegistration, AtMember, Gone, Joined, Starts
    <2>4. CASE CloseSession(d)
      BY <2>4, Positions DEF CloseSession, AtMember, Joined, Starts
    <2>5. CASE DestroyZooKeeper(d)
      BY <2>5, Positions DEF DestroyZooKeeper, AtMember, Gone, Joined, Starts
    <2>6. CASE StopServer(d)
      BY <2>6, Positions DEF StopServer, AtMember, Joined, Starts
    <2>7. CASE DestroyServer(d)
      BY <2>7, Positions DEF DestroyServer, AtMember, Gone, Joined, Starts
    <2>8. CASE DestroyMetrics(d)
      BY <2>8, Positions DEF DestroyMetrics, AtMember, Gone, Joined, Starts
    <2>9. CASE Destroyed(d)
      BY <2>9, Positions DEF Destroyed, Joined, Starts
    <2> QED BY <1>2, <2>1, <2>2, <2>3, <2>4, <2>5, <2>6, <2>7, <2>8, <2>9
            DEF Destroy
  <1>3. ASSUME Signal \/ HandlerStops \/ HandlerStopsDead
       PROVE  Owned'
    BY <1>3
       DEF Signal, HandlerStops, HandlerStopsDead
  <1>4. ASSUME NEW t \in IOThreads, LookUp(t) \/ Put(t) \/ IoThread(t)
       PROVE  Owned'
    BY <1>4
       DEF LookUp, Put, Insert, PutReturns, PutOnDead, LoopEnds, IoThread
  <1>5. ASSUME Update \/ UpdateEnds
       PROVE  Owned'
    BY <1>5
       DEF Update, UpdateEnds
  <1>6. ASSUME NEW thread \in {"stats", "journal"}, ThreadEnds(thread)
       PROVE  Owned'
    BY <1>6
       DEF ThreadEnds
  <1>7. ASSUME NEW h \in Handles, SessionEvent(h)
       PROVE  Owned'
    BY <1>7
       DEF SessionReady, SessionReadyDead, Created, CreateFails, Expires,
           ExpiresDead, SessionEvent
  <1>8. ASSUME NEW h \in Handles, EventThread(h)
       PROVE  Owned'
    BY <1>8
       DEF Reopen, EventEnds, StaticDestructor, ExitCompletes, ExitAgain,
           TwoDestroy, EventThread
  <1> QED BY <1>1, <1>2, <1>3, <1>4, <1>5, <1>6, <1>7, <1>8 DEF Next, Destroyers

(* Insert makes a metric only if there is none, which LookUp saw under the *)
(* same lock.                                                              *)
LEMMA MetricKept ==
  ASSUME Working, OneMetric, process = "running", Next
  PROVE  OneMetric'
PROOF
  <1> USE DEF lifeVars, threadVars, serverVars, metricVars, sessionVars,
            signalVars, Over, Dies, SessionStep, Working, OneMetric
  <1>1. ASSUME Main
       PROVE  OneMetric'
    BY <1>1
       DEF NoHostName, Refuse, Parse, ConstructMember, OpenFails, Assign,
           Bind, BindFails, StartSession, WaitForStop, Reset, ResetAgain,
           Return, TwoDestroy, Main
  <1>2. ASSUME NEW d \in Destroyers, Destroy(d)
       PROVE  OneMetric'
    BY <1>2
       DEF TellThread, DestroyStorage, DestroyRegistration, CloseSession,
           DestroyZooKeeper, StopServer, DestroyServer, DestroyMetrics,
           Destroyed, Destroy
  <1>3. ASSUME Signal \/ HandlerStops \/ HandlerStopsDead
       PROVE  OneMetric'
    BY <1>3
       DEF Signal, HandlerStops, HandlerStopsDead
  <1>4. ASSUME NEW t \in IOThreads, LookUp(t) \/ Put(t) \/ IoThread(t)
       PROVE  OneMetric'
    BY <1>4
       DEF LookUp, Put, Insert, PutReturns, PutOnDead, LoopEnds, IoThread
  <1>5. ASSUME Update \/ UpdateEnds
       PROVE  OneMetric'
    BY <1>5
       DEF Update, UpdateEnds
  <1>6. ASSUME NEW thread \in {"stats", "journal"}, ThreadEnds(thread)
       PROVE  OneMetric'
    BY <1>6
       DEF ThreadEnds
  <1>7. ASSUME NEW h \in Handles, SessionEvent(h)
       PROVE  OneMetric'
    BY <1>7
       DEF SessionReady, SessionReadyDead, Created, CreateFails, Expires,
           ExpiresDead, SessionEvent
  <1>8. ASSUME NEW h \in Handles, EventThread(h)
       PROVE  OneMetric'
    BY <1>8
       DEF Reopen, EventEnds, StaticDestructor, ExitCompletes, ExitAgain,
           TwoDestroy, EventThread
  <1> QED BY <1>1, <1>2, <1>3, <1>4, <1>5, <1>6, <1>7, <1>8 DEF Next, Destroyers

(* Who uses a destroyed object finds fewer than five members; before       *)
(* main's assignment nobody is there to do so.                             *)
LEMMA WholeKept ==
  ASSUME Life, InStep, WholeUntilDestroyed, process = "running", Next
  PROVE  WholeUntilDestroyed'
PROOF
  <1> USE DEF lifeVars, threadVars, serverVars, metricVars, sessionVars,
            signalVars, Over, Dies, SessionStep, Use, InStep,
            WholeUntilDestroyed
  <1>1. ASSUME Main
       PROVE  WholeUntilDestroyed'
    BY <1>1, Members
       DEF NoHostName, Refuse, Parse, ConstructMember, OpenFails, Assign,
           Bind, BindFails, StartSession, WaitForStop, Reset, ResetAgain,
           Return, TwoDestroy, Main
  <1>2. ASSUME NEW d \in Destroyers, Destroy(d)
       PROVE  WholeUntilDestroyed'
    BY <1>2, Members
       DEF TellThread, DestroyStorage, DestroyRegistration, CloseSession,
           DestroyZooKeeper, StopServer, DestroyServer, DestroyMetrics,
           Destroyed, Destroy
  <1>3. ASSUME Signal \/ HandlerStops \/ HandlerStopsDead
       PROVE  WholeUntilDestroyed'
    <2>1. CASE Signal
      BY <2>1, Members DEF Signal
    <2>2. CASE HandlerStops
      BY <2>2, Members DEF HandlerStops, WakeWaiters
    <2>3. CASE HandlerStopsDead
      <3>1. handler /\ ~Alive("server")
        BY <2>3 DEF HandlerStopsDead
      <3>2. CASE Over("crashed")
        BY <3>1, <3>2, Members
      <3>3. CASE /\ handler' = FALSE
                 /\ UNCHANGED <<lifeVars, threadVars, serverVars, metricVars,
                                sessionVars, told>>
        BY <3>1, <3>3, Members
      <3> QED BY <2>3, <3>2, <3>3 DEF HandlerStopsDead
    <2> QED BY <1>3, <2>1, <2>2, <2>3
  <1>4. ASSUME NEW t \in IOThreads, LookUp(t) \/ Put(t) \/ IoThread(t)
       PROVE  WholeUntilDestroyed'
    BY <1>4, WhenWhole
       DEF LookUp, Put, Insert, PutReturns, PutOnDead, LoopEnds, IoThread
  <1>5. ASSUME Update \/ UpdateEnds
       PROVE  WholeUntilDestroyed'
    BY <1>5, WhenWhole
       DEF Update, UpdateEnds
  <1>6. ASSUME NEW thread \in {"stats", "journal"}, ThreadEnds(thread)
       PROVE  WholeUntilDestroyed'
    BY <1>6, Members
       DEF ThreadEnds
  <1>7. ASSUME NEW h \in Handles, SessionEvent(h)
       PROVE  WholeUntilDestroyed'
    BY <1>7, Members
       DEF SessionReady, SessionReadyDead, Created, CreateFails, Expires,
           ExpiresDead, SessionEvent
  <1>8. ASSUME NEW h \in Handles, EventThread(h)
       PROVE  WholeUntilDestroyed'
    BY <1>8, Members
       DEF Reopen, EventEnds, StaticDestructor, ExitCompletes, ExitAgain,
           TwoDestroy, EventThread
  <1> QED BY <1>1, <1>2, <1>3, <1>4, <1>5, <1>6, <1>7, <1>8 DEF Next, Destroyers

(* Who uses the metrics is a thread that runs, and which they outlive.     *)
LEMMA MetricsKept ==
  ASSUME Life, Working, Owned, MetricsAreThere, process = "running", Next
  PROVE  MetricsAreThere'
PROOF
  <1> USE DEF lifeVars, threadVars, serverVars, metricVars, sessionVars,
            signalVars, Over, Dies, SessionStep, Use,
            Working, Owned, MetricsAreThere
  <1>1. ASSUME Main
       PROVE  MetricsAreThere'
    BY <1>1
       DEF NoHostName, Refuse, Parse, ConstructMember, OpenFails, Assign,
           Bind, BindFails, StartSession, WaitForStop, Reset, ResetAgain,
           Return, TwoDestroy, Main
  <1>2. ASSUME NEW d \in Destroyers, Destroy(d)
       PROVE  MetricsAreThere'
    BY <1>2
       DEF TellThread, DestroyStorage, DestroyRegistration, CloseSession,
           DestroyZooKeeper, StopServer, DestroyServer, DestroyMetrics,
           Destroyed, Destroy
  <1>3. ASSUME Signal \/ HandlerStops \/ HandlerStopsDead
       PROVE  MetricsAreThere'
    BY <1>3
       DEF Signal, HandlerStops, HandlerStopsDead
  <1>4. ASSUME NEW t \in IOThreads, LookUp(t) \/ Put(t) \/ IoThread(t)
       PROVE  MetricsAreThere'
    BY <1>4, Members
       DEF LookUp, Put, Insert, PutReturns, PutOnDead, LoopEnds, Life,
           IoThread
  <1>5. ASSUME Update \/ UpdateEnds
       PROVE  MetricsAreThere'
    BY <1>5, Members
       DEF Update, UpdateEnds
  <1>6. ASSUME NEW thread \in {"stats", "journal"}, ThreadEnds(thread)
       PROVE  MetricsAreThere'
    BY <1>6
       DEF ThreadEnds
  <1>7. ASSUME NEW h \in Handles, SessionEvent(h)
       PROVE  MetricsAreThere'
    BY <1>7
       DEF SessionReady, SessionReadyDead, Created, CreateFails, Expires,
           ExpiresDead, SessionEvent
  <1>8. ASSUME NEW h \in Handles, EventThread(h)
       PROVE  MetricsAreThere'
    BY <1>8
       DEF Reopen, EventEnds, StaticDestructor, ExitCompletes, ExitAgain,
           TwoDestroy, EventThread
  <1> QED BY <1>1, <1>2, <1>3, <1>4, <1>5, <1>6, <1>7, <1>8 DEF Next, Destroyers

-----------------------------------------------------------------------------
(* The theorems *)

(* The inductive invariant holds in the beginning ...                       *)
LEMMA InitInv == ASSUME ProcessAssumption, Init PROVE IInv
PROOF
  <1>1. /\ pointer = FALSE /\ listening = FALSE /\ stopped = FALSE
        /\ registered = FALSE /\ handler = FALSE /\ told = FALSE
        /\ misused = {}
    BY DEF Init
  <1>2. Flags /\ WholeUntilDestroyed /\ MetricsAreThere
    BY <1>1 DEF Flags, WholeUntilDestroyed, MetricsAreThere
  <1>3. Life /\ Sessions
    BY DEF Init, Life, Sessions
  <1>4. InStep /\ Owned
    BY DEF Init, InStep, Owned
  <1>5. Working /\ OneMetric
    BY DEF ProcessAssumption, Init, Working, OneMetric
  <1> QED BY <1>2, <1>3, <1>4, <1>5 DEF IInv

(* ... and every step keeps it.                                             *)
LEMMA StepInv == ASSUME ProcessAssumption, IInv, [Next]_vars PROVE IInv'
PROOF
  <1>1. CASE Next
    <2>1. process = "running"
      BY <1>1 DEF Next
    <2> QED
      BY <1>1, <2>1, FlagsKept, LifeKept, SessionsKept, WorkingKept,
         InStepKept, OwnedKept, MetricKept, WholeKept, MetricsKept DEF IInv
  <1>2. CASE UNCHANGED vars
    <2> USE <1>2 DEF vars, lifeVars, threadVars, serverVars, metricVars,
             sessionVars, signalVars, IInv
    <2>1. Flags' /\ Life' /\ Sessions' /\ InStep'
      BY DEF Flags, Life, Sessions, InStep
    <2>2. /\ Working' /\ Owned' /\ OneMetric'
          /\ WholeUntilDestroyed' /\ MetricsAreThere'
      BY DEF Working, Owned, OneMetric, WholeUntilDestroyed, MetricsAreThere
    <2> QED BY <2>1, <2>2
  <1> QED BY <1>1, <1>2

(* The inductive invariant holds throughout. *)
LEMMA InductiveInv == Spec => []IInv
PROOF
  <1>1. Init => IInv
    BY ProcessAssumption, InitInv
  <1>2. IInv /\ [Next]_vars => IInv'
    BY ProcessAssumption, StepInv
  <1> QED BY <1>1, <1>2, PTL DEF Spec

(* Every variable has its type, main is in the destructor exactly while it *)
(* destroys, and the lock of the metrics is held exactly by who is in it.   *)
THEOREM ProcessTypeCorrect == Spec => []ProcessTypeOK
PROOF
  <1>1. IInv => ProcessTypeOK
    BY TypesAre DEF IInv
  <1> QED BY <1>1, InductiveInv, PTL

(* Whichever thread destroys the bookie, and whatever connections, updates  *)
(* and sessions come up meanwhile, nobody uses the metrics after their      *)
(* destruction (Bookie.h:56, Metrics.cpp:89-92).                            *)
THEOREM MetricsOutliveTheirUsers == Spec => []MetricsAreThere
PROOF
  <1>1. IInv => MetricsAreThere
    BY DEF IInv
  <1> QED BY <1>1, InductiveInv, PTL

(* However many IO threads create their handlers at once, all add their    *)
(* samples to one metric.                                                   *)
THEOREM MetricIsShared == Spec => []HandlersShareMetric
PROOF
  <1>1. IInv => HandlersShareMetric
    BY DEF IInv, OneMetric, HandlersShareMetric
  <1> QED BY <1>1, InductiveInv, PTL

(* While a node names the bookie and nobody has stopped it, it listens.     *)
THEOREM RegisteredIsListening == Spec => []RegisteredIsServed
PROOF
  <1>1. IInv => RegisteredIsServed
    BY DEF IInv, Life, InStep, RegisteredIsServed
  <1> QED BY <1>1, InductiveInv, PTL

(* No object is used before it is built, and none that is destroyed until   *)
(* the destruction of the bookie has begun.                                 *)
THEOREM WholeBeforeDestruction == Spec => []WholeUntilDestroyed
PROOF
  <1>1. IInv => WholeUntilDestroyed
    BY DEF IInv
  <1> QED BY <1>1, InductiveInv, PTL
=============================================================================
