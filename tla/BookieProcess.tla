--------------------------- MODULE BookieProcess ---------------------------
(***************************************************************************)
(* One life of the bookie's process: main.cpp, the construction, start and *)
(* destruction of Bookie, the options, and createMetric.  The members are  *)
(* built in the order of their declaration and destroyed in the reverse    *)
(* order, by main or by the static destructors when the registration calls *)
(* std::exit on an event thread of ZooKeeper, while the threads that       *)
(* others of them started still run.  A destructor tells its own thread to *)
(* end and joins it; the thread ends when it comes to that.                *)
(*                                                                         *)
(* Each handle of the ZooKeeper client has its event thread, the handles   *)
(* of expired sessions too: ~ZooKeeper closes and joins only the one that  *)
(* zk_ points to.                                                          *)
(*                                                                         *)
(* The use of an object that is destroyed is undefined: it ends the        *)
(* process or does nothing here, and a put may also wait for ever.  Such a *)
(* step is noted in misused.  What each member does while it is there is   *)
(* in Storage, BookieServer, ZooKeeper and BookieRegistration.             *)
(***************************************************************************)
EXTENDS Naturals, Sequences

CONSTANTS
  IOThreads,
  Handles,   \* the ZooKeeper handles that may be opened, a bound
  Null

ASSUME ProcessAssumption ==
  /\ Null \notin IOThreads /\ "stats" \notin IOThreads /\ Null # "stats"
  /\ Null \notin Handles /\ "main" \notin Handles

VARIABLES
  process,     \* "running", "ended", "crashed" or "hung"
  main,        \* where the main thread is
  pointer,     \* `bookie` is not null
  built,       \* how many members are constructed and not yet destroyed
  destroying,  \* the threads in ~Bookie: "main", event threads
  threads,     \* those of "stats" and "journal" that run
  ending,      \* those that have been told to end
  listening,   \* the server has a listening socket
  stopped,     \* stopped_ of the server
  io,          \* what each IO thread is in
  found,       \* the metric an IO thread has found, Null for none
  uses,        \* the metric that the handlers of each IO thread hold
  metric,      \* "addEntry" in metrics_: the thread that made it, or Null
  mutex,       \* who holds mutex_ of the MetricsManager, or Null
  event,       \* what the event thread of each handle is in
  creating,    \* the handles with a create that is not answered
  zk,          \* zk_, or Null
  closing,     \* the handle that ~ZooKeeper closes, or Null
  registered,  \* the node of the bookie is there
  handler,     \* a signal handler is about to call stop
  told,        \* history: a signal has stopped the bookie
  misused      \* history: what has been used after its destruction

lifeVars    == <<process, main, pointer, built, destroying>>
threadVars  == <<threads, ending>>
serverVars  == <<listening, stopped, io>>
metricVars  == <<found, uses, metric, mutex>>
sessionVars == <<event, creating, zk, closing, registered>>
signalVars  == <<handler, told>>
vars == <<lifeVars, threadVars, serverVars, metricVars, sessionVars,
          signalVars, misused>>

(* Bookie's members. *)
Declared == <<"metrics", "server", "zk", "registration", "storage">>

Alive(member) == \E i \in 1 .. built : Declared[i] = member

(* What a step uses of the bookie, by members. *)
Use(members) == misused' = misused \cup {m \in members : ~Alive(m)}

Init ==
  /\ process = "running"
  /\ main = "parse"
  /\ pointer = FALSE
  /\ built = 0
  /\ destroying = {}
  /\ threads = {}
  /\ ending = {}
  /\ listening = FALSE
  /\ stopped = FALSE
  /\ io = [t \in IOThreads |-> "off"]
  /\ found = [t \in IOThreads |-> Null]
  /\ uses = [t \in IOThreads |-> Null]
  /\ metric = Null
  /\ mutex = Null
  /\ event = [h \in Handles |-> "off"]
  /\ creating = {}
  /\ zk = Null
  /\ closing = Null
  /\ registered = FALSE
  /\ handler = FALSE
  /\ told = FALSE
  /\ misused = {}

-----------------------------------------------------------------------------
(* How the process ends. *)

Over(outcome) ==
  /\ process' = outcome
  /\ UNCHANGED <<main, pointer, built, destroying, threadVars, serverVars,
                 metricVars, sessionVars, signalVars>>

Dies(outcome) == Over(outcome) /\ UNCHANGED misused

-----------------------------------------------------------------------------
(* The main thread, up to waitForStop. *)

(* There is no host name: the exception has no handler. *)
NoHostName == main = "parse" /\ Dies("crashed")

(* Help was asked for, or an option is wrong. *)
Refuse == main = "parse" /\ Dies("ended")

Parse ==
  /\ main = "parse"
  /\ main' = "construct"
  /\ UNCHANGED <<process, pointer, built, destroying, threadVars, serverVars,
                 metricVars, sessionVars, signalVars, misused>>

(* The threads a member's constructor starts. *)
Starts(member) ==
  CASE member = "metrics" -> {"stats"}
    [] member = "storage" -> {"journal"}
    [] OTHER -> {}

(* The statistics thread, started before mutex_ is constructed, first      *)
(* locks it a whole period later.                                          *)
ConstructMember ==
  /\ main = "construct"
  /\ built < Len(Declared)
  /\ Declared[built + 1] = "storage" => mutex = Null
  /\ built' = built + 1
  /\ threads' = threads \cup Starts(Declared[built'])
  /\ UNCHANGED <<process, main, pointer, destroying, ending, serverVars,
                 metricVars, sessionVars, signalVars, misused>>

(* The database does not open: exit, and no bookie to destroy yet. *)
OpenFails ==
  /\ main = "construct"
  /\ Alive("registration")
  /\ ~Alive("storage")
  /\ Dies("ended")

MutantStartOrder == <<"startSession", "bind">>

(* Bookie::start. *)
StartOrder == <<"bind", "startSession">>

After(step) == IF step = StartOrder[1] THEN StartOrder[2] ELSE "wait"

MutantWhole == built >= 3

Whole == built = Len(Declared)

Assign ==
  /\ main = "construct"
  /\ Whole
  /\ pointer' = TRUE
  /\ main' = StartOrder[1]
  /\ UNCHANGED <<process, built, destroying, threadVars, serverVars, metricVars,
                 sessionVars, signalVars, misused>>

(* A bookie that was stopped already listens all the same. *)
Bind ==
  /\ main = "bind"
  /\ listening' = TRUE
  /\ io' = [t \in IOThreads |-> "idle"]
  /\ main' = After("bind")
  /\ UNCHANGED <<process, pointer, built, destroying, threadVars, stopped,
                 metricVars, sessionVars, signalVars, misused>>

(* The port is taken: an exception that nobody catches. *)
BindFails == main = "bind" /\ Dies("crashed")

(* zookeeper_init makes a handle and its event thread, or fails, which     *)
(* nobody looks at.                                                        *)
Unopened == {h \in Handles : event[h] = "off"}

NextHandle == CHOOSE h \in Unopened : TRUE

StartSession ==
  /\ main = "startSession"
  /\ \/ /\ Unopened # {}
        /\ event' = [event EXCEPT ![NextHandle] = "new"]
        /\ zk' = NextHandle
     \/ zk' = Null /\ UNCHANGED event
  /\ main' = After("startSession")
  /\ UNCHANGED <<process, pointer, built, destroying, threadVars, serverVars,
                 metricVars, creating, closing, registered, signalVars, misused>>

WaitForStop ==
  /\ main = "wait"
  /\ stopped
  /\ main' = "reset"
  /\ UNCHANGED <<process, pointer, built, destroying, threadVars, serverVars,
                 metricVars, sessionVars, signalVars, misused>>
-----------------------------------------------------------------------------
(* The destruction of the bookie. *)

(* reset clears the pointer first. *)
Reset ==
  /\ main = "reset"
  /\ destroying = {}
  /\ pointer' = FALSE
  /\ IF pointer THEN main' = "destroy" /\ destroying' = {"main"}
                ELSE main' = "return" /\ UNCHANGED destroying
  /\ UNCHANGED <<process, built, threadVars, serverVars, metricVars, sessionVars,
                 signalVars, misused>>

(* The static destructor is at work on the same bookie and clears the      *)
(* pointer last; what two destructors make of the bookie is anything.      *)
TwoDestroy(d) ==
  /\ destroying' = destroying \cup {d}
  /\ process' \in {"ended", "crashed", "hung"}
  /\ misused' = misused \cup {"bookie"}
  /\ UNCHANGED <<main, pointer, built, threadVars, serverVars, metricVars,
                 sessionVars, signalVars>>

ResetAgain ==
  /\ main = "reset"
  /\ destroying # {}
  /\ TwoDestroy("main")

(* Thread d comes to the destructor of a member. *)
AtMember(d, member) ==
  /\ d \in destroying
  /\ built > 0
  /\ Declared[built] = member

(* The destructor tells the member's thread to end (the entry without a    *)
(* promise, terminateLoopSoon).                                            *)
TellThread(d) ==
  /\ d \in destroying
  /\ built > 0
  /\ ~(Starts(Declared[built]) \subseteq ending)
  /\ ending' = ending \cup Starts(Declared[built])
  /\ UNCHANGED <<lifeVars, threads, serverVars, metricVars, sessionVars,
                 signalVars, misused>>

(* The journal thread comes to the entry (DestroyCompletes in Storage),    *)
(* the statistics thread to the end of a round of its loop.                *)
ThreadEnds(thread) ==
  /\ thread \in threads \cap ending
  /\ mutex # thread
  /\ threads' = threads \ {thread}
  /\ UNCHANGED <<lifeVars, ending, serverVars, metricVars, sessionVars,
                 signalVars, misused>>

MutantDetached(member) == TRUE

Joined(member) == Starts(member) \subseteq ending \ threads

Gone ==
  /\ Joined(Declared[built])
  /\ built' = built - 1

DestroyStorage(d) ==
  /\ AtMember(d, "storage")
  /\ Gone
  /\ UNCHANGED <<process, main, pointer, destroying, threadVars, serverVars,
                 metricVars, sessionVars, signalVars, misused>>

(* It stays in ZooKeeper's list of listeners. *)
DestroyRegistration(d) ==
  /\ AtMember(d, "registration")
  /\ Gone
  /\ UNCHANGED <<process, main, pointer, destroying, threadVars, serverVars,
                 metricVars, sessionVars, signalVars, misused>>

(* zookeeper_close of what zk_ is by now. *)
CloseSession(d) ==
  /\ AtMember(d, "zk")
  /\ zk # Null
  /\ closing = Null
  /\ closing' = zk
  /\ UNCHANGED <<lifeVars, threadVars, serverVars, metricVars, event, creating,
                 zk, registered, signalVars, misused>>

(* It waits for the event thread, unless it runs on it.  The node goes     *)
(* with the session if the servers hear of the end.                        *)
Closed(d) == closing \in Handles /\ (d = closing \/ event[closing] = "ended")

DestroyZooKeeper(d) ==
  /\ AtMember(d, "zk")
  /\ zk = Null \/ Closed(d)
  /\ Gone
  /\ registered' \in {FALSE, registered}
  /\ UNCHANGED <<process, main, pointer, destroying, threadVars, serverVars,
                 metricVars, event, creating, zk, closing, signalVars, misused>>

(* ServerBootstrap's stop, which wakes who waits for it ... *)
StopServer(d) ==
  /\ AtMember(d, "server")
  /\ listening \/ ~stopped
  /\ listening' = FALSE
  /\ stopped' = TRUE
  /\ UNCHANGED <<lifeVars, threadVars, io, metricVars, sessionVars, signalVars,
                 misused>>

(* ... and join, which lets no loop go round again. *)
Joining ==
  /\ \E d \in destroying : AtMember(d, "server")
  /\ stopped /\ ~listening

LoopEnds(t) ==
  /\ Joining
  /\ io[t] = "idle"
  /\ io' = [io EXCEPT ![t] = "off"]
  /\ UNCHANGED <<lifeVars, threadVars, listening, stopped, metricVars,
                 sessionVars, signalVars, misused>>

DestroyServer(d) ==
  /\ AtMember(d, "server")
  /\ Joining
  /\ \A t \in IOThreads : io[t] = "off"
  /\ Gone
  /\ UNCHANGED <<process, main, pointer, destroying, threadVars, serverVars,
                 metricVars, sessionVars, signalVars, misused>>

DestroyMetrics(d) ==
  /\ AtMember(d, "metrics")
  /\ Gone
  /\ UNCHANGED <<process, main, pointer, destroying, threadVars, serverVars,
                 metricVars, sessionVars, signalVars, misused>>

Destroyed(d) ==
  /\ d \in destroying
  /\ built = 0
  /\ destroying' = {}
  /\ pointer' = FALSE
  /\ main' = IF d = "main" THEN "return" ELSE main
  /\ UNCHANGED <<process, built, threadVars, serverVars, metricVars,
                 sessionVars, signalVars, misused>>

Return == main = "return" /\ Dies("ended")

-----------------------------------------------------------------------------
(* Signals, at any time and on any thread. *)

(* A signal that comes before the bookie is assigned, or when it is being  *)
(* destroyed by main, is only logged.                                      *)
Signal ==
  /\ pointer
  /\ ~handler
  /\ handler' = TRUE
  /\ UNCHANGED <<lifeVars, threadVars, serverVars, metricVars, sessionVars, told,
                 misused>>

MutantStopListening == stopped' = stopped

WakeWaiters == stopped' = TRUE

HandlerStops ==
  /\ handler
  /\ Alive("server")
  /\ listening' = FALSE
  /\ WakeWaiters
  /\ handler' = FALSE
  /\ told' = TRUE
  /\ UNCHANGED <<lifeVars, threadVars, io, metricVars, sessionVars, misused>>

(* The bookie it found has been destroyed since. *)
HandlerStopsDead ==
  /\ handler
  /\ ~Alive("server")
  /\ Use({"server"})
  /\ \/ Over("crashed")
     \/ /\ handler' = FALSE
        /\ UNCHANGED <<lifeVars, threadVars, serverVars, metricVars, sessionVars,
                       told>>

-----------------------------------------------------------------------------
(* IO threads: connections get a handler, adds call Storage::put. *)

MutantMayLock == TRUE

MayLock == mutex = Null

(* BookieHandler's constructor: createMetric looks for the name ...  The   *)
(* connection may have been accepted before the socket was closed.         *)
LookUp(t) ==
  /\ io[t] = "idle"
  /\ ~Joining
  /\ MayLock
  /\ Use({"metrics"})
  /\ io' = [io EXCEPT ![t] = "lookup"]
  /\ mutex' = t
  /\ found' = [found EXCEPT ![t] = metric]
  /\ UNCHANGED <<lifeVars, threadVars, listening, stopped, uses, metric,
                 sessionVars, signalVars>>

(* ... and inserts it if it is not there. *)
Insert(t) ==
  /\ io[t] = "lookup"
  /\ Use({"metrics"})
  /\ LET held == IF found[t] = Null THEN t ELSE found[t]
     IN  /\ metric' = IF found[t] = Null THEN t ELSE metric
         /\ uses' = [uses EXCEPT ![t] = held]
  /\ found' = [found EXCEPT ![t] = Null]
  /\ mutex' = Null
  /\ io' = [io EXCEPT ![t] = "idle"]
  /\ UNCHANGED <<lifeVars, threadVars, listening, stopped, sessionVars,
                 signalVars>>

Put(t) ==
  /\ io[t] = "idle"
  /\ ~Joining
  /\ uses[t] # Null
  /\ io' = [io EXCEPT ![t] = "put"]
  /\ UNCHANGED <<lifeVars, threadVars, listening, stopped, metricVars,
                 sessionVars, signalVars, misused>>

PutReturns(t) ==
  /\ io[t] = "put"
  /\ Alive("storage")
  /\ io' = [io EXCEPT ![t] = "idle"]
  /\ UNCHANGED <<lifeVars, threadVars, listening, stopped, metricVars,
                 sessionVars, signalVars, misused>>

(* The Storage went while put waited for room, or before it was called. *)
PutOnDead(t) ==
  /\ io[t] = "put"
  /\ ~Alive("storage")
  /\ Use({"storage"})
  /\ \/ Over("crashed")
     \/ /\ io' \in {[io EXCEPT ![t] = "idle"], [io EXCEPT ![t] = "stuck"]}
        /\ UNCHANGED <<lifeVars, threadVars, listening, stopped, metricVars,
                       sessionVars, signalVars>>

-----------------------------------------------------------------------------
(* The statistics thread. *)

Update ==
  /\ "stats" \in threads \ ending
  /\ mutex = Null
  /\ Use({"metrics"})
  /\ mutex' = "stats"
  /\ UNCHANGED <<lifeVars, threadVars, serverVars, found, uses, metric,
                 sessionVars, signalVars>>

UpdateEnds ==
  /\ mutex = "stats"
  /\ Use({"metrics"})
  /\ mutex' = Null
  /\ UNCHANGED <<lifeVars, threadVars, serverVars, found, uses, metric,
                 sessionVars, signalVars>>

-----------------------------------------------------------------------------
(* The event threads: ZooKeeper and BookieRegistration have them in detail. *)

SessionStep ==
  UNCHANGED <<lifeVars, threadVars, serverVars, metricVars, signalVars>>

(* The session is ready and the listener calls create. *)
SessionReady(h) ==
  /\ event[h] = "new"
  /\ Alive("registration")
  /\ event' = [event EXCEPT ![h] = "ready"]
  /\ zk' = h
  /\ creating' = creating \cup {h}
  /\ SessionStep
  /\ UNCHANGED <<closing, registered, misused>>

(* The listener is that of a registration which is gone, or the ZooKeeper  *)
(* is gone too, behind whose destructor the handle was opened.             *)
SessionReadyDead(h) ==
  /\ event[h] = "new"
  /\ ~Alive("registration")
  /\ Use({"zk", "registration"})
  /\ \/ Over("crashed")
     \/ /\ event' = [event EXCEPT ![h] = "ready"]
        /\ creating' \in {creating, creating \cup {h}}
        /\ SessionStep
        /\ UNCHANGED <<zk, closing, registered>>

Created(h) ==
  /\ event[h] = "ready"
  /\ h \in creating
  /\ creating' = creating \ {h}
  /\ registered' = TRUE
  /\ SessionStep
  /\ UNCHANGED <<event, zk, closing, misused>>

(* std::exit, also when zookeeper_close or the end of the session ends the *)
(* create.                                                                 *)
CreateFails(h) ==
  /\ event[h] \in {"ready", "expired"}
  /\ h \in creating
  /\ creating' = creating \ {h}
  /\ event' = [event EXCEPT ![h] = "exit"]
  /\ SessionStep
  /\ UNCHANGED <<zk, closing, registered, misused>>

(* The session has expired, and its node is gone; the lock is given up ... *)
Expires(h) ==
  /\ event[h] = "ready"
  /\ Alive("zk")
  /\ event' = [event EXCEPT ![h] = "restart"]
  /\ registered' = FALSE
  /\ SessionStep
  /\ UNCHANGED <<creating, zk, closing, misused>>

(* ... before the next handle is opened; the old one is not closed.        *)
Reopen(h) ==
  /\ event[h] = "restart"
  /\ Alive("zk")
  /\ \/ /\ Unopened # {}
        /\ event' = [event EXCEPT ![h] = "expired", ![NextHandle] = "new"]
        /\ zk' = NextHandle
     \/ event' = [event EXCEPT ![h] = "expired"] /\ zk' = Null
  /\ SessionStep
  /\ UNCHANGED <<creating, closing, registered, misused>>

(* A session that was opened behind the destructor expires later. *)
ExpiresDead(h) ==
  /\ event[h] \in {"ready", "restart"}
  /\ ~Alive("zk")
  /\ Use({"zk"})
  /\ \/ Over("crashed")
     \/ /\ event' = [event EXCEPT ![h] = "expired"]
        /\ SessionStep
        /\ UNCHANGED <<creating, zk, closing, registered>>

(* The event thread of the handle that is closed comes to its end. *)
EventEnds(h) ==
  /\ h = closing
  /\ event[h] \in {"new", "ready", "expired"}
  /\ event' = [event EXCEPT ![h] = "ended"]
  /\ SessionStep
  /\ UNCHANGED <<creating, zk, closing, registered, misused>>

(* The static destructors find a bookie, or main has taken it from them,   *)
(* or another event thread is destroying it.                               *)
StaticDestructor(h) ==
  /\ event[h] = "exit"
  /\ pointer
  /\ destroying = {}
  /\ destroying' = {h}
  /\ UNCHANGED <<process, main, pointer, built, threadVars, serverVars,
                 metricVars, sessionVars, signalVars, misused>>

ExitCompletes(h) == event[h] = "exit" /\ ~pointer /\ Dies("ended")

ExitAgain(h) ==
  /\ event[h] = "exit"
  /\ pointer
  /\ destroying # {} /\ h \notin destroying
  /\ TwoDestroy(h)

-----------------------------------------------------------------------------
Main ==
  \/ NoHostName \/ Refuse \/ Parse
  \/ ConstructMember \/ OpenFails \/ Assign
  \/ Bind \/ BindFails \/ StartSession
  \/ WaitForStop \/ Reset \/ ResetAgain \/ Return

Destroy(d) ==
  \/ TellThread(d) \/ DestroyStorage(d) \/ DestroyRegistration(d)
  \/ CloseSession(d) \/ DestroyZooKeeper(d)
  \/ StopServer(d) \/ DestroyServer(d) \/ DestroyMetrics(d) \/ Destroyed(d)

SessionEvent(h) ==
  \/ SessionReady(h) \/ SessionReadyDead(h) \/ Created(h) \/ CreateFails(h)
  \/ Expires(h) \/ ExpiresDead(h)

EventThread(h) ==
  \/ Reopen(h) \/ EventEnds(h)
  \/ StaticDestructor(h) \/ ExitCompletes(h) \/ ExitAgain(h)

IoThread(t) ==
  Insert(t) \/ PutReturns(t) \/ PutOnDead(t) \/ LoopEnds(t)

Next ==
  /\ process = "running"
  /\ \/ Main
     \/ \E d \in {"main"} \cup Handles : Destroy(d)
     \/ \E thread \in {"stats", "journal"} : ThreadEnds(thread)
     \/ Signal \/ HandlerStops \/ HandlerStopsDead
     \/ \E t \in IOThreads : LookUp(t) \/ Put(t) \/ IoThread(t)
     \/ Update \/ UpdateEnds
     \/ \E h \in Handles : SessionEvent(h) \/ EventThread(h)

(* Threads run, and what has begun ends: a signal handler, a put on a      *)
(* Storage that is there (AddsAreAnswered and DestroyCompletes in          *)
(* Storage), an update.  Nobody need connect, add, signal or answer.       *)
Fairness ==
  /\ WF_vars(process = "running" /\ Main)
  /\ \A d \in {"main"} \cup Handles : WF_vars(process = "running" /\ Destroy(d))
  /\ \A thread \in {"stats", "journal"} :
       WF_vars(process = "running" /\ ThreadEnds(thread))
  /\ WF_vars(process = "running" /\ (HandlerStops \/ HandlerStopsDead))
  /\ \A t \in IOThreads : WF_vars(process = "running" /\ IoThread(t))
  /\ WF_vars(process = "running" /\ UpdateEnds)
  /\ \A h \in Handles : WF_vars(process = "running" /\ EventThread(h))

Spec == Init /\ [][Next]_vars /\ Fairness

-----------------------------------------------------------------------------
ProcessTypeOK ==
  /\ process \in {"running", "ended", "crashed", "hung"}
  /\ main \in {"parse", "construct", "bind", "startSession", "wait", "reset",
              "destroy", "return"}
  /\ pointer \in BOOLEAN
  /\ built \in 0 .. Len(Declared)
  /\ destroying \in SUBSET ({"main"} \cup Handles)
  /\ threads \in SUBSET {"stats", "journal"}
  /\ ending \in SUBSET {"stats", "journal"}
  /\ listening \in BOOLEAN
  /\ stopped \in BOOLEAN
  /\ io \in [IOThreads -> {"off", "idle", "lookup", "put", "stuck"}]
  /\ found \in [IOThreads -> IOThreads \cup {Null}]
  /\ uses \in [IOThreads -> IOThreads \cup {Null}]
  /\ metric \in IOThreads \cup {Null}
  /\ mutex \in IOThreads \cup {"stats", Null}
  /\ event \in [Handles -> {"off", "new", "ready", "restart", "expired", "exit",
                            "ended"}]
  /\ creating \in SUBSET Handles
  /\ zk \in Handles \cup {Null}
  /\ closing \in Handles \cup {Null}
  /\ registered \in BOOLEAN
  /\ handler \in BOOLEAN
  /\ told \in BOOLEAN
  /\ misused \in SUBSET {"metrics", "server", "zk", "registration", "storage",
                         "bookie"}
  /\ process = "running" => (main = "destroy" <=> "main" \in destroying)
  /\ mutex = "stats" => "stats" \in threads
  /\ \A t \in IOThreads : io[t] = "lookup" <=> mutex = t

(* The metrics are there for whoever uses them, at whatever moment and on  *)
(* whatever thread the bookie is destroyed: IO threads that set up the     *)
(* connections accepted last, and the statistics thread in its last        *)
(* update.  They are declared first, the server's destructor joins the IO  *)
(* threads, and their own destructor joins the statistics thread.  (The    *)
(* same is not true of the storage, the registration and the ZooKeeper.)   *)
MetricsAreThere == "metrics" \notin misused

(* The handlers of all connections add their samples to the metric that    *)
(* the statistics report, also when the first connections come at once on  *)
(* several IO threads.                                                     *)
HandlersShareMetric ==
  \A t \in IOThreads : uses[t] # Null => uses[t] = metric

(* Clients find the bookie by its node and then connect to it: a bookie    *)
(* that nobody has stopped and that is registered listens.                 *)
RegisteredIsServed ==
  process = "running" /\ registered /\ ~stopped => listening

(* No connection, session or signal meets a bookie that is not whole until *)
(* its destruction has begun: the undefined behaviour of the code is       *)
(* confined to that.                                                       *)
WholeUntilDestroyed == misused # {} => ~pointer \/ destroying # {}

(* A signal that finds the bookie, and an exit on an event thread, bring   *)
(* the end of the process, in whatever order its threads are then joined;  *)
(* unless a destroyed object was used on the way, such as the Storage by a *)
(* put, which may block its IO thread and with it the join for ever.       *)
StopsWhenTold ==
  told \/ (\E h \in Handles : event[h] = "exit") ~>
    process # "running" \/ misused # {}

(* main.cpp:61 has the reset in main trigger the destructor of the bookie:  *)
(* nobody else is in it then.                                              *)
DestroyedOnce == "main" \in destroying => destroying = {"main"}
=============================================================================
