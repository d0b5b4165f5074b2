----------------------------- MODULE PerfClient -----------------------------
(***************************************************************************)
(* perfClient.cpp, with the limiter and the metric it uses.  Each          *)
(* connection has a thread that makes add entries at the given rate and    *)
(* hands them to the connection's IO thread, which writes them, keeps them *)
(* in pendingRequests_ and looks them up there when the response comes.    *)
(* The time each add took is a sample in a histogram that its IO thread    *)
(* owns and that the statistics thread merges and clears without a lock.   *)
(*                                                                         *)
(* The bookie and the network are modelled from how they are used.  The    *)
(* ledger of a connection is the connection; a histogram is the number of  *)
(* its samples.                                                            *)
(***************************************************************************)
EXTENDS RateLimiter, FiniteSets, Sequences, FiniteSetsExt

CONSTANTS
  Connections,
  IoThreads,
  ThreadOf,     \* the IO thread of each connection
  Order,        \* the connections as main makes them
  Entries,      \* bound: how many entries each connection makes
  StartTime,    \* the clock when the program starts, far from its epoch
  MaxTime       \* bound: the clock stops here

ASSUME ClientAssumption ==
  /\ ThreadOf \in [Connections -> IoThreads]
  /\ Order \in Seq(Connections)
  /\ Entries \in [Connections -> Nat]
  /\ StartTime \in Nat
  /\ MaxTime \in Nat

ASSUME ThreadsAssumption == IsFiniteSet(IoThreads)

VARIABLES
  running,           \* the process has not exited
  clock,
  link,              \* the state of each connection
  limiter,           \* rateLimiter_ of each connection
  sender,            \* where the connection's thread is
  wake,              \* until when it sleeps
  sentAt,            \* history: when each entry was handed over
  tasks,             \* the loop of each IO thread: entries to send
  io,                \* what an IO thread is in the middle of
  pendingRequests,
  atBookie,          \* adds the bookie has and has not answered
  responses,         \* answers on their way
  histogram,         \* the samples each IO thread holds
  loaded,            \* the count an IO thread read and will write back
  answered,          \* history: samples taken
  updating,          \* the statistics thread is in updateStats
  rest,              \* the histograms it has yet to merge
  clearing,          \* the one it has merged and has yet to clear
  aggregated,
  reported,          \* history: the sum of the counts of all statistics
  raced              \* history: a sample met an update of its histogram

connectionVars == <<link, pendingRequests, atBookie, responses>>
senderVars     == <<limiter, sender, wake, sentAt>>
sampleVars     == <<histogram, loaded, answered>>
updateVars     == <<updating, rest, clearing, aggregated, reported>>
clientVars     == <<running, clock, connectionVars, senderVars, tasks, io,
                    sampleVars, updateVars, raced>>

EntryIds == UNION {0 .. Entries[c] - 1 : c \in Connections}

Idle == [at |-> "idle"]

Init ==
  /\ running = TRUE
  /\ clock = StartTime
  /\ link = [c \in Connections |-> "none"]
  /\ limiter = [c \in Connections |-> NewLimiter]
  /\ sender = [c \in Connections |-> "none"]
  /\ wake = [c \in Connections |-> 0]
  /\ sentAt = [c \in Connections |-> <<>>]
  /\ tasks = [t \in IoThreads |-> <<>>]
  /\ io = [t \in IoThreads |-> Idle]
  /\ pendingRequests = [c \in Connections |-> {}]
  /\ atBookie = [c \in Connections |-> {}]
  /\ responses = [c \in Connections |-> {}]
  /\ histogram = [t \in IoThreads |-> 0]
  /\ loaded = [t \in IoThreads |-> 0]
  /\ answered = 0
  /\ updating = FALSE
  /\ rest = {}
  /\ clearing = {}
  /\ aggregated = 0
  /\ reported = 0
  /\ raced = FALSE

-----------------------------------------------------------------------------
(* main makes the connections. *)

ConnectFails(c) ==
  /\ link[c] = "none"
  /\ link' = [link EXCEPT ![c] = "refused"]
  /\ UNCHANGED <<running, clock, pendingRequests, atBookie, responses,
                 senderVars, tasks, io, sampleVars, updateVars, raced>>

(* main waits for the connections one after the other; the exception of    *)
(* one that failed ends the process, whatever the others are doing.        *)
ConnectionMissing ==
  /\ \E i \in DOMAIN Order :
       /\ link[Order[i]] = "refused"
       /\ \A j \in 1 .. i - 1 : link[Order[j]] # "none"
  /\ running' = FALSE
  /\ UNCHANGED <<clock, connectionVars, senderVars, tasks, io, sampleVars,
                 updateVars, raced>>

-----------------------------------------------------------------------------
(* The thread of a connection. *)

(* transportActive, on the IO thread, starts it. *)
TransportActive(c) ==
  /\ link[c] = "none"
  /\ io[ThreadOf[c]] = Idle
  /\ link' = [link EXCEPT ![c] = "open"]
  /\ sender' = [sender EXCEPT ![c] = "aquire"]
  /\ UNCHANGED <<running, clock, pendingRequests, atBookie, responses,
                 limiter, wake, sentAt, tasks, io, sampleVars, updateVars,
                 raced>>

Aquire(c) ==
  /\ sender[c] = "aquire"
  /\ Len(sentAt[c]) < Entries[c]
  /\ limiter' = [limiter EXCEPT ![c] = Spend(@, clock)]
  /\ wake' = [wake EXCEPT ![c] = FreeAt(limiter[c], clock)]
  /\ sender' = [sender EXCEPT ![c] = "sleep"]
  /\ UNCHANGED <<running, clock, connectionVars, sentAt, tasks, io,
                 sampleVars, updateVars, raced>>

MutantDoNotSleep(c) == TRUE

SleptEnough(c) == clock >= wake[c]

(* The entry has its number and is handed to the IO thread, connected or   *)
(* not.                                                                    *)
HandOver(c) ==
  /\ sender[c] = "sleep"
  /\ SleptEnough(c)
  /\ sentAt' = [sentAt EXCEPT ![c] = Append(@, clock)]
  /\ tasks' = [tasks EXCEPT ![ThreadOf[c]] = Append(@, <<c, Len(sentAt[c])>>)]
  /\ sender' = [sender EXCEPT ![c] = "aquire"]
  /\ wake' = [wake EXCEPT ![c] = 0]
  /\ UNCHANGED <<running, clock, connectionVars, limiter, io,
                 sampleVars, updateVars, raced>>

Tick ==
  /\ clock < MaxTime
  /\ clock' = clock + 1
  /\ UNCHANGED <<running, connectionVars, senderVars, tasks, io, sampleVars,
                 updateVars, raced>>

-----------------------------------------------------------------------------
(* The IO thread: one callback after the other. *)

MutantReadAtOnce(t) == io[t].at # "sample"

BetweenCallbacks(t) == io[t] = Idle

(* A write to a closed connection fails, and nobody looks at its future. *)
Write(t) ==
  /\ io[t] = Idle
  /\ tasks[t] # <<>>
  /\ LET c == Head(tasks[t])[1]
         e == Head(tasks[t])[2]
     IN  /\ atBookie' = IF link[c] = "open"
                          THEN [atBookie EXCEPT ![c] = @ \cup {e}]
                          ELSE atBookie
         /\ io' = [io EXCEPT ![t] = [at |-> "insert", connection |-> c,
                                     entry |-> e]]
  /\ tasks' = [tasks EXCEPT ![t] = Tail(@)]
  /\ UNCHANGED <<running, clock, link, pendingRequests, responses, senderVars,
                 sampleVars, updateVars, raced>>

Insert(t) ==
  /\ io[t].at = "insert"
  /\ LET c == io[t].connection
     IN  pendingRequests' = [pendingRequests EXCEPT ![c] = @ \cup {io[t].entry}]
  /\ io' = [io EXCEPT ![t] = Idle]
  /\ UNCHANGED <<running, clock, link, atBookie, responses, senderVars, tasks,
                 sampleVars, updateVars, raced>>

(* The response stops the timer of its add, whose sample is added to what  *)
(* the histogram held when it was read.  It races with the statistics      *)
(* thread if that has merged the histogram and not yet cleared it.         *)
ReadOk(c, e) ==
  LET t == ThreadOf[c]
  IN  /\ BetweenCallbacks(t)
      /\ link[c] = "open"
      /\ <<e, "ok">> \in responses[c]
      /\ responses' = [responses EXCEPT ![c] = @ \ {<<e, "ok">>}]
      /\ io' = [io EXCEPT ![t] = [at |-> "sample", connection |-> c,
                                  entry |-> e]]
      /\ loaded' = [loaded EXCEPT ![t] = histogram[t]]
      /\ raced' = (raced \/ t \in clearing)
      /\ UNCHANGED <<running, clock, link, pendingRequests, atBookie,
                     senderVars, tasks, histogram, answered, updateVars>>

MutantKeepPending(pending, e) == pending

Remaining(pending, e) == pending \ {e}

AddSample(t) ==
  /\ io[t].at = "sample"
  /\ LET c == io[t].connection
     IN  pendingRequests' = [pendingRequests EXCEPT ![c] = Remaining(@, io[t].entry)]
  /\ histogram' = [histogram EXCEPT ![t] = loaded[t] + 1]
  /\ loaded' = [loaded EXCEPT ![t] = 0]
  /\ answered' = answered + 1
  /\ io' = [io EXCEPT ![t] = Idle]
  /\ UNCHANGED <<running, clock, link, atBookie, responses, senderVars, tasks,
                 updateVars, raced>>

(* Any error ends the process. *)
ReadError(c, e) ==
  /\ BetweenCallbacks(ThreadOf[c])
  /\ link[c] = "open"
  /\ <<e, "error">> \in responses[c]
  /\ running' = FALSE
  /\ UNCHANGED <<clock, connectionVars, senderVars, tasks, io, sampleVars,
                 updateVars, raced>>

(* The bookie's end of the connection comes after its last response; a     *)
(* connection that breaks takes the responses with it.                     *)
Close(c) ==
  /\ link[c] = "open"
  /\ BetweenCallbacks(ThreadOf[c])
  /\ link' = [link EXCEPT ![c] = "closed"]
  /\ atBookie' = [atBookie EXCEPT ![c] = {}]
  /\ responses' = [responses EXCEPT ![c] = {}]
  /\ UNCHANGED <<running, clock, pendingRequests, senderVars, tasks, io,
                 sampleVars, updateVars, raced>>

Answer(c, e, outcome) ==
  /\ e \in atBookie[c]
  /\ atBookie' = [atBookie EXCEPT ![c] = @ \ {e}]
  /\ responses' = [responses EXCEPT ![c] = @ \cup {<<e, outcome>>}]
  /\ UNCHANGED <<running, clock, link, pendingRequests, senderVars, tasks, io,
                 sampleVars, updateVars, raced>>

-----------------------------------------------------------------------------
(* The statistics thread: updateStats. *)

MutantUpdateOnce == ~updating /\ reported = 0

UpdateDue == ~updating

StartUpdate ==
  /\ UpdateDue
  /\ updating' = TRUE
  /\ rest' = IoThreads
  /\ UNCHANGED <<running, clock, connectionVars, senderVars, tasks, io,
                 sampleVars, clearing, aggregated, reported, raced>>

Merge(t) ==
  /\ t \in rest
  /\ clearing = {}
  /\ rest' = rest \ {t}
  /\ clearing' = {t}
  /\ aggregated' = aggregated + histogram[t]
  /\ raced' = (raced \/ io[t].at = "sample")
  /\ UNCHANGED <<running, clock, connectionVars, senderVars, tasks, io,
                 sampleVars, updating, reported>>

MutantKeepSamples(t) == histogram[t]

Cleared(t) == 0

Clear(t) ==
  /\ t \in clearing
  /\ histogram' = [histogram EXCEPT ![t] = Cleared(t)]
  /\ clearing' = {}
  /\ UNCHANGED <<running, clock, connectionVars, senderVars, tasks, io, loaded,
                 answered, updating, rest, aggregated, reported, raced>>

(* The statistics are there and the next update is scheduled. *)
Publish ==
  /\ updating
  /\ rest = {}
  /\ clearing = {}
  /\ updating' = FALSE
  /\ aggregated' = 0
  /\ reported' = reported + aggregated
  /\ UNCHANGED <<running, clock, connectionVars, senderVars, tasks, io,
                 sampleVars, rest, clearing, raced>>

-----------------------------------------------------------------------------
IoThread(t) ==
  \/ Write(t) \/ Insert(t) \/ AddSample(t)
  \/ \E c \in Connections :
       /\ ThreadOf[c] = t
       /\ \E e \in EntryIds : ReadOk(c, e) \/ ReadError(c, e)

StatsThread ==
  StartUpdate \/ Publish \/ \E t \in IoThreads : Merge(t) \/ Clear(t)

Next ==
  /\ running
  /\ \/ Tick
     \/ ConnectionMissing
     \/ StartUpdate
     \/ Publish
     \/ \E t \in IoThreads :
          Write(t) \/ Insert(t) \/ AddSample(t) \/ Merge(t) \/ Clear(t)
     \/ \E c \in Connections :
          \/ TransportActive(c)
          \/ ConnectFails(c)
          \/ Aquire(c)
          \/ HandOver(c)
          \/ Close(c)
          \/ \E e \in EntryIds :
               \/ ReadOk(c, e)
               \/ ReadError(c, e)
               \/ \E outcome \in {"ok", "error"} : Answer(c, e, outcome)

(* The statistics thread and the IO threads run until the process exits;   *)
(* the clock, the bookie, the network and main may stop.                   *)
Spec ==
  /\ Init
  /\ [][Next]_clientVars
  /\ WF_clientVars(running /\ StatsThread)
  /\ \A t \in IoThreads : WF_clientVars(running /\ IoThread(t))

-----------------------------------------------------------------------------
Callbacks ==
  {Idle} \cup [at : {"insert", "sample"}, connection : Connections,
               entry : EntryIds]

ClientTypeOK ==
  /\ running \in BOOLEAN
  /\ clock \in Nat
  /\ link \in [Connections -> {"none", "open", "closed", "refused"}]
  /\ limiter \in [Connections -> Limiters]
  /\ sender \in [Connections -> {"none", "aquire", "sleep"}]
  /\ wake \in [Connections -> Nat]
  /\ sentAt \in [Connections -> Seq(Nat)]
  /\ tasks \in [IoThreads -> Seq(Connections \X EntryIds)]
  /\ io \in [IoThreads -> Callbacks]
  /\ pendingRequests \in [Connections -> SUBSET EntryIds]
  /\ atBookie \in [Connections -> SUBSET EntryIds]
  /\ responses \in [Connections -> SUBSET (EntryIds \X {"ok", "error"})]
  /\ histogram \in [IoThreads -> Nat]
  /\ loaded \in [IoThreads -> Nat]
  /\ answered \in Nat
  /\ updating \in BOOLEAN
  /\ rest \subseteq IoThreads
  /\ clearing \subseteq IoThreads
  /\ aggregated \in Nat
  /\ reported \in Nat
  /\ raced \in BOOLEAN

(* read uses what it finds in pendingRequests_ without looking whether it  *)
(* found anything.  The add is there although it is inserted only after it *)
(* was written, because read runs on the thread that does both.            *)
ResponseFindsItsAdd ==
  [][\A c \in Connections, e \in EntryIds :
       ReadOk(c, e) => e \in pendingRequests[c]]_clientVars

(* Whatever stretch of time one looks at, a connection makes no more adds  *)
(* in it than the rate allows, the stored permits, the one that leaves the *)
(* next caller in debt and one that was granted before the stretch began.  *)
RateIsKept ==
  \A c \in Connections : \A i, j \in DOMAIN sentAt[c] :
    i <= j => j - i + 1 <= MaxPermits + 2
                             + (sentAt[c][j] - sentAt[c][i]) \div Interval

(* The client is asked for a rate and not for an interval.  An interval is *)
(* cut to whole ticks of the clock, by less than half of what it should be:*)
(* with the same allowance, a connection makes no more than twice the adds *)
(* that its share of the rate stands for.                                  *)
RateIsAtMostDoubled ==
  \A c \in Connections : \A i, j \in DOMAIN sentAt[c] :
    i <= j => j - i + 1 <= MaxPermits + 2
                + (2 * Rate * (sentAt[c][j] - sentAt[c][i]))
                    \div (Second * Shares)

(* The samples that the statistics have not counted are in the histograms, *)
(* unless a sample was added to a histogram while it was being cleared.    *)
SamplesAreCounted ==
  ~raced => answered = reported + aggregated
                         + MapThenSumSet(LAMBDA t : histogram[t],
                                         IoThreads \ clearing)

(* A sample waits for the next statistics and not longer.                  *)
SamplesAreCollected ==
  \A t \in IoThreads :
    histogram[t] > 0 ~> (histogram[t] = 0 \/ ~running)

(* Between callbacks of an open connection, pendingRequests_ holds exactly *)
(* the adds whose response is still to come: it does not grow with the     *)
(* length of the run.  After the end of the connection it does: the sender *)
(* goes on and no response comes any more.                                 *)
PendingIsOutstanding ==
  \A c \in Connections :
    link[c] = "open" /\ io[ThreadOf[c]] = Idle =>
      pendingRequests[c] = atBookie[c] \cup {r[1] : r \in responses[c]}
=============================================================================
