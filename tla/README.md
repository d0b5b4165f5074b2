# bookie-cpp in TLA+

A verification project for [bookie-cpp](../src/README.md), a C++ server that
implements part of the Apache BookKeeper protocol: clients add entries over TCP, the
bookie writes them to RocksDB in groups and acknowledges them, and it keeps an
ephemeral node in ZooKeeper by which clients find it.  The modules here are
translated from the code under `src/src/`; what is not there (RocksDB, wangle and
folly, the ZooKeeper C client and its servers, the network) is modelled from how that
code uses it and marked `external` in `PROJECT.json`.

How to run it, in this directory:

    tlc -workers 2 -config StorageSafety.cfg MCStorage      # any cfg of PROJECT.json "runs"
    tlapm StorageProofs.tla             # and the other modules named ...Proofs

`PROJECT.json` lists the components, the runs with their properties, a code mutant
that breaks each property, the source lines every definition stands for, the
findings, the hazards and the theorems.

## The system

| Component | State it keeps | Operations | Runs on | Module |
|---|---|---|---|---|
| `Storage` | queue of entries, group under collection (promises and write batch), RocksDB | constructor, `put`, `runJournal`, destructor | IO threads call `put`, one journal thread, the main thread destroys | `Storage`, abstract `GroupCommit` |
| `BookieHandler`, `Bookie::addEntry` | an add in progress is a continuation on a future | `read`, `handleAddEntry`, `handleReadEntry` (empty), `readEOF` | the IO thread of the connection | `BookieServer` |
| `BookiePipeline` | the bytes not yet decoded | frame decoder, codec, handler | the same | `BookieServer` |
| `BookieCodecV2`, `PacketHeader` | none | `read` and `write` of both sides | the same | `BookieCodecV2` |
| `ZooKeeper` | handle, session promise, listeners | `startSession`, `handleSessionEvent`, `registerSessionListener`, `create`, destructor | one event thread per handle, main thread | `ZooKeeper` |
| `BookieRegistration` | none beyond its path | constructor, `handleNewZooKeeperSession`, `registerBookie` | the event thread | `BookieRegistration` |
| `main`, `Bookie` | the pointer to the bookie and its members | construct, start, signal, stop, destroy, exit | main thread, signal handlers, event thread (`std::exit`) | `BookieProcess` |
| `Metrics` | metrics by name, a histogram per thread and metric | `createMetric`, add a sample, merge and clear every period | IO threads, journal thread, statistics thread | map and lock in `BookieProcess`, histograms in `PerfClient` |
| `RateLimiter` | stored permits, time of the next free one | `aquire` | the client's sender thread | `RateLimiter` |
| `perfClient` | adds without response, connections awaited | `main`'s wait, send loop, `read`, `readEOF` | main thread, sender thread per connection, IO threads | `PerfClient` |
| `BookieConfig` | options | constructor, `parse` | main thread | its outcomes in `BookieProcess` |
| `Logging`, `BookieProtocol` (printing) | loggers | start-up only | main thread | not modelled: no behaviour after start-up |

How they interact.  A frame that arrives is decoded on the connection's IO thread and
`handleAddEntry` calls `Storage::put` there; `put` may block on the full queue, and
with it every connection of that thread.  The journal thread takes entries from the
queue, writes a group and fulfils promises; the continuation of each add is then
posted back to the IO thread, which writes the response.  ZooKeeper's event thread
calls the session listeners, the only one of which is the bookie's registration; its
`create` completes on that thread too, and any error of it calls `std::exit`, which
destroys the bookie under its IO threads.  `~Storage` runs before the IO threads are
joined (`Bookie.h:57-61`), so puts during the destructor are ordinary, and puts after it
possible.

What is hard about it, and which property is there for it, is the `hazards` list of
`PROJECT.json`.  In short:

* **Storage**: answers before, after or without the write; a group half collected when
  the exit entry comes; a queue that is full when producers and the destructor meet; a
  batch that outlives its group; errors of `Write` that nobody looks at; a key that is
  the address of another thread's stack; crashes and power losses between any two of
  these.  Correct means: an acknowledged add stays, a refused one never happened, adds
  are logged in queue order and each once, everybody gets an answer.
* **Server**: a stop, a crash or the end of the connection between the store's answer and
  the response; two continuations of one future; an IO thread that waits for itself;
  frames that are cut or shorter than their header says.  Correct means: a response tells
  what happened to the entry, each add gets one, and the fields arrive as they were sent.
* **ZooKeeper**: reconnections and new sessions are the same event; listeners registered
  while a session comes up; an expiry in the middle.  Correct means: each listener hears
  of each session once.
* **Registration**: creates whose connection is lost, nodes left behind by an earlier
  process, expiry.  Correct means: the bookie never trips over its own node, never takes
  an old node for its own, and does not stay unregistered.
* **Process**: signals before, during and after the start; members built and destroyed in
  the order of `Bookie.h` while the threads of others run; an exit on the event thread
  against `main`'s own end; event threads of handles that nobody closes; metrics created
  by several threads.  Correct means: the metrics outlive everybody who uses them, nothing
  meets a bookie that is not whole before its destruction, what is registered is served,
  and who tells the process to stop sees it end.
* **Client**: a response that could be read before its add is remembered; a sender that
  is late and gets permits twice for the same time; samples added while they are counted;
  one connection of several that is refused.  Correct means: every response finds its
  add, what is pending has no response yet, the rate holds over any stretch of time, and
  samples are counted once unless the counting met them.

Some hazards of the list have no property, because what can go wrong there does go wrong
and nothing in the repository promises otherwise, or because no caller in the repository
can bring it about.  The properties next to them stop short of them: `ArrivesAsSent` has
requests with flags of one byte only; `SamplesAreCounted` excludes samples that met the
clearing of their histogram; `PendingIsOutstanding` speaks of open connections, and what a
sender adds after the end of its connection stays for ever; `WholeUntilDestroyed` and
`StopsWhenTold` exempt the uses of destroyed objects during the destruction, of which
`MetricsAreThere` excludes those of the metrics and no others.

## Modules

| Module | What it is |
|---|---|
| `GroupCommit` | What `Storage::put` promises: adds take a place in one order, the database is handed the order in groups of at most `SyncLimit + 1`, answers follow in that order, broken promises go only to adds the database has not seen. |
| `Storage` | `Storage.cpp`, one action per step of `put`, `runJournal` and the destructor, and the crashes. Implements `GroupCommit`. |
| `StorageProofs` | Types, acknowledged adds and refused adds of `Storage`. |
| `StorageOrderProofs` | The order of the log, and that `Storage` implements `GroupCommit`. |
| `BookieCodecV2` | The codec and the length-field frames as operators on bytes. |
| `BookieCodecProofs` | What one side writes, the other reads; how a stream carries frames. |
| `BookieServer` | Connections, IO threads and the handler above an instance of `GroupCommit`. |
| `AddService` | What a bookie promises to clients that add entries: each entry has at most one place in one log, the places grow, a refused entry never gets one, and an acknowledged one has it for good unless the database reported an error for it. |
| `BookieServerProofs` | The theorems about `BookieServer`, and that it implements `AddService`. |
| `ZooKeeper` | Handles, sessions and listeners, with a `SessionSpec` of its own. |
| `ZooKeeperProofs` | The theorems about `ZooKeeper`. |
| `BookieRegistration` | Extends `ZooKeeper` by `create`, the ephemeral node and the processes of the bookie. |
| `BookieRegistrationProofs` | The theorems about `BookieRegistration`. |
| `BookieProcess` | One life of the process: `main`, the members of `Bookie` and the threads they own, signals, `createMetric`. |
| `BookieProcessProofs` | The theorems about `BookieProcess`. |
| `RateLimiter` | The constructor and `aquire` as operators on a limiter and the clock. |
| `PerfClient` | The load generator: main thread, sender threads, IO threads, the statistics thread. |
| `PerfClientProofs` | The theorems about `PerfClient` and its limiter. |
| `MCStorage`, `MCBookieServer`, `MCZooKeeper`, `MCBookieRegistration`, `MCBookieProcess`, `MCPerfClient` | Instances for TLC. |

### Storage

`putting[t]` is the entry an IO thread tries to enqueue (`PutBegin`, `PutEnqueue`),
`frame[t]` the `union Key` on its stack, of which the entry holds only the address:
`KeyBytes` reads whatever is there when the journal thread builds the record.
`journal` is the position of `runJournal`: `collect` (`CollectEntry`, `JournalExit`,
`QueueDrained`), `write` (`Write`), `complete` (`SetValue`, one promise a step),
`exited`.  `phase` is the life of the object: `Open`, `Destroy`, `EnqueueExit`,
`FinishDestroy`.  `wal` holds the batches RocksDB has, `durable` how many survive a
power loss.

Choices that a reader may question:

* Entering the queue is one step.  `MPMCQueue` hands out a ticket and then fills the
  slot; the consumer waits for the slot of its own ticket, so the order of tickets is the
  order in which entries appear.
* RocksDB is an append-only log of atomic batches.  `Write` may return an error, before or
  after the batch entered the log.
* `put` reads `data->data()` after `data` was moved (`Storage.cpp:130`); the value is not
  used, the optimised build has no such load, and the model has none.
* The journal thread starts before the metric it reads at line 144 is constructed
  (`Storage.cpp:54-57`): the pointer is `valid` or `wild`, and a wild one ends the process
  where it is followed, at line 193.
* Bytes of a frame that was left are those of another key or `Garbage`.
* A `put` on a `Storage` that is already destroyed is in `BookieProcess`.

### BookieServer and the codec

`toServer` and `toClient` are byte streams.  `ReadAdd`, `ReadOther` and `RejectFrame` are
one pass of the decoder, `BookieServerCodecV2::read` and `BookieHandler::read`; `busy[t]`
is the `put` an IO thread is in until `PutDone`.  `Continue` is the continuation of
`handleAddEntry`.  It may run in any order with others: a future that was complete when
`then` was called is posted by another road than one completed later. The store is
`GroupCommit`, instantiated; it says what is handed to the database and answered.
`logged` is the database's log and `writeErrors` the adds of groups whose `Write`
returned an error: `Commit` hands over a group and either `WriteSucceeds`, or
`WriteFails` with the group in the log or not, as in `Storage`; in both cases `Answer`
follows, since nobody looks at the error (`Storage.cpp:192`).  The process may crash in
this model, the machine does not: what a power loss takes from the log is in `Storage`.
After a frame that is too short the rest of the buffer is still decoded (`closing`) and
then the pipeline is deleted; a continuation that finds its context destroyed does
nothing, writes to another connection, or the process ends.

A client sends adds and reads that fit in a frame (`ClientRequests`), each whole or
without its last bytes (`CutOf`).  A frame that ends inside the data of an add is
another, shorter add and nobody can tell, so a cut frame lacks more than its data
(`RequestAssumption`).  No two adds name the same entry, as `perfClient` numbers its
ledgers and the entries of each (`IdentifierAssumption`): a response names its add by
these numbers only, and `OneReplyPerAdd` would say nothing without it.

`AddService` has no connections, threads, queue, crashes or processes.  `BookieServer`
shows it (`Service`) which adds were sent (`Asked`), where in the log each entry is
(`Place`), for which the database reported an error (`writeErrors`), and what was read of
each add (`Outcome`).  `Storage` implements `GroupCommit`, and `BookieServer` on top of
`GroupCommit` implements `AddService`.  `AddService` is therefore what the code keeps and
not what a client would like: its `Fail` and `Acknowledge` let an entry be acknowledged
that is not in the log.  That this happens is the finding of `storage_write_errors`;
without the error, acknowledged means logged.

### ZooKeeper and BookieRegistration

`pc[h]` is where the event thread of handle `h` is: between events, calling listeners
(`notify`), or between the two steps of an expiry (`restart`: the promise is reset, the
lock given up, the next handle not open).  `registering[l]` is a thread inside
`registerSessionListener` that has seen a ready session and has not called the listener.
Sessions live on the servers: `server[h]`; `link[h]` is the connection; `gone[h]` that
the client has learnt of the expiry.  In `BookieRegistration`, `requests[h]` are creates
without an answer, `stray` creates that may still take effect after their connection was
lost, `node` the session that owns the node.  Processes of the bookie follow one another
on the same servers; a handle number is never used twice.

### BookieProcess

`built` counts the members of `Declared` that are there: `ConstructMember` adds the next,
the `Destroy...` actions take the last away, on whichever thread is in `destroying`.
`main` is the main thread's place in `main.cpp` (`bind` and `startSession` are the two
calls of `Bookie::start`, in `StartOrder`), `pointer` whether the static `bookie` is set.
`threads` are the statistics and the journal thread, from the constructor of the metrics
and of the storage until they end: the destructor tells them (`TellThread`, in `ending`),
they come to their end when what they are in is over (`ThreadEnds`), and the destructor
joins them (`Joined`).  `io[t]` is what an IO thread of the server does: `lookup` and
then `Insert` are the two halves of `createMetric` under `mutex`, called by the
constructor of a connection's handler; `put` is `Storage::put`; `off` is before `bind`
and after the loop has been joined (`LoopEnds`).  A connection that was accepted before
the listening socket was closed may still get its handler.

`event[h]` is the event thread of a ZooKeeper handle: `new` until its session is ready,
`ready`, `restart` between the two halves of an expiry, `expired` when it has opened the
next handle, `exit` in `std::exit`, `ended`.  Only `~ZooKeeper` closes a handle, the one
that `zk_` points to by then (`CloseSession`), and waits for that handle's thread unless
it runs on it (`Closed`).  So the threads of expired handles go on through the
destruction and until the end of the process, their creates may still fail and call
`std::exit`, and a handle that an expiry opens while the old one is being closed calls a
destroyed client (`SessionReadyDead`, `ExpiresDead`).

The other modules say what a member does while it is there; here it is only there or not.
What a reader may question:

* The use of a destroyed object (`PutOnDead`, `HandlerStopsDead`, `SessionReadyDead`,
  `ExpiresDead`) is undefined.  It ends the process or does nothing; a `put` may also wait
  for ever on what it takes for a full queue.  `misused` records the member that was used,
  and the model goes on with what the process does if it survives.  Every step that uses
  a member says so (`Use`), the metrics' own users too (`LookUp`, `Insert`, `Update`,
  `UpdateEnds`): that those never meet a destroyed object is `MetricsAreThere`.
* Two threads in `~Bookie` (`TwoDestroy`) end the process, crash it or hang; the model
  does not follow them further.
* `std::unique_ptr::reset` clears the pointer and then destroys; its destructor, which the
  static destructors run, destroys and then clears.  So `main` can enter `~Bookie` again
  behind an event thread (`ResetAgain`), and so can the event thread of another handle
  (`ExitAgain`), but no event thread behind `main`.
* The statistics thread is started before the mutex it uses is constructed
  (`Metrics.h:107`), but takes it only after a period of at least a second: the model has
  it constructed by then.
* When `~ServerBootstrap` joins its IO threads, what a loop has begun ends and it does not
  go round again (`Joining`).
* The node goes away with `~ZooKeeper` if the servers hear of the close.

### PerfClient

`sender[c]` is the connection's thread: in `aquire`, which leaves it asleep until
`wake[c]`, or about to `HandOver` the entry to the IO thread's loop `tasks[t]`.  The time
between the end of the sleep and the hand-over is whatever the scheduler takes.  `io[t]`
is what the IO thread is in the middle of: `insert`, between the write of an add and its
place in `pendingRequests_`, or `sample`, between the read of a histogram's count and the
write of the incremented one.  The histogram is folly's, in a thread-local that
`accessAllThreads` hands to the statistics thread, and neither side takes a lock for its
contents: `Merge` and `Clear` are steps of their own, and `raced` records that they met a
sample.  A lock folly does take, on the list of threads, only makes a thread's first
sample wait; the model lets it go on.  A connection may be refused (`ConnectFails`):
`main` waits for all of them in turn, in `Order`, and throws at the first that failed
(`ConnectionMissing`), whatever the others are doing.  The limiter's interval and its cap
come from the rate of the command line and the number of connections; the interval is cut
to whole units of the clock, so the limiter grants more than it was asked for, and
`RateIsAtMostDoubled` says how much more at most.  Numbers of ledgers, the parsing of
options and the printing of statistics are left out.  The limiter's clock does not go
back.

## Runs

| Run | Instance | What it shows |
|---|---|---|
| `storage_safety` | 2 IO threads, 3 adds (two of one key), queue 2, groups of at most 2, fsync, power loss | `TypeOK`, `AckedSurvives`, `BrokenNeverLogged`, `LogInOrder`, and that every step of `Storage` is one of `GroupCommit` or a stutter |
| `storage_liveness` | the same threads and adds, queue 1, no fsync | `AddsAreAnswered`, `DestroyCompletes`; without fsync, acknowledged adds survive a process crash |
| `storage_keys`, `storage_write_errors`, `storage_chains` | 2 adds | three statements of the documentation that do not hold, see below |
| `server` | 2 connections on one IO thread; 2 adds and a short frame on one, a fencing read on the other, groups of at most 2, writes that fail, process crashes | `ArrivesAsSent`, `RepliesTellOutcome`, `OneReplyPerAdd`, `LoggedAsSent`, `AddsAreReplied`, and that every step of the server is one of `AddService` or a stutter |
| `zookeeper_sessions` | 3 listeners, 4 handles, failing `zookeeper_init` | `OncePerSession`, `EverySessionIsTold` |
| `registration` | 4 handles over any number of processes | `NeverMeetsItself`, `ReportedNodeIsThere`, `CreateOnItsThread`, `RegisteredOrGone` |
| `registration_renewed` | 2 handles, one process | a statement of a comment that does not hold |
| `process` | 2 IO threads and 2 ZooKeeper handles, one life from the first option to the last static destructor | `MetricsAreThere`, `HandlersShareMetric`, `RegisteredIsServed`, `WholeUntilDestroyed`, `StopsWhenTold` |
| `process_exit` | the same | a comment in `main` that does not hold |
| `perf_client` | 2 connections on one IO thread, one with 4 adds, 3 adds in 4 ticks shared by 2 (an interval of 2 2/3 ticks, cut to 2), one stored permit | `ResponseFindsItsAdd`, `PendingIsOutstanding`, `RateIsKept`, `RateIsAtMostDoubled`, `SamplesAreCounted`, `SamplesAreCollected` |

Bounds and why they are enough.  Three adds are the fewest for a group that is written, a
second that is collected and an entry behind it; with groups of at most two (the code's
1000 + 1) one group fills, one is cut short by an empty queue, and the exit entry falls
inside, before and behind one.  A queue of two, and of one in the liveness run, is
reached by two producers and the destructor.  Two threads are enough for a frame to be
reused and for a producer to be overtaken.  The server's store is abstract, so what its
connections need is two adds of one connection, whose order and whose continuations can
be confused, a frame that closes it under them, and another connection on the same
thread, which stays and to which a destroyed context may write.  A third add, on that
connection, was tried and takes too long; the theorems about `BookieServer` cover it.
Four handles are a session, the one that replaces it after an expiry, one of a later
process and the one that replaces that; `MaxEvents` bounds how often a connection comes
and goes before the event thread looks. Three listeners are one that is registered early,
one that meets the session coming up and one that comes late.  The session of the last
handle does not expire in the model, and a process is only started while a handle is
left, so `BookieRegistration` may stop; so may `process` and `perf_client`, whose
processes end.  The runs of these three modules do not check for deadlock.  All others
do.  Two IO threads are enough for two handlers to look for one metric, and two handles
for one that has expired, whose thread nobody joins, beside the one that is closed; the
rest of `BookieProcess` has no bound, it ends by itself.  In `perf_client` four adds are
one more than the rate allows at one instant (the stored permit, the one that goes into
debt, one granted earlier), the clock starts at three intervals, more than may be stored,
and runs for one interval, in which a permit is earned or a debt slept off. The second
connection is there to be refused or awaited while the first is at work; it has a limiter
and a sender of its own, so its adds would only repeat those of the first.  A second IO
thread would have a histogram that no sample is added to; it was tried, and makes the run
four times as long with the same result.

Symmetry is not used: the runs are small, and requests and keys are told apart.

### Fairness

* `Storage`: weak fairness of the journal thread and of the destructor's join.  Strong
  fairness of a producer that waits for room, and of the exit entry: `MPMCQueue`'s
  tickets serve waiting producers in turn, so one that keeps finding room again is not
  overtaken for ever.  No fairness for callers, crashes or the destructor's call.
* `BookieServer`: an IO thread runs something while it has something to run, be it a
  frame, a continuation or the return from `put` (one condition per thread, so that no
  order among them is assumed); that `put` returns is what `AddsAreAnswered` of `Storage`
  rests on as well.  The store commits and answers, what was written arrives.  None for
  clients sending, for stop, crash and restart.
* `ZooKeeper`: event threads and registering threads run.  Nothing is assumed of the
  network.
* `BookieProcess`: the main thread, a thread in `~Bookie`, a thread that was told to end,
  a signal handler, an IO thread inside a call, an update, an event thread between the
  two halves of an expiry, one that is closed and one in `std::exit` go on.  That a `put`
  on a living `Storage` returns is `AddsAreAnswered` of `Storage`.  Nobody need connect,
  add, signal, or answer a `create`, and no session need come up.
* `PerfClient`: the IO threads and the statistics thread run until the process exits.  The
  clock, `main`, the senders, the bookie and the network may stop.
* `BookieRegistration`: also that a client that looks for a server finds one in the end,
  and that requests on a connection that holds are answered.

## What the code does not keep

Each is a run that must fail, with the counterexample TLC prints.

| Statement | What happens | Run |
|---|---|---|
| `Storage.cpp:74` "Keys are always 16 bytes (ledgerId, entryId)" | a record is logged under the bytes of a later call on that stack frame | `storage_keys` |
| `README.md:30` "Fsync the WAL before acking the entry" | the status of `Write` is dropped; a failed add is acknowledged | `storage_write_errors` |
| `BookieProtocol.h:32` "exactly as it should be logged" | of a chain of buffers only the first is logged | `storage_chains` |
| `BookieRegistration.h:29` "makes sure the z-node is re-created" | an error of that `create` ends the process; the retry is commented out | `registration_renewed` |
| `main.cpp:61` "Trigger bookie destructor" | after a signal, `main` and the `std::exit` of the event thread (`BookieRegistration.cpp:47`) are both in it | `process_exit` |

Because of the second, `AckedSurvives` is stated for adds whose `Write` reported no error,
`RepliesTellOutcome` for entries in the log or in `writeErrors`, and `AddService` with the
same exception: a client that reads OK cannot rely on the log, only on the attempt.  What
needs no exception is the other half: an add that was refused is not in the log and was
never handed to the database.
Two more are plain from the code and have no run: a read, whose response
`BookieProtocol.h:42` describes, is never answered (`handleReadEntry` is empty); and four
bytes that were never written follow the fields of an add's response
(`BookieProtocol.h:33`), which the client model skips by the frame's length.

## Proofs

`StorageProofs` proves of `Storage`, for any numbers of threads, requests and keys, any
queue capacity and group limit, with or without fsync and power loss:

* `TypeCorrect`: `Spec => []TypeOK`.  Only assumption: `ConstantsAssumption`, that the
  constants have their types, capacities are positive and `Null` is neither a thread nor
  a request.
* `AckedAddsSurvive`: `Spec => []AckedSurvives`.  The property is not inductive:
  `SetValue` fulfils a promise of the group, and nothing in the property says that the
  group was written.  `AckInv` adds it: while a group is collected, each of its requests
  has a record in the write batch; once `Write` has returned, each is safe in the log or
  had an error.  The steps that matter are `CollectEntry` (a promise and its record are
  added together, lemma `CollectGroups`), `Write` (the batch becomes safe as a whole,
  lemma `WriteExtends`), `SetValue` (lemma `TailPromised`) and the crashes (a safe record
  stays, lemma `SafeKept`).
* `BrokenAddsAreNotLogged`: `Spec => []BrokenNeverLogged`.  A promise is broken where its
  request is at that time: in the group, or in the queue behind the exit entry.
  `PlaceInv` says that a request is in one place only (waiting to enter, queued once, or
  in the group), that nothing waiting or queued has been logged, that the batch holds
  records of the group only, and that the group itself is unlogged until `Write`.  The
  lemmas `PutEnqueueMoves`, `HeadLeaves`, `ExitEntryMoves` and `WriteLogs` say how
  requests move between the places.

`StorageOrderProofs` goes on from there, from the same assumption:

* `StorageImplementsGroupCommit`: `Spec => Abstract!Spec`, step by step: every action of
  `Storage` is an action of `GroupCommit` on what the refinement mapping shows of it, or
  leaves that alone.  `LineInv` says where in the line `submitted` of accepted adds each
  part of the store is.  Up to `answered` the futures are settled, behind it all are
  pending, and no request has two places (`LineOfRequests`); the group is the stretch
  behind `answered` and the batch has its records (`LineOfGroup`); the queue is the rest
  of the line, shifted by the exit entry where that stands before it, and the exit entry
  is there once at most and only while the destructor joins (`LineOfQueue`).
* `LogKeepsTheOrder`: `Spec => []LogInOrder`, with `LogInLine`: what RocksDB has in its
  log has a place in line among the committed adds, so the next batch stands behind it.

`ZooKeeperProofs` proves of the ZooKeeper client on its own (`SessionSpec`), for any
numbers of listeners and handles, from `SessionAssumption` (the bounds are positive):

* `SessionTypeCorrect`: `SessionSpec => []SessionTypeOK`, which also says that a handle's
  thread is calling listeners exactly while some are left to call.
* `ToldOnce`: `SessionSpec => []OncePerSession`.  `OneCurrent` says that only the handle
  opened last has events to come or a busy thread, that those before it are over, and that
  an expiry is the last event of a handle; lemma `CurrentStays` carries it through every
  step of that handle.  `CalledOnce` says that a call already made, one in `toNotify` and
  one under way in `registerSessionListener` exclude each other, and that a listener told
  of a session is registered and the promise was fulfilled for that session.  So the first
  connection of a session, which finds the promise unfulfilled, finds nobody told of it.

`BookieRegistrationProofs` proves of the registration, with any number of handles and
processes, from `SessionAssumption` and `RegistrationAssumption`: the registration is the
only listener, as `BookieRegistration.cpp:34` is the only caller of
`registerSessionListener` (`CreateOnItsThread` would be false with several: a listener
registered in the middle of a session is called on the thread that registers it).

* `RegistrationTypeCorrect`, `TheProcessNeverMeetsItself`, `TheReportedNodeIsThere` and
  `CreateStaysOnItsThread`: the four invariants of the run `registration`.
  `RegistrationInv` strengthens them together, since each rests on the others.  `LifeInv`
  says what there is at each stage of a process, above all one listener; `PromiseInv`
  that a promise stands for the handle opened last.  `HandleOK` says that only that
  handle is in use, and that every session before it in this process has expired;
  `ThreadOK` what may still be ahead of a handle's event thread, nothing but lost creates
  behind an expiry; `CreateOK` that a session asks for its node once, so that a create
  which may still take effect finds no node of its own session; `NodeOK` that a session
  that was told of its node keeps it as long as it lives.  `NodeInv` has the node go with
  its session.

`PerfClientProofs` proves of the load generator, for any numbers of connections, threads
and entries and any rate, from `ClientAssumption` (types), `RateAssumption` (the limiter's
interval is at least one tick of its clock, as its constructor asserts) and, for the
samples alone, `ThreadsAssumption` (there are finitely many IO threads):

* `ClientTypeCorrect`.
* `PendingRequestsAreOutstanding` (`PendingIsOutstanding`) and `ResponsesFindTheirAdds`,
  the action property `ResponseFindsItsAdd`.  `AddsInv` says that an add is in the queue
  of its IO thread once and only before it is written (`QueuedOnce`), has one response at
  most and none while the bookie has it (`OneResponse`), and that what the connection
  remembers is what is outstanding, but for the one add the IO thread is in the middle of
  (`PendingMatches`); that thread is the connection's own, which is why a response cannot
  be read before its add is remembered.
* `TheRateIsKept`: `Spec => []RateIsKept`, over every stretch of time.  `Virtual` is the
  time up to which the limiter has handed out permits, had it never stored any: each
  permit takes an interval of it (`PermitsTakeTime`), and when an entry is handed over it
  is at most an interval ahead (`SleepTakesTime`) and, by the cap on what is stored, not
  far behind.  So `StretchTakesTime`: between two entries there is the time of the
  permits between them, less what may be stored and one.
* `TheRateIsAtMostDoubled`: `Spec => []RateIsAtMostDoubled`, the same in terms of the rate
  that was asked for.  A quotient that is at least one is more than half of what was
  divided (`IntervalsAreCut`), which is where `RateAssumption` is needed.
* `EverySampleIsCounted`: `Spec => []SamplesAreCounted`.  `CountInv` says that while no
  sample has raced, what a thread has loaded for its sample is what its histogram holds
  (`SamplesAreFresh`), and that answered adds, reported ones, the sum under way and the
  histograms balance (`CountIsKept`).  The histograms are summed by a fold over a set of
  threads, and what a fold computes for every set is an induction.  The library's
  induction theorems cannot be used, as they take an operator; `SubsetInduction` gets it
  from the well-foundedness of strict inclusion, for a set of subsets instead of a
  predicate. `TallySplits` takes one thread out of a sum, `TotalAgrees` says that a sum
  depends only on the histograms of its threads; every step of the statistics is one of
  the two.

`BookieProcessProofs` proves of the life of the process, for any numbers of IO threads and
ZooKeeper handles, from `ProcessAssumption` (the names of threads differ from `Null`, and
those of IO threads from the statistics thread's, those of handles from `main`'s):

* `ProcessTypeCorrect`, `MetricsOutliveTheirUsers`, `MetricIsShared`,
  `RegisteredIsListening` and `WholeBeforeDestruction`: the five invariants of the run
  `process`.  The inductive invariant `IInv` adds what is there at each place of `main`
  (`InStep`): no signal handler and no use of an object before the assignment, no IO
  thread before `bind`, no event thread and no destruction before `startSession`, one
  thread at most in `~Bookie`, and a whole bookie as long as the pointer is set and
  nobody destroys it.  `Owned` says that the statistics thread runs only while the
  metrics are there, and IO threads only while the server is: for the first,
  `~MetricsManager` joins; for the second, `~ServerBootstrap` joins, and the metrics are
  declared before the server, so that who is in `createMetric` has them.  `OneMetric`
  says that what `createMetric` has found is still true when it inserts, because the lock
  is held.

`BookieCodecProofs` proves of the codec, for every value of every field and data of any
length that fits in a frame:

* `AddsArrive`, `ReadsArrive`: the frame that `ClientWrite` (or a client that reads) puts
  on the stream is cut out as it was, is well formed, and `ServerRead` finds the request
  in it. `AddLayout` and `ReadLayout` say which byte each field is at, `AddFrameRead` and
  `ReadFrameRead` that the reader looks there, and that a frame which lacks some of its
  fields is rejected.  Flags above 255 do not survive (`BookieCodecV2.cpp:36`):
  `ClientRequests` has flags of one byte.
* `ResponsesArrive`: the same for `ServerWrite` and the client's read, which has to skip
  the four bytes that nobody writes.
* `InTransit` says that a stream is the packets of what was sent and not yet read, one
  behind the other.  `TransitGrows` and `TransitShrinks` carry it through a write and
  through the frame decoder, wherever the bytes of the stream are cut by the network.

`BookieServerProofs` proves the five invariants of the run `server` and the refinement it
checks, for any numbers of connections and IO threads, any requests and any group limit,
with stops, crashes and restarts, from `ServerAssumption` (types), `RequestAssumption` and
`IdentifierAssumption` (above; only `ReplyInv` and the theorems that rest on it use it):

* `HandlersGetWhatWasSent`: `Spec => []ArrivesAsSent`.  `RequestInv` says that what is on
  its way to the server is `InTransit` from the first message not yet taken, in the order
  in which it was sent; so the frame a thread takes is that message's (`FrameTaken`).
* `RepliesAreTrue`: `Spec => []RepliesTellOutcome`.  `StoreInv` is the server's view of
  the store: behind `answered` all adds of the line are pending, up to `committed` the
  database was asked to log them (`Tried`: they are in the log or their `Write` has
  failed) and behind it it was not (`QueueInv`, `LogInv`), so a value stands for an entry
  that was tried and a broken promise for one that was not (`OutcomeInv`).  `ReplyInv`
  says that what a client has read, with what is on its way, is the replies to adds that
  are complete; and an outcome is final (`OutcomesStay`).
* `AddsAreAnsweredOnce`: `Spec => []OneReplyPerAdd`.  The replies of all connections
  together are to different adds, all of them settled (`WrittenInv`), wherever a
  destroyed context made a continuation write.
* `ServerStateIsTyped`: `Spec => []ServerTypeOK`.  Its last part, that an add without a
  place in the queue has an IO thread in `put`, is `PutInv`.
* `LogFollowsConnections`: `Spec => []LoggedAsSent`.  `OrderInv` says that a message is
  on its connection once, that the store knows only adds that were read (`WasRead`), that
  an add in `put` is on the thread of its connection and no later add of that connection
  has a place (`PutInTurn`), and so that places follow the connection (`PlacesFollow`).
  It needs both that `put` blocks the thread and that a connection stays on its thread.
* `BookieServesAdds`: `Spec => ServesAdds`, step by step.  The steps that are not
  stutters are `Send` (`SendAsks`), `Commit` (`CommitLogs`, a `Log` or, if the `Write`
  fails, a `Fail`: the new entries were asked for, have no response yet and come behind
  all others, or none of them does) and `Receive` (`ReceiveTells`: the response is that
  of one add, which nobody was told of before, and says what became of its entry). Taking
  a place in the queue is a stutter, since `Place` is about logged entries only
  (`PlacesStay`).

The server's store is `GroupCommit`, and `StorageImplementsGroupCommit` shows that
`Storage` keeps to it.

TLC checked the inductive invariants on the instances before they were proved.

Only model-checked: liveness everywhere, as the prover has no rule for fairness and none
for ENABLED (`AddsAreAnswered`, `DestroyCompletes`, `AddsAreReplied`,
`EverySessionIsTold`, `RegisteredOrGone`, `StopsWhenTold`, `SamplesAreCollected`). Every
invariant, action property and refinement of a passing run is a theorem.

## Not modelled

* `Metrics`: quantiles, rates and `getJsonStats`, which nobody calls.
* `main`: what the C++ runtime does with other static objects at exit, and that a signal
  handler may interrupt the very thread that holds a lock it needs (it takes the log's and
  the server's).
* Reads and fencing: the code has no implementation (`BookieHandler.cpp:80`,
  `Bookie.cpp:64-69`); the codec's side of a read is in the model.
* The texts of ZooKeeper errors and events (`ZooKeeper.cpp:144-255`): wording.
* Frames above `MaxFrameSize`, options of RocksDB, compaction, caches: not used by any
  property.
* The values of `BookieConfig`'s options (constants of the modules) and their parsing by
  boost; `Logging`; printing of protocol records.

## Plan

1. `Storage` with its proofs, `ZooKeeper` and `BookieRegistration`, `BookieCodecV2` and
   `BookieServer`: done.
2. `RateLimiter` and `PerfClient` with the samples of `Metrics`: done.
3. `BookieProcess`: signals, construction and destruction, exit on the event thread: done.
4. Proofs of `Storage` with the refinement, of `ZooKeeper`, `BookieRegistration`,
   `BookieProcess` and `PerfClient`: done.
5. Proofs of the codec (what one side writes the other reads) and from them of the
   invariants of `BookieServer`: done.
6. What the whole bookie promises (`AddService`), with the order of the log, the count of
   the samples and the bound on the rate that was asked for, checked and proved: done.
