------------------------------ MODULE Storage ------------------------------
(***************************************************************************)
(* Storage.cpp: the IO threads call put, which hands the entry to the      *)
(* journal thread through a bounded queue and returns a future.  The       *)
(* journal thread collects entries into a group, writes the group to       *)
(* RocksDB in one batch and then fulfils the group's promises.  The        *)
(* destructor stops the journal thread with an entry that has no promise.  *)
(* The process may die at any moment and be started again on the same      *)
(* database.                                                               *)
(*                                                                         *)
(* RocksDB is modelled from its use: a batch is one atomic record of the   *)
(* write-ahead log, Write may fail, and only a synchronous Write makes the *)
(* log safe from a power loss.  Entering the queue is one step, taken in   *)
(* the order of MPMCQueue's tickets.                                       *)
(***************************************************************************)
EXTENDS Naturals, Sequences

CONSTANTS
  IOThreads,      \* threads that run the connection handlers
  Requests,       \* add-entry calls, each made at most once
  Keys,           \* (ledgerId, entryId) pairs
  KeyOf,          \* the key each request asks to be stored under
  QueueCapacity,  \* 10000 in the code
  SyncLimit,      \* 1000 in the code
  SegmentsOf,     \* the number of buffers in each request's IOBuf chain
  FsyncWal,       \* the --fsyncWal option
  PowerLoss,      \* the environment may lose what was not synced
  Null,           \* no entry, no promise
  Garbage         \* what sixteen bytes hold after their frame was reused

ASSUME ConstantsAssumption ==
  /\ KeyOf \in [Requests -> Keys]
  /\ QueueCapacity \in Nat \ {0}
  /\ SyncLimit \in Nat
  /\ SegmentsOf \in [Requests -> Nat \ {0}]
  /\ FsyncWal \in BOOLEAN
  /\ PowerLoss \in BOOLEAN
  /\ Null \notin IOThreads
  /\ Null \notin Requests

VARIABLES
  phase,               \* life of the Storage object
  frame,               \* the `union Key` in each thread's stack frame of put
  putting,             \* the entry each thread waits to enqueue, or Null
  future,              \* what each caller's future holds
  journalQueue,
  journal,             \* where runJournal is
  blockForNextEntry,
  journalSyncLatency,  \* the pointer runJournal read at its start
  entriesToSync,       \* promises of the current group
  writeBatch,          \* records of the current group
  wal,                 \* what the database holds: the batches, in order
  durable,             \* wal[1..durable] survives a power loss
  writeErrors,         \* history: requests whose Write returned an error
  submitted,           \* history: the requests in the order they were queued
  answered             \* history: submitted[1..answered] is settled

callers == <<phase, frame, putting, future>>
thread  == <<journal, blockForNextEntry, journalSyncLatency>>
group   == <<entriesToSync, writeBatch>>
disk    == <<wal, durable, writeErrors>>
history == <<submitted, answered>>
vars == <<callers, journalQueue, thread, group, disk, history>>

Outcomes  == {"unused", "pending", "value", "broken", "lost"}
AddEntry  == [key : IOThreads, data : Nat \ {0}, promise : Requests]
ExitEntry == [key |-> Null, data |-> 0, promise |-> Null]
Record    == [key : Keys \cup {Garbage}, data : Nat \ {0},
              request : Requests]

(* RocksDB recovers its log; the journal thread starts before the metric   *)
(* it reads is constructed, so the pointer it keeps may be anything.       *)
Init ==
  /\ phase = "down"
  /\ frame = [t \in IOThreads |-> Garbage]
  /\ putting = [t \in IOThreads |-> Null]
  /\ future = [r \in Requests |-> "unused"]
  /\ journalQueue = <<>>
  /\ journal = "collect"
  /\ blockForNextEntry = FALSE
  /\ journalSyncLatency = "valid"
  /\ entriesToSync = <<>>
  /\ writeBatch = <<>>
  /\ wal = <<>>
  /\ durable = 0
  /\ writeErrors = {}
  /\ submitted = <<>>
  /\ answered = 0

Open ==
  /\ phase = "down"
  /\ phase' = "up"
  /\ journalSyncLatency' \in {"valid", "wild"}
  /\ UNCHANGED <<frame, putting, future, journalQueue, journal,
                 blockForNextEntry, group, disk, history>>

-----------------------------------------------------------------------------
(* put, on an IO thread.  The entry's key is a Slice: the address of the   *)
(* thread's own frame, not a copy.                                         *)

MutantRoomForOneMore == Len(journalQueue) <= QueueCapacity

HasRoom == Len(journalQueue) < QueueCapacity

PutBegin(t, r) ==
  /\ phase # "down"
  /\ putting[t] = Null
  /\ future[r] = "unused"
  /\ frame' = [frame EXCEPT ![t] = KeyOf[r]]
  /\ future' = [future EXCEPT ![r] = "pending"]
  /\ putting' = [putting EXCEPT ![t] =
                   [key |-> t, data |-> SegmentsOf[r], promise |-> r]]
  /\ UNCHANGED <<phase, journalQueue, thread, group, disk, history>>

PutEnqueue(t) ==
  /\ putting[t] # Null
  /\ HasRoom
  /\ journalQueue' = Append(journalQueue, putting[t])
  /\ submitted' = Append(submitted, putting[t].promise)
  /\ putting' = [putting EXCEPT ![t] = Null]
  /\ UNCHANGED <<phase, frame, future, thread, group, disk, answered>>

-----------------------------------------------------------------------------
(* runJournal, on the journal thread.                                      *)

(* What the sixteen bytes at the entry's key hold by now: put may have     *)
(* returned, and its frame may have been reused, by another put or not.    *)
KeyBytes(entry) == {frame[entry.key], Garbage}

(* data() and length() of an IOBuf are those of the chain's first buffer.  *)
LoggedSegments(entry) == 1

MutantNeverFull == FALSE

(* toSyncCount++ == 1000, read before the entry at hand is counted. *)
BatchFull == Len(entriesToSync) = SyncLimit

CollectEntry ==
  /\ phase # "down"
  /\ journal = "collect"
  /\ journalQueue # <<>>
  /\ Head(journalQueue) # ExitEntry
  /\ journalQueue' = Tail(journalQueue)
  /\ blockForNextEntry' = FALSE
  /\ entriesToSync' = Append(entriesToSync, Head(journalQueue).promise)
  /\ \E k \in KeyBytes(Head(journalQueue)) :
       writeBatch' = Append(writeBatch,
                       [key |-> k,
                        data |-> LoggedSegments(Head(journalQueue)),
                        request |-> Head(journalQueue).promise])
  /\ journal' = IF BatchFull THEN "write" ELSE "collect"
  /\ UNCHANGED <<callers, journalSyncLatency, disk, history>>

Promised(promises) == {promises[i] : i \in DOMAIN promises}

(* Destroying a promise that holds nothing breaks it. *)
Break(fut, requests) ==
  [r \in Requests |-> IF r \in requests THEN "broken" ELSE fut[r]]

MutantWriteThenDropGroup ==
  /\ future' = Break(future, Promised(entriesToSync))
  /\ answered' = answered + Len(entriesToSync)
  /\ entriesToSync' = <<>>
  /\ writeBatch' = <<>>
  /\ wal' = IF writeBatch = <<>> THEN wal ELSE Append(wal, writeBatch)
  /\ UNCHANGED <<durable, writeErrors>>

DropGroup ==
  /\ future' = Break(future, Promised(entriesToSync))
  /\ answered' = answered + Len(entriesToSync)
  /\ entriesToSync' = <<>>
  /\ writeBatch' = <<>>
  /\ UNCHANGED disk

(* The entry without a promise: return, which destroys the current group.  *)
JournalExit ==
  /\ phase # "down"
  /\ journal = "collect"
  /\ journalQueue # <<>>
  /\ Head(journalQueue) = ExitEntry
  /\ journalQueue' = Tail(journalQueue)
  /\ blockForNextEntry' = FALSE
  /\ journal' = "exited"
  /\ DropGroup
  /\ UNCHANGED <<phase, frame, putting, journalSyncLatency, submitted>>

MutantKeepCollecting == "collect"
MutantSkipWrite == IF entriesToSync = <<>> THEN "collect" ELSE "complete"

AfterDrain == IF entriesToSync = <<>> THEN "collect" ELSE "write"

(* A non-blocking read found nothing. *)
QueueDrained ==
  /\ phase # "down"
  /\ journal = "collect"
  /\ ~blockForNextEntry
  /\ journalQueue = <<>>
  /\ blockForNextEntry' = TRUE
  /\ journal' = AfterDrain
  /\ UNCHANGED <<callers, journalQueue, journalSyncLatency, group, disk,
                 history>>

MutantWriteUnsynced ==
  /\ wal' = Append(wal, writeBatch)
  /\ UNCHANGED <<durable, writeErrors>>

WriteSucceeds ==
  /\ wal' = Append(wal, writeBatch)
  /\ durable' = IF FsyncWal THEN Len(wal') ELSE durable
  /\ UNCHANGED writeErrors

(* The error may come before or after the batch has entered the log. *)
WriteFails ==
  /\ wal' \in {wal, Append(wal, writeBatch)}
  /\ writeErrors' = writeErrors \cup Promised(entriesToSync)
  /\ UNCHANGED durable

(* The Status that Write returns is not looked at. *)
Write ==
  /\ phase # "down"
  /\ journal = "write"
  /\ journal' = "complete"
  /\ WriteSucceeds \/ WriteFails
  /\ UNCHANGED <<callers, journalQueue, blockForNextEntry,
                 journalSyncLatency, group, history>>

MutantBatchNotCleared == journal' = "collect" /\ UNCHANGED writeBatch

GroupDone == journal' = "collect" /\ writeBatch' = <<>>

(* One round of the loop over entriesToSync; the last also clears. *)
SetValue ==
  /\ phase # "down"
  /\ journal = "complete"
  /\ journalSyncLatency = "valid"
  /\ future' = [future EXCEPT ![Head(entriesToSync)] = "value"]
  /\ answered' = answered + 1
  /\ entriesToSync' = Tail(entriesToSync)
  /\ IF Len(entriesToSync) = 1
       THEN GroupDone
       ELSE UNCHANGED <<journal, writeBatch>>
  /\ UNCHANGED <<phase, frame, putting, journalQueue, blockForNextEntry,
                 journalSyncLatency, disk, submitted>>

-----------------------------------------------------------------------------
(* The end of the object and of the process.                               *)

(* ~Storage is called, and then waits for room in the queue. *)
Destroy ==
  /\ phase = "up"
  /\ phase' = "closing"
  /\ UNCHANGED <<frame, putting, future, journalQueue, thread, group, disk,
                 history>>

MutantJoinOnly ==
  /\ phase = "closing"
  /\ phase' = "joining"
  /\ UNCHANGED <<frame, putting, future, journalQueue, thread, group, disk,
                 history>>

EnqueueExit ==
  /\ phase = "closing"
  /\ HasRoom
  /\ phase' = "joining"
  /\ journalQueue' = Append(journalQueue, ExitEntry)
  /\ UNCHANGED <<frame, putting, future, thread, group, disk, history>>

Queued == {journalQueue[i].promise : i \in DOMAIN journalQueue} \ {Null}

Lose(fut) == [r \in Requests |-> IF fut[r] = "pending" THEN "lost" ELSE fut[r]]

(* Everything in memory is gone; promises in broken are destroyed, the     *)
(* other callers still waiting never hear of their add.                    *)
Vanish(broken) ==
  /\ phase' = "down"
  /\ frame' = [t \in IOThreads |-> Garbage]
  /\ putting' = [t \in IOThreads |-> Null]
  /\ future' = Lose(Break(future, broken))
  /\ journalQueue' = <<>>
  /\ journal' = "collect"
  /\ blockForNextEntry' = FALSE
  /\ journalSyncLatency' = "valid"
  /\ entriesToSync' = <<>>
  /\ writeBatch' = <<>>
  /\ answered' = Len(submitted)
  /\ UNCHANGED <<writeErrors, submitted>>

(* The journal thread is joined; the queue is destroyed with what callers  *)
(* put behind the exit entry.                                              *)
FinishDestroy ==
  /\ phase = "joining"
  /\ journal = "exited"
  /\ Vanish(Queued)
  /\ UNCHANGED <<wal, durable>>

(* syncLatencyTimer.completed() follows the pointer that was read too      *)
(* early, after Write and before the first promise.                        *)
JournalFault ==
  /\ phase # "down"
  /\ journal = "complete"
  /\ journalSyncLatency = "wild"
  /\ Vanish({})
  /\ UNCHANGED <<wal, durable>>

(* The operating system still writes what the process gave it. *)
ProcessCrash ==
  /\ phase # "down"
  /\ Vanish({})
  /\ UNCHANGED <<wal, durable>>

PowerLossCrash ==
  /\ PowerLoss
  /\ phase # "down"
  /\ Vanish({})
  /\ \E n \in durable .. Len(wal) :
       /\ wal' = SubSeq(wal, 1, n)
       /\ durable' = n

-----------------------------------------------------------------------------
JournalStep ==
  CollectEntry \/ JournalExit \/ QueueDrained \/ Write \/ SetValue
    \/ JournalFault

Next ==
  \/ Open
  \/ \E t \in IOThreads, r \in Requests : PutBegin(t, r)
  \/ \E t \in IOThreads : PutEnqueue(t)
  \/ CollectEntry
  \/ JournalExit
  \/ QueueDrained
  \/ Write
  \/ SetValue
  \/ JournalFault
  \/ Destroy
  \/ EnqueueExit
  \/ FinishDestroy
  \/ ProcessCrash
  \/ PowerLossCrash

Spec == Init /\ [][Next]_vars

(* The journal thread runs, the thread in ~Storage returns from join, and  *)
(* a producer that keeps finding room again is served: MPMCQueue hands out *)
(* tickets, so a waiting producer is never overtaken for ever.             *)
Fairness ==
  /\ WF_vars(JournalStep)
  /\ WF_vars(FinishDestroy)
  /\ SF_vars(EnqueueExit)
  /\ \A t \in IOThreads : SF_vars(PutEnqueue(t))

FairSpec == Spec /\ Fairness

-----------------------------------------------------------------------------
(* Every variable has its type, the queue never holds more than MPMCQueue  *)
(* was built for (Storage.cpp:52), and Write is never reached with an      *)
(* empty group (the check at Storage.cpp:187 never finds one).             *)
TypeOK ==
  /\ phase \in {"down", "up", "closing", "joining"}
  /\ frame \in [IOThreads -> Keys \cup {Garbage}]
  /\ putting \in [IOThreads -> AddEntry \cup {Null}]
  /\ future \in [Requests -> Outcomes]
  /\ journalQueue \in Seq(AddEntry \cup {ExitEntry})
  /\ Len(journalQueue) <= QueueCapacity
  /\ journal \in {"collect", "write", "complete", "exited"}
  /\ blockForNextEntry \in BOOLEAN
  /\ journalSyncLatency \in {"valid", "wild"}
  /\ entriesToSync \in Seq(Requests)
  /\ journal \in {"write", "complete"} => entriesToSync # <<>>
  /\ writeBatch \in Seq(Record)
  /\ wal \in Seq(Seq(Record))
  /\ durable \in 0 .. Len(wal)
  /\ writeErrors \subseteq Requests
  /\ submitted \in Seq(Requests)
  /\ answered \in Nat

LoggedIn(batch) == {batch[i].request : i \in DOMAIN batch}

(* r has a record in one of the first n batches of the log. *)
LoggedBy(r, n) == \E b \in 1 .. n : r \in LoggedIn(wal[b])

(* The batches that outlive the crashes the configuration claims to        *)
(* survive.                                                                *)
SafeUpTo == IF FsyncWal THEN durable ELSE Len(wal)

Safe(r) == LoggedBy(r, SafeUpTo)

(* An add that was acknowledged is still in the database, whatever crashes *)
(* came between or after and whatever was queued, collected or half        *)
(* answered when they came.  Adds whose Write returned an error are        *)
(* outside the claim (see AckedIsDurable for them), and without fsync so   *)
(* is a power loss.  It rests on runJournal fulfilling promises only after *)
(* the Write of exactly the group that holds them.                         *)
AckedSurvives ==
  (FsyncWal \/ ~PowerLoss) =>
    \A r \in Requests :
      future[r] = "value" /\ r \notin writeErrors => Safe(r)

(* A broken promise means the add did not happen: a client that retries or *)
(* gives up after it will never find the entry in the database.  At stake  *)
(* when the exit entry arrives between two collected entries, and for what *)
(* is put behind it.                                                       *)
BrokenNeverLogged ==
  \A r \in Requests : future[r] = "broken" => ~LoggedBy(r, Len(wal))

(* The log holds the adds in the order they were queued, each once, across *)
(* groups, failed writes and restarts: of two adds of one key the database *)
(* keeps the value that was queued last.                                   *)
LogInOrder ==
  \A b, c \in DOMAIN wal : \A i \in DOMAIN wal[b], j \in DOMAIN wal[c] :
    b < c \/ (b = c /\ i < j) =>
      \E m, n \in DOMAIN submitted :
        /\ m < n
        /\ submitted[m] = wal[b][i].request
        /\ submitted[n] = wal[c][j].request

(* Storage does what GroupCommit promises: adds are answered in the order  *)
(* they were queued, only after their whole group went to the database, in *)
(* groups of at most SyncLimit + 1 of which one is open at a time.         *)
Committed ==
  answered + (IF journal = "complete" THEN Len(entriesToSync) ELSE 0)

Abstract == INSTANCE GroupCommit WITH
  order <- submitted, committed <- Committed

RefinesGroupCommit == Abstract!Spec

(* A thread that called put, and its caller's future, do not hang: every   *)
(* add gets a value or a broken promise unless the process goes away.  No  *)
(* group waits in memory for entries that never come, and producers        *)
(* blocked on the full queue get in.                                       *)
AddsAreAnswered ==
  \A r \in Requests :
    (future[r] = "pending") ~> (future[r] # "pending")

(* ~Storage returns, even when it starts on a full queue that other        *)
(* threads keep filling.                                                   *)
DestroyCompletes == (phase \in {"closing", "joining"}) ~> (phase = "down")

-----------------------------------------------------------------------------
(* Three statements of the documentation that the code does not keep.      *)

(* Storage.cpp:74 has every key be the sixteen bytes of ledger and entry.  *)
LoggedUnderOwnKey ==
  \A b \in DOMAIN wal : \A i \in DOMAIN wal[b] :
    wal[b][i].key = KeyOf[wal[b][i].request]

(* README.md:30 says of --fsyncWal that it syncs before acking the entry.  *)
AckedIsDurable ==
  FsyncWal => \A r \in Requests :
                future[r] = "value" => LoggedBy(r, durable)

(* BookieProtocol.h:32 has the entry logged exactly as the client sent it. *)
LoggedWhole ==
  \A b \in DOMAIN wal : \A i \in DOMAIN wal[b] :
    wal[b][i].data = SegmentsOf[wal[b][i].request]
=============================================================================
