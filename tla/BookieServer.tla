---------------------------- MODULE BookieServer ----------------------------
(***************************************************************************)
(* The server of the bookie: BookiePipeline, BookieCodecV2, BookieHandler  *)
(* and Bookie::addEntry on IO threads, above what Storage::put promises    *)
(* (GroupCommit, which Storage implements).  An IO thread reads a frame,   *)
(* decodes it and calls put, in which it may have to wait; the reply to an *)
(* add is written by a continuation that runs on the same thread once the  *)
(* future of put is complete.                                              *)
(*                                                                         *)
(* A pipeline that is closed is destroyed, and a continuation that still   *)
(* holds its context uses freed memory: here it does nothing, writes to    *)
(* another connection or ends the process.                                 *)
(***************************************************************************)
EXTENDS BookieCodecV2, FiniteSets

CONSTANTS
  Connections, IOThreads, Messages,
  ThreadOf,     \* the IO thread of each connection
  ConnectionOf, \* the connection on which each message is sent
  RequestOf,    \* the request that each message carries
  CutOf,        \* how many bytes of its frame are missing
  SyncLimit,    \* as in Storage
  MayCrash,     \* the process may end at any point
  Null

ASSUME ServerAssumption ==
  /\ ThreadOf \in [Connections -> IOThreads]
  /\ ConnectionOf \in [Messages -> Connections]
  /\ CutOf \in [Messages -> Nat]
  /\ SyncLimit \in Nat
  /\ MayCrash \in BOOLEAN
  /\ Null \notin Messages

VARIABLES
  process,     \* "up", "stopping" (in ~Storage), "closed" (Storage is
               \* gone, IO threads run on) or "down"
  connection,  \* "new", "open", "closing" (in read) or "closed"
  client,      \* the peer is "there" or "gone"
  sent,        \* messages sent on each connection, in order
  taken,       \* how many of them the server has read
  toServer, toClient,   \* the bytes on their way
  busy,        \* the add whose put an IO thread is in, Null for none
  handed,      \* the Request that reached the handler, per message
  settled,     \* adds that have no continuation left to run
  replies,     \* responses a client has read, per connection
  future, order, committed, answered,   \* the store
  logged,      \* history: adds that are in the database's log
  writeErrors  \* history: adds whose Write returned an error

channels == <<connection, client, sent, taken, toServer, toClient, replies>>
adds     == <<busy, handed, settled>>
store    == <<future, order, committed, answered>>
disk     == <<logged, writeErrors>>
vars     == <<process, channels, adds, store, disk>>

Adds == {m \in Messages : RequestOf[m].opCode = AddEntry /\ CutOf[m] = 0}

Store == INSTANCE GroupCommit WITH Requests <- Adds

Init ==
  /\ process = "up"
  /\ connection = [c \in Connections |-> "new"]
  /\ client = [c \in Connections |-> "there"]
  /\ sent = [c \in Connections |-> <<>>]
  /\ taken = [c \in Connections |-> 0]
  /\ toServer = [c \in Connections |-> <<>>]
  /\ toClient = [c \in Connections |-> <<>>]
  /\ busy = [t \in IOThreads |-> Null]
  /\ handed = [m \in Messages |-> Null]
  /\ settled = {}
  /\ replies = [c \in Connections |-> <<>>]
  /\ Store!Init
  /\ logged = {}
  /\ writeErrors = {}

-----------------------------------------------------------------------------
(* Clients. *)

Whole(m) ==
  IF RequestOf[m].opCode = AddEntry THEN ClientWrite(RequestOf[m])
  ELSE ReadFrame(RequestOf[m])

Bytes(m) ==
  Int32(Announced(Whole(m)) - CutOf[m])
    \o SubSeq(Whole(m), 5, Len(Whole(m)) - CutOf[m])

(* A frame that lacks some of the data and no more would be another        *)
(* request.                                                                *)
ASSUME RequestAssumption ==
  \A m \in Messages :
    /\ RequestOf[m] \in ClientRequests
    /\ CutOf[m] = 0 \/ CutOf[m] > Len(RequestOf[m].data)
    /\ CutOf[m] <= Announced(Whole(m))

(* perfClient numbers its ledgers, and the entries of each.                *)
ASSUME IdentifierAssumption ==
  \A m, n \in Adds :
    /\ RequestOf[m].ledgerId = RequestOf[n].ledgerId
    /\ RequestOf[m].entryId = RequestOf[n].entryId
    => m = n

Connect(c) ==
  /\ process \in {"up", "stopping"}
  /\ connection[c] = "new"
  /\ connection' = [connection EXCEPT ![c] = "open"]
  /\ UNCHANGED <<process, client, sent, taken, toServer, toClient, replies,
                 adds, store, disk>>

Send(m) ==
  LET c == ConnectionOf[m]
  IN  /\ connection[c] = "open"
      /\ client[c] = "there"
      /\ \A i \in DOMAIN sent[c] : sent[c][i] # m
      /\ sent' = [sent EXCEPT ![c] = Append(@, m)]
      /\ toServer' = [toServer EXCEPT ![c] = @ \o Bytes(m)]
      /\ UNCHANGED <<process, connection, client, taken, toClient, replies,
                     adds, store, disk>>

Receive(c) ==
  /\ client[c] = "there"
  /\ FrameReady(toClient[c])
  /\ replies' = [replies EXCEPT ![c] = Append(@, ClientRead(Frame(toClient[c])))]
  /\ toClient' = [toClient EXCEPT ![c] = AfterFrame(@)]
  /\ UNCHANGED <<process, connection, client, sent, taken, toServer, adds,
                 store, disk>>

(* readEOF is logged; the server's end of the connection stays. *)
Leave(c) ==
  /\ connection[c] = "open"
  /\ client[c] = "there"
  /\ client' = [client EXCEPT ![c] = "gone"]
  /\ UNCHANGED <<process, connection, sent, taken, toServer, toClient, replies,
                 adds, store, disk>>

-----------------------------------------------------------------------------
(* The pipeline, on the IO thread of the connection. *)

MutantReentrant(c) == TRUE

(* The thread may turn to connection c: it is in no put, and not in the    *)
(* read of another connection that is being closed.                        *)
Free(c) ==
  /\ busy[ThreadOf[c]] = Null
  /\ \A d \in Connections \ {c} :
       ThreadOf[d] = ThreadOf[c] => connection[d] # "closing"

NextMessage(c) == sent[c][taken[c] + 1]

(* The next frame of a connection; after one that closes it, those that    *)
(* arrived in the same buffer are still decoded.                           *)
TakeFrame(c) ==
  /\ process \in {"up", "stopping"}
  /\ connection[c] \in {"open", "closing"}
  /\ Free(c)
  /\ FrameReady(toServer[c])
  /\ toServer' = [toServer EXCEPT ![c] = AfterFrame(@)]
  /\ taken' = [taken EXCEPT ![c] = @ + 1]

ReadAdd(c) ==
  LET request == ServerRead(Frame(toServer[c]))
      m == NextMessage(c)
  IN  /\ TakeFrame(c)
      /\ WellFormed(Frame(toServer[c]))
      /\ request.opCode = AddEntry
      /\ handed' = [handed EXCEPT ![m] = request]
      /\ busy' = [busy EXCEPT ![ThreadOf[c]] = m]
      /\ Store!Call(m)
      /\ UNCHANGED <<process, connection, client, sent, toClient, replies,
                     settled, disk>>

(* handleReadEntry is empty, and read ignores every other operation. *)
ReadOther(c) ==
  LET request == ServerRead(Frame(toServer[c]))
  IN  /\ TakeFrame(c)
      /\ WellFormed(Frame(toServer[c]))
      /\ request.opCode # AddEntry
      /\ handed' = [handed EXCEPT ![NextMessage(c)] = request]
      /\ UNCHANGED <<process, connection, client, sent, toClient, replies,
                     busy, settled, store, disk>>

RejectFrame(c) ==
  /\ TakeFrame(c)
  /\ ~WellFormed(Frame(toServer[c]))
  /\ connection' = [connection EXCEPT ![c] = "closing"]
  /\ UNCHANGED <<process, client, sent, toClient, replies, adds, store, disk>>

DeletePipeline(c) ==
  /\ connection[c] = "closing"
  /\ Free(c)
  /\ connection' = [connection EXCEPT ![c] = "closed"]
  /\ toServer' = [toServer EXCEPT ![c] = <<>>]
  /\ UNCHANGED <<process, client, sent, taken, toClient, replies, adds, store,
                 disk>>

(* A handler that waited for its future would wait for its own thread. *)
MutantWaitForReply(m) == m \in settled

PutReturns(m) == TRUE

(* A put that leaves the queue to another thread.                          *)
MutantPutElsewhere(t) ==
  /\ process \in {"up", "stopping"}
  /\ \/ busy[t] # Null /\ busy' = [busy EXCEPT ![t] = Null] /\ UNCHANGED store
     \/ UNCHANGED busy /\ \E m \in Adds : Store!Accept(m)
  /\ UNCHANGED <<process, channels, handed, settled, disk>>

(* The add has its place in the queue; put returns its future. *)
PutDone(t) ==
  /\ process \in {"up", "stopping"}
  /\ busy[t] # Null
  /\ PutReturns(busy[t])
  /\ Store!Accept(busy[t])
  /\ busy' = [busy EXCEPT ![t] = Null]
  /\ UNCHANGED <<process, channels, handed, settled, disk>>

-----------------------------------------------------------------------------
(* The continuation of handleAddEntry. *)

MutantAccepted(m) == future[m] \in {"pending", "value", "broken"}

Complete(m) == future[m] \in {"value", "broken"}

CanContinue(m) ==
  /\ process # "down"
  /\ m \notin settled
  /\ handed[m] # Null
  /\ Complete(m)
  /\ Free(ConnectionOf[m])
  /\ connection[ConnectionOf[m]] # "closing"

(* then runs for a value, onError for a broken promise. *)
Error(m) == IF future[m] = "broken" THEN IOError ELSE OK

Response(m) ==
  ServerWrite([protocolVersion |-> 2, opCode |-> AddEntry, errorCode |-> Error(m),
               ledgerId |-> handed[m].ledgerId, entryId |-> handed[m].entryId])

MutantErrorTwice(m) ==
  IF future[m] = "broken" THEN Response(m) \o Response(m) ELSE Response(m)

Written(m) == Response(m)

WriteTo(c, m) ==
  toClient' = [toClient EXCEPT ![c] = @ \o Written(m)]

(* Nobody minds a write to a peer that is gone. *)
Continue(m) ==
  /\ CanContinue(m)
  /\ connection[ConnectionOf[m]] = "open"
  /\ WriteTo(ConnectionOf[m], m)
  /\ settled' = settled \cup {m}
  /\ UNCHANGED <<process, connection, client, sent, taken, toServer, replies,
                 busy, handed, store, disk>>

(* The same with a context that was destroyed, unless that is the end of   *)
(* the process (Crash).                                                    *)
ContinueDestroyed(m) ==
  /\ CanContinue(m)
  /\ connection[ConnectionOf[m]] = "closed"
  /\ \/ UNCHANGED toClient
     \/ \E c \in Connections : connection[c] = "open" /\ WriteTo(c, m)
  /\ settled' = settled \cup {m}
  /\ UNCHANGED <<process, connection, client, sent, taken, toServer, replies,
                 busy, handed, store, disk>>

-----------------------------------------------------------------------------
(* The store and the process. *)

MutantLastLeftOut(from, to) == {order[i] : i \in from .. to - 1}

Members(from, to) == {order[i] : i \in from .. to}

WriteSucceeds(group) ==
  /\ logged' = logged \cup group
  /\ UNCHANGED writeErrors

(* As in Storage, before or after the batch has entered the log. *)
WriteFails(group) ==
  /\ logged' \in {logged, logged \cup group}
  /\ writeErrors' = writeErrors \cup group

(* The Status that Write returns is not looked at: what follows is Answer. *)
Commit ==
  /\ process \in {"up", "stopping"}
  /\ \E k \in DOMAIN order :
       /\ Store!Commit(k)
       /\ \/ WriteSucceeds(Members(committed + 1, k))
          \/ WriteFails(Members(committed + 1, k))
  /\ UNCHANGED <<process, channels, adds>>

Answer ==
  /\ process \in {"up", "stopping"}
  /\ Store!Answer
  /\ UNCHANGED <<process, channels, adds, disk>>

(* The destructor of Storage ends the journal thread. *)
GiveUp ==
  /\ process = "stopping"
  /\ \E k \in DOMAIN order : k > committed /\ Store!GiveUp(k)
  /\ UNCHANGED <<process, channels, adds, disk>>

Stop ==
  /\ process = "up"
  /\ process' = "stopping"
  /\ UNCHANGED <<channels, adds, store, disk>>

Waiting == {m \in Adds : future[m] = "pending"}

(* The rest of the queue goes with the Storage; the model calls no put     *)
(* on what is left of it.                                                  *)
CloseStore ==
  /\ process = "stopping"
  /\ process' = "closed"
  /\ \E dropped \in SUBSET Waiting : Store!Close(dropped)
  /\ UNCHANGED <<channels, adds, disk>>

(* What a process leaves behind when it ends. *)
Down ==
  /\ process' = "down"
  /\ connection' = [c \in Connections |->
                      IF connection[c] = "new" THEN "new" ELSE "closed"]
  /\ toServer' = [c \in Connections |-> <<>>]
  /\ busy' = [t \in IOThreads |-> Null]
  /\ settled' = {m \in Adds : handed[m] # Null}
  /\ UNCHANGED <<client, sent, taken, toClient, replies, handed, disk>>

End == process = "closed" /\ Down /\ UNCHANGED store

Crash ==
  /\ MayCrash
  /\ process # "down"
  /\ Down
  /\ Store!Close({})

Restart ==
  /\ process = "down"
  /\ process' = "up"
  /\ UNCHANGED <<channels, adds, store, disk>>

-----------------------------------------------------------------------------
Next ==
  \/ \E c \in Connections :
       \/ Connect(c)
       \/ Receive(c)
       \/ Leave(c)
       \/ ReadAdd(c)
       \/ ReadOther(c)
       \/ RejectFrame(c)
       \/ DeletePipeline(c)
  \/ \E m \in Messages : Send(m)
  \/ \E t \in IOThreads : PutDone(t)
  \/ \E m \in Adds : Continue(m) \/ ContinueDestroyed(m)
  \/ Commit
  \/ Answer
  \/ GiveUp
  \/ Stop
  \/ CloseStore
  \/ End
  \/ Crash
  \/ Restart

Spec == Init /\ [][Next]_vars

(* An IO thread does one thing after the other, in any order.              *)
IoThread(t) ==
  \/ PutDone(t)
  \/ \E c \in Connections :
       /\ ThreadOf[c] = t
       /\ ReadAdd(c) \/ ReadOther(c) \/ RejectFrame(c) \/ DeletePipeline(c)
  \/ \E m \in Adds : ThreadOf[ConnectionOf[m]] = t /\ Continue(m)

(* IO threads and the journal thread run, put gets its place (Storage's    *)
(* AddsAreAnswered rests on the same), and what is written arrives.        *)
Fairness ==
  /\ \A t \in IOThreads : WF_vars(IoThread(t))
  /\ WF_vars(\E c \in Connections : Receive(c))
  /\ WF_vars(Commit \/ Answer)

FairSpec == Spec /\ Fairness

-----------------------------------------------------------------------------
ServerTypeOK ==
  /\ process \in {"up", "stopping", "closed", "down"}
  /\ connection \in [Connections -> {"new", "open", "closing", "closed"}]
  /\ client \in [Connections -> {"there", "gone"}]
  /\ \A c \in Connections :
       /\ sent[c] \in Seq(Messages)
       /\ taken[c] \in 0 .. Len(sent[c])
       /\ toServer[c] \in Seq(0 .. 255 \cup {Unwritten})
       /\ toClient[c] \in Seq(0 .. 255 \cup {Unwritten})
       /\ connection[c] = "new" => toServer[c] = <<>> /\ taken[c] = 0
  /\ busy \in [IOThreads -> Adds \cup {Null}]
  /\ \A m \in Adds :
       future[m] = "pending" /\ m \notin Members(1, Len(order)) =>
         busy[ThreadOf[ConnectionOf[m]]] = m
  /\ settled \in SUBSET Adds
  /\ logged \in SUBSET Adds
  /\ writeErrors \in SUBSET Adds

(* What reaches put, and every other handler, is what the client sent:     *)
(* frames are cut where they were joined, and each field is read where it  *)
(* was written.  Flags above 255 would not survive (BookieCodecV2.cpp:36). *)
ArrivesAsSent ==
  \A m \in Messages : handed[m] # Null => handed[m] = RequestOf[m]

Names(reply, m) ==
  /\ reply.opCode = AddEntry
  /\ reply.ledgerId = RequestOf[m].ledgerId
  /\ reply.entryId = RequestOf[m].entryId

(* A client that reads OK has its entry in the database's log, unless the  *)
(* Write of its group failed, which nobody looks at (AckedIsDurable in     *)
(* Storage); one that reads an error knows that the entry never went to    *)
(* the database and never will: whatever happened to the connection, the   *)
(* threads and the process in between.                                     *)
RepliesTellOutcome ==
  \A c \in Connections : \A i \in DOMAIN replies[c] :
    \E m \in Adds :
      /\ Names(replies[c][i], m)
      /\ replies[c][i].errorCode = OK => m \in logged \cup writeErrors
      /\ replies[c][i].errorCode # OK => m \notin logged \cup writeErrors

(* No add is answered twice. *)
OneReplyPerAdd ==
  \A m \in Adds :
    Cardinality({r \in Connections \X (1 .. Cardinality(Messages)) :
                   /\ r[2] <= Len(replies[r[1]])
                   /\ Names(replies[r[1]][r[2]], m)}) <= 1

(* An add that was handed over is answered, unless the connection or the   *)
(* process ends first.                                                     *)
AddsAreReplied ==
  \A m \in Adds : LET c == ConnectionOf[m] IN
    (handed[m] # Null /\ connection[c] = "open") ~>
      \/ \E i \in DOMAIN replies[c] : Names(replies[c][i], m)
      \/ connection[c] # "open"
      \/ process # "up"
      \/ client[c] = "gone"

(* What the clients can know: which adds were sent, where the log has      *)
(* their entries, and what was said of them.                               *)
Asked ==
  {m \in Adds : \E i \in DOMAIN sent[ConnectionOf[m]] :
                  sent[ConnectionOf[m]][i] = m}

Place == [m \in logged |-> CHOOSE i \in DOMAIN order : order[i] = m]

Told(m, errorCodes) ==
  \E c \in Connections : \E i \in DOMAIN replies[c] :
    Names(replies[c][i], m) /\ replies[c][i].errorCode \in errorCodes

Outcome ==
  [m \in Adds |-> IF Told(m, {OK}) THEN "ok"
                  ELSE IF Told(m, {IOError}) THEN "error" ELSE "nothing"]

Service == INSTANCE AddService
             WITH asked <- Asked, place <- Place, failed <- writeErrors,
                  told <- Outcome

(* The server, the store and the network together do what is left of a     *)
(* bookie's promise when errors of the database are dropped: entries come  *)
(* into one log, behind each other and once; an acknowledgment is read     *)
(* after its entry has its place, or after its Write has failed; and what  *)
(* was refused is never logged, in this life of the process or another.    *)
ServesAdds == Service!Spec

(* The entries of one connection are logged in the order in which they     *)
(* were sent: put takes a place in the queue before the IO thread goes on  *)
(* to the next frame.                                                      *)
LoggedAsSent ==
  \A c \in Connections : \A i, j \in DOMAIN sent[c] :
    i < j /\ {sent[c][i], sent[c][j]} \subseteq logged =>
      Place[sent[c][i]] < Place[sent[c][j]]
=============================================================================
