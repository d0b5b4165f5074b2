------------------------- MODULE StorageOrderProofs -------------------------
(***************************************************************************)
(* The order of adds in Storage, for any number of threads and requests:   *)
(* the log keeps the order of the queue, and Storage implements            *)
(* GroupCommit.  Both rest on one picture of the line of adds: settled     *)
(* ones first, then the group, then the queue, which the exit entry may    *)
(* split.                                                                  *)
(***************************************************************************)
EXTENDS StorageProofs

(* Adds of the line up to here have left the queue. *)
Collected == answered + Len(entriesToSync)

ExitAhead(i) == \E j \in DOMAIN journalQueue :
                  j < i /\ journalQueue[j] = ExitEntry

(* The place in line of the add at position i of the queue. *)
PlaceOf(i) == Collected + i - (IF ExitAhead(i) THEN 1 ELSE 0)

(* Each request has one place, and which futures are settled. *)
LineOfRequests ==
  /\ \A m, n \in DOMAIN submitted : submitted[m] = submitted[n] => m = n
  /\ \A n \in DOMAIN submitted :
       IF n <= answered
         THEN future[submitted[n]] \notin {"unused", "pending"}
         ELSE future[submitted[n]] = "pending"
  /\ \A t \in IOThreads : putting[t] # Null =>
       /\ future[putting[t].promise] = "pending"
       /\ \A n \in DOMAIN submitted : submitted[n] # putting[t].promise

(* The group is the part of the line behind what is settled, the batch     *)
(* has its records, and neither outgrows the limit.                        *)
LineOfGroup ==
  /\ Collected <= Len(submitted)
  /\ \A i \in DOMAIN entriesToSync : entriesToSync[i] = submitted[answered + i]
  /\ journal # "complete" =>
       /\ Len(writeBatch) = Len(entriesToSync)
       /\ \A i \in DOMAIN writeBatch :
            writeBatch[i].request = entriesToSync[i]
  /\ Len(entriesToSync) <= SyncLimit + 1
  /\ journal = "collect" => Len(entriesToSync) <= SyncLimit
  /\ journal = "exited" => entriesToSync = <<>> /\ phase = "joining"

(* The queue is the rest of the line; at most one exit entry is in it.     *)
LineOfQueue ==
  /\ \A i \in DOMAIN journalQueue :
       IF journalQueue[i] = ExitEntry
         THEN /\ phase = "joining" /\ journal # "exited"
              /\ \A j \in DOMAIN journalQueue :
                   journalQueue[j] = ExitEntry => j = i
         ELSE submitted[PlaceOf(i)] = journalQueue[i].promise
  /\ Len(submitted) + 1 = PlaceOf(Len(journalQueue) + 1)

LineInv == LineOfRequests /\ LineOfGroup /\ LineOfQueue

(* Everything in the log has a place in line among the committed adds.     *)
LogInLine ==
  \A b \in DOMAIN wal : \A i \in DOMAIN wal[b] :
    \E n \in 1 .. Committed :
      n \in DOMAIN submitted /\ submitted[n] = wal[b][i].request


-----------------------------------------------------------------------------
(* Places in line *)

(* An add in the queue has its place behind the group and inside the line. *)
LEMMA PlacesInside ==
  ASSUME TypeOK, LineOfQueue,
         NEW i \in DOMAIN journalQueue, journalQueue[i] # ExitEntry
  PROVE  PlaceOf(i) \in Collected + 1 .. Len(submitted)
PROOF
  <1>1. /\ Len(journalQueue) \in Nat /\ Len(submitted) \in Nat
        /\ DOMAIN journalQueue = 1 .. Len(journalQueue)
        /\ Collected \in Nat
    BY DEF TypeOK, Collected
  <1>2. ExitAhead(i) => i > 1 /\ ExitAhead(Len(journalQueue) + 1)
    BY <1>1 DEF ExitAhead
  <1>3. CASE ExitAhead(i)
    BY <1>1, <1>2, <1>3 DEF PlaceOf, LineOfQueue
  <1>4. CASE ~ExitAhead(i)
    <2>1. i = Len(journalQueue) => ~ExitAhead(Len(journalQueue) + 1)
      BY <1>1, <1>4 DEF ExitAhead
    <2> QED BY <1>1, <1>4, <2>1 DEF PlaceOf, LineOfQueue
  <1> QED BY <1>3, <1>4

(* Leaving the queue moves no other add: the place the head had, if it was *)
(* an add, now belongs to the group.                                       *)
LEMMA TailKeepsPlaces ==
  ASSUME TypeOK, LineOfQueue, journalQueue # <<>>,
         journalQueue' = Tail(journalQueue),
         Collected' = Collected + (IF Head(journalQueue) = ExitEntry
                                     THEN 0 ELSE 1)
  PROVE  /\ DOMAIN journalQueue' = 1 .. Len(journalQueue) - 1
         /\ Len(journalQueue') = Len(journalQueue) - 1
         /\ \A i \in DOMAIN journalQueue' :
              /\ i + 1 \in DOMAIN journalQueue
              /\ journalQueue'[i] = journalQueue[i + 1]
         /\ \A i \in 1 .. Len(journalQueue) : PlaceOf(i)' = PlaceOf(i + 1)
PROOF
  <1>1. /\ Len(journalQueue) \in Nat \ {0} /\ Collected \in Nat
        /\ DOMAIN journalQueue = 1 .. Len(journalQueue)
        /\ Head(journalQueue) = journalQueue[1]
    BY DEF TypeOK, Collected
  <1>2. /\ DOMAIN journalQueue' = 1 .. Len(journalQueue) - 1
        /\ Len(journalQueue') = Len(journalQueue) - 1
        /\ \A i \in DOMAIN journalQueue' :
             /\ i + 1 \in DOMAIN journalQueue
             /\ journalQueue'[i] = journalQueue[i + 1]
    BY DEF TypeOK
  <1>3. ASSUME NEW i \in 1 .. Len(journalQueue)
        PROVE  PlaceOf(i)' = PlaceOf(i + 1)
    <2>1. CASE Head(journalQueue) = ExitEntry
      <3>1. ExitAhead(i + 1)
        BY <1>1, <2>1 DEF ExitAhead
      <3>2. \A j \in DOMAIN journalQueue : journalQueue[j] = ExitEntry => j = 1
        BY <1>1, <2>1 DEF LineOfQueue
      <3>3. ~ExitAhead(i)'
        BY <1>1, <1>2, <3>2 DEF ExitAhead
      <3> QED BY <1>1, <2>1, <3>1, <3>3 DEF PlaceOf
    <2>2. CASE Head(journalQueue) # ExitEntry
      <3>1. ASSUME ExitAhead(i + 1) PROVE ExitAhead(i)'
        <4>1. PICK j \in DOMAIN journalQueue :
                j < i + 1 /\ journalQueue[j] = ExitEntry
          BY <3>1 DEF ExitAhead
        <4>2. j - 1 \in DOMAIN journalQueue' /\ j - 1 < i
          BY <1>1, <1>2, <2>2, <4>1
        <4>3. journalQueue'[j - 1] = ExitEntry
          BY <1>1, <1>2, <4>1, <4>2
        <4> QED BY <4>2, <4>3 DEF ExitAhead, ExitEntry
      <3>2. ASSUME ExitAhead(i)' PROVE ExitAhead(i + 1)
        <4>1. PICK j \in DOMAIN journalQueue' :
                j < i /\ journalQueue'[j] = ExitEntry
          BY <3>2 DEF ExitAhead, ExitEntry
        <4> QED BY <1>1, <1>2, <4>1 DEF ExitAhead
      <3> QED BY <1>1, <2>2, <3>1, <3>2 DEF PlaceOf
    <2> QED BY <2>1, <2>2
  <1> QED BY <1>2, <1>3

(* What is put at the end of the queue moves nobody.                       *)
LEMMA AppendKeepsPlaces ==
  ASSUME TypeOK, NEW e \in AddEntry \cup {ExitEntry},
         journalQueue' = Append(journalQueue, e), Collected' = Collected
  PROVE  /\ DOMAIN journalQueue' = 1 .. Len(journalQueue) + 1
         /\ Len(journalQueue') = Len(journalQueue) + 1
         /\ journalQueue'[Len(journalQueue) + 1] = e
         /\ \A i \in 1 .. Len(journalQueue) :
              journalQueue'[i] = journalQueue[i]
         /\ \A i \in 1 .. Len(journalQueue) + 1 : PlaceOf(i)' = PlaceOf(i)
         /\ ExitAhead(Len(journalQueue) + 1)' <=>
              e = ExitEntry \/ ExitAhead(Len(journalQueue) + 1)
PROOF
  <1>1. /\ Len(journalQueue) \in Nat
        /\ DOMAIN journalQueue = 1 .. Len(journalQueue)
    BY DEF TypeOK
  <1>2. /\ DOMAIN journalQueue' = 1 .. Len(journalQueue) + 1
        /\ Len(journalQueue') = Len(journalQueue) + 1
        /\ journalQueue'[Len(journalQueue) + 1] = e
        /\ \A i \in 1 .. Len(journalQueue) :
             journalQueue'[i] = journalQueue[i]
    BY DEF TypeOK
  <1>3. ASSUME NEW i \in 1 .. Len(journalQueue) + 1
        PROVE  ExitAhead(i)' <=> ExitAhead(i)
    BY <1>1, <1>2 DEF ExitAhead, ExitEntry
  <1>4. \A i \in 1 .. Len(journalQueue) + 1 : PlaceOf(i)' = PlaceOf(i)
    BY <1>1, <1>3 DEF PlaceOf
  <1>5. ExitAhead(Len(journalQueue) + 1)' <=>
          e = ExitEntry \/ ExitAhead(Len(journalQueue) + 1)
    BY <1>1, <1>2 DEF ExitAhead, ExitEntry
  <1> QED BY <1>2, <1>4, <1>5

-----------------------------------------------------------------------------
(* Each action keeps the queue in line.                                    *)

(* A step that collects nothing leaves the queue in line. *)
LEMMA QueueStaysInLine ==
  ASSUME TypeOK, LineOfQueue, LineOfGroup,
         UNCHANGED <<phase, journalQueue, submitted>>,
         Collected' = Collected, journal' = "exited" => journal = "exited"
  PROVE  LineOfQueue'
PROOF
  <1>1. \A i : PlaceOf(i)' = PlaceOf(i)
    BY DEF PlaceOf, ExitAhead, ExitEntry
  <1> QED BY <1>1 DEF LineOfQueue, ExitEntry

(* An add that is queued stands behind all that were queued before. *)
LEMMA PutEnqueueInLine ==
  ASSUME TypeOK, LineOfQueue, NEW t \in IOThreads, PutEnqueue(t)
  PROVE  LineOfQueue'
PROOF
  <1> USE ConstantsAssumption
  <1> DEFINE e == putting[t]
  <1>1. e \in AddEntry /\ e.promise \in Requests /\ e # ExitEntry
    BY DEF PutEnqueue, TypeOK, AddEntry, ExitEntry
  <1>2. /\ journalQueue' = Append(journalQueue, e)
        /\ submitted' = Append(submitted, e.promise)
        /\ UNCHANGED <<phase, journal, answered, entriesToSync>>
    BY DEF PutEnqueue, thread, group
  <1>3. Collected' = Collected
    BY <1>2 DEF Collected
  <1>4. /\ Len(journalQueue) \in Nat /\ Len(submitted) \in Nat
        /\ DOMAIN journalQueue = 1 .. Len(journalQueue)
        /\ DOMAIN submitted = 1 .. Len(submitted)
        /\ Len(submitted') = Len(submitted) + 1
        /\ submitted'[Len(submitted) + 1] = e.promise
        /\ \A n \in 1 .. Len(submitted) : submitted'[n] = submitted[n]
    BY <1>1, <1>2 DEF TypeOK
  <1> HIDE DEF e
  <1>5. /\ DOMAIN journalQueue' = 1 .. Len(journalQueue) + 1
        /\ Len(journalQueue') = Len(journalQueue) + 1
        /\ journalQueue'[Len(journalQueue) + 1] = e
        /\ \A i \in 1 .. Len(journalQueue) :
             journalQueue'[i] = journalQueue[i]
        /\ \A i \in 1 .. Len(journalQueue) + 1 : PlaceOf(i)' = PlaceOf(i)
        /\ ExitAhead(Len(journalQueue) + 1)' <=>
             ExitAhead(Len(journalQueue) + 1)
    BY <1>1, <1>2, <1>3, AppendKeepsPlaces
  <1>6. Len(submitted) + 1 = PlaceOf(Len(journalQueue) + 1)
    BY DEF LineOfQueue
  <1>7. Len(submitted') + 1 = PlaceOf(Len(journalQueue) + 1)'
    <2>1. Collected \in Nat
      BY DEF TypeOK, Collected
    <2>2. CASE ExitAhead(Len(journalQueue) + 1)
      BY <1>3, <1>4, <1>5, <1>6, <2>1, <2>2 DEF PlaceOf
    <2>3. CASE ~ExitAhead(Len(journalQueue) + 1)
      BY <1>3, <1>4, <1>5, <1>6, <2>1, <2>3 DEF PlaceOf
    <2> QED BY <2>2, <2>3
  <1>8. ASSUME NEW i \in DOMAIN journalQueue', journalQueue'[i] = ExitEntry
        PROVE  /\ phase' = "joining" /\ journal' # "exited"
               /\ \A j \in DOMAIN journalQueue' :
                    journalQueue'[j] = ExitEntry => j = i
    BY <1>1, <1>2, <1>4, <1>5, <1>8 DEF LineOfQueue
  <1>9. ASSUME NEW i \in DOMAIN journalQueue', journalQueue'[i] # ExitEntry
        PROVE  submitted'[PlaceOf(i)'] = journalQueue'[i].promise
    <2>1. CASE i = Len(journalQueue) + 1
      BY <1>4, <1>5, <1>6, <2>1
    <2>2. CASE i \in DOMAIN journalQueue
      <3>1. PlaceOf(i) \in 1 .. Len(submitted)
        <4>1. Collected \in Nat
          BY DEF TypeOK, Collected
        <4> QED BY <1>4, <1>5, <1>9, <2>2, <4>1, PlacesInside
      <3> QED BY <1>4, <1>5, <1>9, <2>2, <3>1 DEF LineOfQueue
    <2> QED BY <1>4, <1>5, <2>1, <2>2
  <1> QED BY <1>7, <1>8, <1>9 DEF LineOfQueue, ExitEntry

(* Both ways an entry leaves the queue. *)
LEMMA TailInLine ==
  ASSUME TypeOK, LineOfQueue, journalQueue # <<>>,
         journalQueue' = Tail(journalQueue),
         Collected' = Collected + (IF Head(journalQueue) = ExitEntry
                                     THEN 0 ELSE 1),
         UNCHANGED <<phase, submitted>>,
         journal' = "exited" <=> Head(journalQueue) = ExitEntry
  PROVE  LineOfQueue'
PROOF
  <1>1. /\ DOMAIN journalQueue' = 1 .. Len(journalQueue) - 1
        /\ Len(journalQueue') = Len(journalQueue) - 1
        /\ \A i \in DOMAIN journalQueue' :
             /\ i + 1 \in DOMAIN journalQueue
             /\ journalQueue'[i] = journalQueue[i + 1]
        /\ \A i \in 1 .. Len(journalQueue) : PlaceOf(i)' = PlaceOf(i + 1)
    BY TailKeepsPlaces
  <1>2. /\ Len(journalQueue) \in Nat \ {0}
        /\ DOMAIN journalQueue = 1 .. Len(journalQueue)
        /\ Head(journalQueue) = journalQueue[1]
    BY DEF TypeOK
  <1>3. ASSUME NEW i \in DOMAIN journalQueue', journalQueue'[i] = ExitEntry
        PROVE  /\ phase' = "joining" /\ journal' # "exited"
               /\ \A j \in DOMAIN journalQueue' :
                    journalQueue'[j] = ExitEntry => j = i
    <2>1. /\ phase = "joining"
          /\ \A j \in DOMAIN journalQueue :
               journalQueue[j] = ExitEntry => j = i + 1
      BY <1>1, <1>3 DEF LineOfQueue
    <2>2. Head(journalQueue) # ExitEntry
      BY <1>1, <1>2, <2>1
    <2> QED BY <1>1, <1>2, <2>1, <2>2
  <1>4. ASSUME NEW i \in DOMAIN journalQueue', journalQueue'[i] # ExitEntry
        PROVE  submitted'[PlaceOf(i)'] = journalQueue'[i].promise
    BY <1>1, <1>2, <1>4 DEF LineOfQueue
  <1>5. Len(submitted') + 1 = PlaceOf(Len(journalQueue) + 1)'
    BY <1>1, <1>2 DEF LineOfQueue
  <1> QED BY <1>3, <1>4, <1>5 DEF LineOfQueue, ExitEntry

(* The request to exit stands behind every add that was queued. *)
LEMMA EnqueueExitInLine ==
  ASSUME TypeOK, LineOfQueue, LineOfGroup, EnqueueExit
  PROVE  LineOfQueue'
PROOF
  <1>1. /\ journalQueue' = Append(journalQueue, ExitEntry)
        /\ phase = "closing" /\ phase' = "joining"
        /\ UNCHANGED <<submitted, journal, answered, entriesToSync>>
    BY DEF EnqueueExit, thread, group, history
  <1>2. /\ Len(journalQueue) \in Nat /\ Len(submitted) \in Nat
        /\ DOMAIN journalQueue = 1 .. Len(journalQueue)
        /\ Collected \in Nat /\ Collected' = Collected
    BY <1>1 DEF TypeOK, Collected
  <1>3. \A i \in DOMAIN journalQueue : journalQueue[i] # ExitEntry
    BY <1>1 DEF LineOfQueue
  <1>4. /\ DOMAIN journalQueue' = 1 .. Len(journalQueue) + 1
        /\ Len(journalQueue') = Len(journalQueue) + 1
        /\ journalQueue'[Len(journalQueue) + 1] = ExitEntry
        /\ \A i \in 1 .. Len(journalQueue) :
             journalQueue'[i] = journalQueue[i]
        /\ \A i \in 1 .. Len(journalQueue) + 1 : PlaceOf(i)' = PlaceOf(i)
        /\ ExitAhead(Len(journalQueue) + 1)'
    BY <1>1, <1>2, AppendKeepsPlaces
  <1>5. journal # "exited"
    BY <1>1 DEF LineOfGroup
  <1>6. Len(submitted') + 1 = PlaceOf(Len(journalQueue) + 1)'
    <2>1. ~ExitAhead(Len(journalQueue) + 1)
      BY <1>3 DEF ExitAhead
    <2> QED BY <1>1, <1>2, <1>4, <2>1 DEF PlaceOf, LineOfQueue
  <1>7. ASSUME NEW i \in DOMAIN journalQueue', journalQueue'[i] = ExitEntry
        PROVE  /\ phase' = "joining" /\ journal' # "exited"
               /\ \A j \in DOMAIN journalQueue' :
                    journalQueue'[j] = ExitEntry => j = i
    BY <1>1, <1>2, <1>3, <1>4, <1>5, <1>7
  <1>8. ASSUME NEW i \in DOMAIN journalQueue', journalQueue'[i] # ExitEntry
        PROVE  submitted'[PlaceOf(i)'] = journalQueue'[i].promise
    BY <1>1, <1>2, <1>4, <1>8 DEF LineOfQueue
  <1> QED BY <1>6, <1>7, <1>8 DEF LineOfQueue, ExitEntry

(* A process that vanishes takes its queue along. *)
LEMMA VanishInLine ==
  ASSUME TypeOK, NEW broken, Vanish(broken)
  PROVE  LineOfQueue'
PROOF
  <1>1. /\ journalQueue' = <<>> /\ entriesToSync' = <<>>
        /\ answered' = Len(submitted') /\ Len(submitted') \in Nat
    BY DEF Vanish, TypeOK
  <1>2. DOMAIN journalQueue' = {} /\ Len(journalQueue') = 0
        /\ Len(entriesToSync') = 0
    BY <1>1
  <1>3. ~ExitAhead(Len(journalQueue) + 1)'
    BY <1>2 DEF ExitAhead
  <1>4. PlaceOf(Len(journalQueue) + 1)' = Len(submitted') + 1
    BY <1>1, <1>2, <1>3 DEF PlaceOf, Collected
  <1> QED BY <1>2, <1>4 DEF LineOfQueue

-----------------------------------------------------------------------------
(* Each action keeps requests and group in line.                           *)

(* A put that has only begun is not in the line yet. *)
LEMMA PutBeginInLine ==
  ASSUME TypeOK, LineOfRequests,
         NEW t \in IOThreads, NEW r \in Requests, PutBegin(t, r)
  PROVE  LineOfRequests'
PROOF
  <1> USE ConstantsAssumption
  <1>1. /\ future[r] = "unused" /\ future'[r] = "pending"
        /\ \A q : q # r => future'[q] = future[q]
        /\ UNCHANGED <<submitted, answered>>
    BY DEF PutBegin, TypeOK, history
  <1>2. \A u \in IOThreads :
          IF u = t THEN putting'[u].promise = r
                   ELSE putting'[u] = putting[u]
    BY DEF PutBegin, TypeOK
  <1>3. /\ \A n \in DOMAIN submitted : submitted[n] # r
        /\ \A u \in IOThreads : putting[u] # Null => putting[u].promise # r
    BY <1>1 DEF LineOfRequests
  <1> QED BY <1>1, <1>2, <1>3 DEF LineOfRequests

(* Queueing an add keeps all three parts of the order. *)
LEMMA PutEnqueueKeepsLine ==
  ASSUME TypeOK, OnePlace, LineOfRequests, LineOfGroup,
         NEW t \in IOThreads, PutEnqueue(t)
  PROVE  LineOfRequests' /\ LineOfGroup'
PROOF
  <1> USE ConstantsAssumption
  <1> DEFINE r == putting[t].promise
  <1>1. r \in Requests /\ putting[t] # Null
    BY DEF PutEnqueue, TypeOK, AddEntry
  <1>2. /\ submitted' = Append(submitted, r)
        /\ UNCHANGED <<future, answered, entriesToSync, writeBatch, journal,
                       phase>>
    BY DEF PutEnqueue, thread, group
  <1>3. \A u \in IOThreads : putting'[u] # Null =>
          putting'[u] = putting[u] /\ putting[u].promise # r
    BY <1>1 DEF PutEnqueue, OnePlace, TypeOK
  <1>4. /\ future[r] = "pending"
        /\ \A n \in DOMAIN submitted : submitted[n] # r
    BY <1>1 DEF LineOfRequests
  <1> HIDE DEF r
  <1>5. /\ Len(submitted) \in Nat
        /\ DOMAIN submitted = 1 .. Len(submitted)
        /\ Len(submitted') = Len(submitted) + 1
        /\ DOMAIN submitted' = 1 .. Len(submitted) + 1
        /\ submitted'[Len(submitted) + 1] = r
        /\ \A n \in 1 .. Len(submitted) : submitted'[n] = submitted[n]
    BY <1>1, <1>2 DEF TypeOK
  <1>6. /\ answered \in Nat /\ Len(entriesToSync) \in Nat
        /\ DOMAIN entriesToSync = 1 .. Len(entriesToSync)
        /\ answered + Len(entriesToSync) <= Len(submitted)
    BY DEF TypeOK, LineOfGroup, Collected
  <1>7. LineOfRequests'
    <2>1. \A m, n \in DOMAIN submitted' :
            submitted'[m] = submitted'[n] => m = n
      BY <1>4, <1>5 DEF LineOfRequests
    <2>2. \A n \in DOMAIN submitted' :
            IF n <= answered'
              THEN future'[submitted'[n]] \notin {"unused", "pending"}
              ELSE future'[submitted'[n]] = "pending"
      BY <1>2, <1>4, <1>5, <1>6 DEF LineOfRequests
    <2>3. \A u \in IOThreads : putting'[u] # Null =>
            /\ future'[putting'[u].promise] = "pending"
            /\ \A n \in DOMAIN submitted' :
                 submitted'[n] # putting'[u].promise
      BY <1>2, <1>3, <1>4, <1>5 DEF LineOfRequests
    <2> QED BY <2>1, <2>2, <2>3 DEF LineOfRequests
  <1>8. LineOfGroup'
    <2>1. \A i \in DOMAIN entriesToSync' :
            entriesToSync'[i] = submitted'[answered' + i]
      BY <1>2, <1>5, <1>6 DEF LineOfGroup
    <2>2. Collected' <= Len(submitted')
      BY <1>2, <1>5, <1>6 DEF Collected
    <2> QED BY <1>2, <2>1, <2>2 DEF LineOfGroup
  <1> QED BY <1>7, <1>8

(* The journal takes from the head of the queue, so its group continues the*)
(* log.                                                                    *)
LEMMA CollectKeepsLine ==
  ASSUME TypeOK, LineOfRequests, LineOfGroup, LineOfQueue, CollectEntry
  PROVE  LineOfRequests' /\ LineOfGroup' /\ Collected' = Collected + 1
PROOF
  <1> USE ConstantsAssumption
  <1> DEFINE r == Head(journalQueue).promise
  <1>1. /\ journalQueue # <<>> /\ Head(journalQueue) # ExitEntry
        /\ UNCHANGED <<submitted, answered, future, putting, phase>>
        /\ journal = "collect"
        /\ journal' = IF BatchFull THEN "write" ELSE "collect"
        /\ entriesToSync' = Append(entriesToSync, r)
    BY DEF CollectEntry, callers, history
  <1>2. Head(journalQueue) \in AddEntry /\ r \in Requests
    BY <1>1 DEF TypeOK, AddEntry
  <1>3. PICK x : writeBatch' = Append(writeBatch, x) /\ x.request = r
    BY DEF CollectEntry
  <1>4. /\ 1 \in DOMAIN journalQueue /\ journalQueue[1] = Head(journalQueue)
        /\ \A i \in DOMAIN journalQueue : i \in Nat /\ ~(i < 1)
    BY <1>1 DEF TypeOK
  <1> HIDE DEF r
  <1>5. /\ Len(entriesToSync) \in Nat
        /\ DOMAIN entriesToSync = 1 .. Len(entriesToSync)
        /\ Len(entriesToSync') = Len(entriesToSync) + 1
        /\ DOMAIN entriesToSync' = 1 .. Len(entriesToSync) + 1
        /\ entriesToSync'[Len(entriesToSync) + 1] = r
        /\ \A i \in 1 .. Len(entriesToSync) :
             entriesToSync'[i] = entriesToSync[i]
        /\ answered \in Nat /\ Len(submitted) \in Nat
    BY <1>1, <1>2 DEF TypeOK
  <1>6. /\ Len(writeBatch) \in Nat
        /\ DOMAIN writeBatch = 1 .. Len(writeBatch)
        /\ Len(writeBatch') = Len(writeBatch) + 1
        /\ DOMAIN writeBatch' = 1 .. Len(writeBatch) + 1
        /\ writeBatch'[Len(writeBatch) + 1].request = r
        /\ \A i \in 1 .. Len(writeBatch) : writeBatch'[i] = writeBatch[i]
    BY <1>3 DEF TypeOK
  <1>7. Collected' = Collected + 1 /\ Collected \in Nat
    BY <1>1, <1>5 DEF Collected
  <1>8. PlaceOf(1) = Collected + 1
    <2>1. ~ExitAhead(1)
      BY <1>4 DEF ExitAhead
    <2> QED BY <1>7, <2>1 DEF PlaceOf
  <1>9. PlaceOf(1) <= Len(submitted) /\ submitted[PlaceOf(1)] = r
    <2>1. PlaceOf(1) \in Collected + 1 .. Len(submitted)
      BY <1>1, <1>4, PlacesInside
    <2> QED BY <1>1, <1>4, <1>5, <1>7, <2>1 DEF LineOfQueue, r
  <1>10. \A i \in DOMAIN entriesToSync' :
           entriesToSync'[i] = submitted'[answered' + i]
    BY <1>1, <1>5, <1>8, <1>9 DEF LineOfGroup, Collected
  <1>11. /\ Len(writeBatch') = Len(entriesToSync')
         /\ \A i \in DOMAIN writeBatch' :
              writeBatch'[i].request = entriesToSync'[i]
    BY <1>1, <1>5, <1>6 DEF LineOfGroup
  <1>12. /\ Len(entriesToSync') <= SyncLimit + 1
         /\ journal' = "collect" => Len(entriesToSync') <= SyncLimit
    BY <1>1, <1>5 DEF LineOfGroup, BatchFull
  <1>13. LineOfGroup'
    BY <1>1, <1>7, <1>8, <1>9, <1>10, <1>11, <1>12 DEF LineOfGroup
  <1>14. LineOfRequests'
    BY <1>1 DEF LineOfRequests
  <1> QED BY <1>7, <1>13, <1>14

(* The futures of the group are those of the next places in line.          *)
LEMMA GroupInLine ==
  ASSUME TypeOK, LineOfRequests, LineOfGroup
  PROVE  /\ answered \in Nat /\ Len(submitted) \in Nat
         /\ Len(entriesToSync) \in Nat
         /\ DOMAIN submitted = 1 .. Len(submitted)
         /\ DOMAIN entriesToSync = 1 .. Len(entriesToSync)
         /\ answered + Len(entriesToSync) <= Len(submitted)
         /\ \A n \in DOMAIN submitted :
              /\ submitted[n] \in Requests
              /\ submitted[n] \in Grouped <=>
                   n \in answered + 1 .. answered + Len(entriesToSync)
         /\ \A q \in Grouped : \E n \in DOMAIN submitted : submitted[n] = q
PROOF
  <1>1. /\ answered \in Nat /\ Len(submitted) \in Nat
        /\ Len(entriesToSync) \in Nat
        /\ DOMAIN submitted = 1 .. Len(submitted)
        /\ DOMAIN entriesToSync = 1 .. Len(entriesToSync)
        /\ answered + Len(entriesToSync) <= Len(submitted)
        /\ \A n \in DOMAIN submitted : submitted[n] \in Requests
    BY DEF TypeOK, LineOfGroup, Collected
  <1>2. \A i \in DOMAIN entriesToSync :
          answered + i \in DOMAIN submitted
          /\ entriesToSync[i] = submitted[answered + i]
    BY <1>1 DEF LineOfGroup
  <1>3. ASSUME NEW n \in DOMAIN submitted, submitted[n] \in Grouped
        PROVE  n \in answered + 1 .. answered + Len(entriesToSync)
    <2>1. PICK i \in DOMAIN entriesToSync : entriesToSync[i] = submitted[n]
      BY <1>3 DEF Grouped, Promised
    <2>2. n = answered + i
      BY <1>2, <2>1 DEF LineOfRequests
    <2> QED BY <1>1, <2>2
  <1>4. ASSUME NEW n \in answered + 1 .. answered + Len(entriesToSync)
        PROVE  submitted[n] \in Grouped
    <2>1. /\ n - answered \in DOMAIN entriesToSync
          /\ answered + (n - answered) = n
      BY <1>1
    <2>2. submitted[n] = entriesToSync[n - answered]
      BY <1>2, <2>1
    <2> QED BY <2>1, <2>2 DEF Grouped, Promised
  <1>5. \A q \in Grouped : \E n \in DOMAIN submitted : submitted[n] = q
    BY <1>2 DEF Grouped, Promised
  <1> QED BY <1>1, <1>3, <1>4, <1>5

(* The journal thread that exits breaks the promises of its group. *)
LEMMA JournalExitKeepsLine ==
  ASSUME TypeOK, LineOfRequests, LineOfGroup, LineOfQueue, JournalExit
  PROVE  LineOfRequests' /\ LineOfGroup' /\ Collected' = Collected
PROOF
  <1> USE ConstantsAssumption
  <1>1. /\ journalQueue # <<>> /\ Head(journalQueue) = ExitEntry
        /\ UNCHANGED <<submitted, putting, phase>>
        /\ journal' = "exited"
        /\ entriesToSync' = <<>> /\ writeBatch' = <<>>
        /\ answered' = answered + Len(entriesToSync)
        /\ future' = Break(future, Grouped)
    BY DEF JournalExit, DropGroup, Grouped
  <1>2. phase = "joining"
    BY <1>1 DEF LineOfQueue, TypeOK
  <1>3. Len(entriesToSync') = 0 /\ DOMAIN entriesToSync' = {}
        /\ Len(writeBatch') = 0 /\ DOMAIN writeBatch' = {}
    BY <1>1
  <1>4. Collected' = Collected
    BY <1>1, <1>3, GroupInLine DEF Collected
  <1>5. LineOfGroup'
    BY <1>1, <1>2, <1>3, <1>4 DEF LineOfGroup
  <1>6. \A q \in Requests :
          future'[q] = IF q \in Grouped THEN "broken" ELSE future[q]
    BY <1>1 DEF Break
  <1>7. \A n \in DOMAIN submitted :
          IF n <= answered'
            THEN future'[submitted[n]] \notin {"unused", "pending"}
            ELSE future'[submitted[n]] = "pending"
    BY <1>1, <1>6, GroupInLine DEF LineOfRequests
  <1>8. \A t \in IOThreads : putting[t] # Null =>
          future'[putting[t].promise] = "pending"
    <2>1. \A t \in IOThreads : putting[t] # Null =>
            putting[t].promise \in Requests \ Grouped
      BY GroupInLine DEF LineOfRequests, TypeOK, AddEntry
    <2> QED BY <1>6, <2>1 DEF LineOfRequests
  <1>9. LineOfRequests'
    BY <1>1, <1>7, <1>8 DEF LineOfRequests
  <1> QED BY <1>4, <1>5, <1>9

(* The first promise of the group is the first that is unanswered. *)
LEMMA SetValueKeepsLine ==
  ASSUME TypeOK, LineOfRequests, LineOfGroup, SetValue
  PROVE  LineOfRequests' /\ LineOfGroup' /\ Collected' = Collected
PROOF
  <1> USE ConstantsAssumption
  <1>1. /\ journal = "complete" /\ journal' \in {"collect", "complete"}
        /\ UNCHANGED <<submitted, putting, phase>>
        /\ entriesToSync' = Tail(entriesToSync)
        /\ answered' = answered + 1
        /\ future' = [future EXCEPT ![Head(entriesToSync)] = "value"]
        /\ journal' = "collect" =>
             Len(entriesToSync) = 1 /\ writeBatch' = <<>>
    BY DEF SetValue, GroupDone
  <1>2. /\ Len(entriesToSync) \in Nat \ {0}
        /\ Head(entriesToSync) = entriesToSync[1]
        /\ Len(entriesToSync') = Len(entriesToSync) - 1
        /\ DOMAIN entriesToSync' = 1 .. Len(entriesToSync) - 1
        /\ DOMAIN entriesToSync = 1 .. Len(entriesToSync)
        /\ \A i \in 1 .. Len(entriesToSync) - 1 :
             entriesToSync'[i] = entriesToSync[i + 1]
    BY <1>1 DEF TypeOK
  <1>3. Collected' = Collected
    BY <1>1, <1>2, GroupInLine DEF Collected
  <1>4. /\ answered + 1 \in DOMAIN submitted
        /\ Head(entriesToSync) = submitted[answered + 1]
    BY <1>2, GroupInLine DEF LineOfGroup
  <1>5. \A q \in Requests :
          future'[q] = IF q = submitted[answered + 1]
                         THEN "value" ELSE future[q]
    BY <1>1, <1>4 DEF TypeOK
  <1>6. \A n \in DOMAIN submitted :
          IF n <= answered'
            THEN future'[submitted[n]] \notin {"unused", "pending"}
            ELSE future'[submitted[n]] = "pending"
    <2>1. \A n \in DOMAIN submitted :
            submitted[n] = submitted[answered + 1] <=> n = answered + 1
      BY <1>4 DEF LineOfRequests
    <2> QED BY <1>1, <1>4, <1>5, <2>1, GroupInLine DEF LineOfRequests
  <1>7. \A t \in IOThreads : putting[t] # Null =>
          future'[putting[t].promise] = "pending"
    <2>1. \A t \in IOThreads : putting[t] # Null =>
            putting[t].promise \in Requests \ {submitted[answered + 1]}
      BY <1>4 DEF LineOfRequests, TypeOK, AddEntry
    <2> QED BY <1>5, <2>1 DEF LineOfRequests
  <1>8. LineOfRequests'
    BY <1>1, <1>6, <1>7 DEF LineOfRequests
  <1>9. \A i \in DOMAIN entriesToSync' :
          entriesToSync'[i] = submitted'[answered' + i]
    BY <1>1, <1>2, GroupInLine DEF LineOfGroup
  <1>10. /\ Len(entriesToSync') <= SyncLimit + 1
         /\ journal' = "collect" => Len(entriesToSync') <= SyncLimit
    BY <1>1, <1>2 DEF LineOfGroup
  <1>11. ASSUME journal' # "complete"
         PROVE  /\ Len(writeBatch') = Len(entriesToSync')
                /\ DOMAIN writeBatch' = {}
    <2>1. writeBatch' = <<>> /\ Len(entriesToSync) = 1
      BY <1>1, <1>11
    <2>2. Len(writeBatch') = 0 /\ DOMAIN writeBatch' = {}
      BY <2>1
    <2> QED BY <1>2, <2>1, <2>2
  <1>12. LineOfGroup'
    BY <1>1, <1>3, <1>9, <1>10, <1>11 DEF LineOfGroup
  <1> QED BY <1>3, <1>8, <1>12

(* Nothing that was asked for stays unanswered when the process ends. *)
LEMMA VanishKeepsLine ==
  ASSUME TypeOK, LineOfRequests, NEW broken, Vanish(broken)
  PROVE  LineOfRequests' /\ LineOfGroup'
PROOF
  <1> USE ConstantsAssumption
  <1>1. /\ journal' = "collect" /\ UNCHANGED submitted
        /\ entriesToSync' = <<>> /\ writeBatch' = <<>>
        /\ answered' = Len(submitted) /\ Len(submitted) \in Nat
        /\ DOMAIN submitted = 1 .. Len(submitted)
        /\ \A t \in IOThreads : putting'[t] = Null
    BY DEF Vanish, TypeOK
  <1>2. Len(entriesToSync') = 0 /\ DOMAIN entriesToSync' = {}
        /\ Len(writeBatch') = 0 /\ DOMAIN writeBatch' = {}
    BY <1>1
  <1>3. LineOfGroup'
    BY <1>1, <1>2 DEF LineOfGroup, Collected
  <1>4. \A q \in Requests : /\ future'[q] # "pending"
                            /\ future[q] # "unused" => future'[q] # "unused"
    BY DEF Vanish, Lose, Break
  <1>5. \A n \in DOMAIN submitted :
          submitted[n] \in Requests /\ future[submitted[n]] # "unused"
    BY DEF LineOfRequests, TypeOK
  <1>6. LineOfRequests'
    BY <1>1, <1>4, <1>5 DEF LineOfRequests
  <1> QED BY <1>3, <1>6

-----------------------------------------------------------------------------
(* The line, put together.                                                 *)
LEMMA LineStep ==
  ASSUME TypeOK, PlaceInv, LineInv, [Next]_vars
  PROVE  LineInv'
PROOF
  <1> USE ConstantsAssumption
  <1> USE DEF LineInv
  <1>1. OnePlace
    BY DEF PlaceInv
  <1>2. ASSUME UNCHANGED <<submitted, answered, future, putting>>
        PROVE  LineOfRequests'
    BY <1>2 DEF LineOfRequests
  <1>3. ASSUME UNCHANGED <<submitted, answered, entriesToSync>>
        PROVE  Collected' = Collected
    BY <1>3 DEF Collected
  <1>4. CASE Open \/ Destroy \/ UNCHANGED vars
    <2>1. /\ UNCHANGED <<future, putting, journalQueue, journal, group,
                       history>>
          /\ phase' # phase => phase # "joining"
      BY <1>4 DEF Open, Destroy, vars, callers, thread, group, history
    <2>2. LineOfGroup' /\ Collected' = Collected
      BY <2>1, <1>3 DEF LineOfGroup, group, history
    <2>3. \A i : PlaceOf(i)' = PlaceOf(i)
      BY <2>1, <2>2 DEF PlaceOf, ExitAhead, ExitEntry
    <2>4. /\ phase' = phase \/ \A i \in DOMAIN journalQueue :
                                journalQueue[i] # ExitEntry
          /\ UNCHANGED <<journal, submitted>>
      BY <2>1 DEF LineOfQueue, history
    <2>5. LineOfQueue'
      BY <2>1, <2>3, <2>4 DEF LineOfQueue, ExitEntry
    <2> QED BY <1>2, <2>1, <2>2, <2>5 DEF history
  <1>5. ASSUME NEW t \in IOThreads, NEW r \in Requests, PutBegin(t, r)
        PROVE  LineInv'
    <2>1. UNCHANGED <<phase, journalQueue, thread, group, history>>
      BY <1>5 DEF PutBegin
    <2>2. LineOfGroup' /\ Collected' = Collected
      BY <2>1, <1>3 DEF LineOfGroup, thread, group, history
    <2>3. LineOfQueue'
      BY <2>1, <2>2, QueueStaysInLine DEF thread, history
    <2> QED BY <1>5, <2>2, <2>3, PutBeginInLine
  <1>6. ASSUME NEW t \in IOThreads, PutEnqueue(t) PROVE LineInv'
    BY <1>1, <1>6, PutEnqueueKeepsLine, PutEnqueueInLine
  <1>7. CASE CollectEntry
    <2>1. LineOfRequests' /\ LineOfGroup' /\ Collected' = Collected + 1
      BY <1>7, CollectKeepsLine
    <2>2. /\ journalQueue # <<>> /\ journalQueue' = Tail(journalQueue)
          /\ Head(journalQueue) # ExitEntry /\ journal' # "exited"
          /\ UNCHANGED <<phase, submitted>>
      BY <1>7 DEF CollectEntry, callers, history
    <2> QED BY <2>1, <2>2, TailInLine
  <1>8. CASE JournalExit
    <2>1. LineOfRequests' /\ LineOfGroup' /\ Collected' = Collected
      BY <1>8, JournalExitKeepsLine
    <2>2. /\ journalQueue # <<>> /\ journalQueue' = Tail(journalQueue)
          /\ Head(journalQueue) = ExitEntry /\ journal' = "exited"
          /\ UNCHANGED <<phase, submitted>>
      BY <1>8 DEF JournalExit
    <2>3. Collected \in Nat
      BY DEF TypeOK, Collected
    <2> QED BY <2>1, <2>2, <2>3, TailInLine
  <1>9. CASE QueueDrained \/ Write
    <2>1. /\ UNCHANGED <<phase, future, putting, journalQueue, group, history>>
          /\ journal \in {"collect", "write"}
          /\ journal' \in {"collect", "write", "complete"}
          /\ journal' = "collect" => journal = "collect"
      BY <1>9 DEF QueueDrained, AfterDrain, Write, callers
    <2>2. LineOfGroup' /\ Collected' = Collected
      BY <2>1, <1>3 DEF LineOfGroup, group, history
    <2>3. LineOfQueue'
      BY <2>1, <2>2, QueueStaysInLine DEF history
    <2> QED BY <1>2, <2>1, <2>2, <2>3 DEF history
  <1>10. CASE SetValue
    <2>1. LineOfRequests' /\ LineOfGroup' /\ Collected' = Collected
      BY <1>10, SetValueKeepsLine
    <2>2. UNCHANGED <<phase, journalQueue, submitted>> /\ journal' # "exited"
      BY <1>10 DEF SetValue, GroupDone
    <2> QED BY <2>1, <2>2, QueueStaysInLine
  <1>11. CASE EnqueueExit
    <2>1. /\ UNCHANGED <<future, putting, thread, group, history>>
          /\ phase = "closing"
      BY <1>11 DEF EnqueueExit
    <2>2. LineOfGroup'
      BY <2>1, <1>3 DEF LineOfGroup, thread, group, history
    <2> QED BY <1>2, <1>11, <2>1, <2>2, EnqueueExitInLine DEF history
  <1>12. CASE FinishDestroy \/ JournalFault \/ ProcessCrash \/ PowerLossCrash
    <2>1. PICK broken : Vanish(broken)
      BY <1>12 DEF FinishDestroy, JournalFault, ProcessCrash, PowerLossCrash
    <2> QED BY <2>1, VanishKeepsLine, VanishInLine
  <1> QED
    BY <1>4, <1>5, <1>6, <1>7, <1>8, <1>9, <1>10, <1>11, <1>12 DEF Next

(* The adds stand in one line: settled ones, the group, the queue.         *)
LEMMA LineInvariant == Spec => []LineInv
PROOF
  <1>1. Init => LineInv
    <2> SUFFICES ASSUME Init PROVE LineInv
      OBVIOUS
    <2>1. /\ submitted = <<>> /\ answered = 0 /\ entriesToSync = <<>>
          /\ writeBatch = <<>> /\ journalQueue = <<>>
          /\ journal = "collect"
          /\ \A t \in IOThreads : putting[t] = Null
      BY DEF Init
    <2>2. Len(<<>>) = 0 /\ DOMAIN <<>> = {}
      OBVIOUS
    <2>3. LineOfRequests
      BY <2>1, <2>2 DEF LineOfRequests
    <2>4. LineOfGroup
      BY <2>1, <2>2, ConstantsAssumption DEF LineOfGroup, Collected
    <2>5. LineOfQueue
      BY <2>1, <2>2 DEF LineOfQueue, PlaceOf, ExitAhead, Collected
    <2> QED BY <2>3, <2>4, <2>5 DEF LineInv
  <1>2. TypeOK /\ PlaceInv /\ LineInv /\ [Next]_vars => LineInv'
    BY LineStep
  <1> QED BY <1>1, <1>2, TypeCorrect, PlaceInvariant, PTL DEF Spec

-----------------------------------------------------------------------------
(* The log follows the line.                                               *)

(* What the log is made of after a crash or a Write. *)
LEMMA WalGrows ==
  ASSUME TypeOK, LineInv, Write
  PROVE  /\ Committed = answered
         /\ Committed' = answered + Len(entriesToSync)
         /\ \A b \in DOMAIN wal' :
              \/ b \in DOMAIN wal /\ wal'[b] = wal[b]
              \/ /\ b = Len(wal) + 1 /\ wal'[b] = writeBatch
                 /\ \A c \in DOMAIN wal : c < b
PROOF
  <1>1. /\ journal = "write" /\ journal' = "complete"
        /\ UNCHANGED <<answered, entriesToSync>>
        /\ wal' = wal \/ wal' = Append(wal, writeBatch)
    BY DEF Write, WriteSucceeds, WriteFails, group, history
  <1>2. Committed = answered /\ Committed' = answered + Len(entriesToSync)
    BY <1>1 DEF Committed, TypeOK
  <1>3. wal \in Seq(Seq(Record)) /\ writeBatch \in Seq(Record)
    BY DEF TypeOK
  <1>4. CASE wal' = Append(wal, writeBatch)
    <2>1. /\ DOMAIN wal = 1 .. Len(wal) /\ Len(wal) \in Nat
          /\ DOMAIN wal' = 1 .. Len(wal) + 1
          /\ wal'[Len(wal) + 1] = writeBatch
          /\ \A b \in 1 .. Len(wal) : wal'[b] = wal[b]
      BY <1>3, <1>4
    <2> QED BY <1>2, <2>1
  <1> QED BY <1>1, <1>2, <1>4

(* The adds that count as committed were collected. *)
LEMMA CommittedInLine ==
  ASSUME TypeOK, LineInv
  PROVE  /\ Committed \in answered .. Len(submitted)
         /\ Committed <= Collected
         /\ DOMAIN submitted = 1 .. Len(submitted) /\ Len(submitted) \in Nat
PROOF
  BY DEF TypeOK, LineInv, LineOfGroup, Committed, Collected

(* Fulfilling a promise moves the group's head to the settled adds. *)
LEMMA AnswerCommitsNothing ==
  ASSUME TypeOK, SetValue
  PROVE  /\ Committed' = Committed
         /\ Committed = answered + Len(entriesToSync)
         /\ Len(entriesToSync) \in Nat \ {0}
PROOF
  <1>1. /\ answered' = answered + 1 /\ Len(entriesToSync) \in Nat \ {0}
        /\ Len(entriesToSync') = Len(entriesToSync) - 1
        /\ journal = "complete"
        /\ journal' = "complete" \/ Len(entriesToSync) = 1
        /\ journal' \in {"complete", "collect"}
    BY DEF SetValue, GroupDone, TypeOK
  <1>2. answered \in Nat
    BY DEF TypeOK
  <1>3. Committed = answered + Len(entriesToSync)
    BY <1>1 DEF Committed
  <1>4. CASE journal' = "complete"
    BY <1>1, <1>2, <1>3, <1>4 DEF Committed
  <1>5. CASE journal' = "collect"
    <2>1. Committed' = answered' /\ Len(entriesToSync) = 1
      BY <1>1, <1>2, <1>5 DEF Committed
    <2> QED BY <1>1, <1>3, <2>1
  <1> QED BY <1>1, <1>3, <1>4, <1>5

(* No step disturbs the order of what is logged. *)
LEMMA LogInLineStep ==
  ASSUME TypeOK, LineInv, LogInLine, LogInOrder, [Next]_vars
  PROVE  LogInLine' /\ LogInOrder'
PROOF
  <1> USE ConstantsAssumption
  <1>a. /\ \A n \in DOMAIN submitted :
             n \in DOMAIN submitted' /\ submitted'[n] = submitted[n]
        /\ Committed \in Nat
        /\ \A n \in DOMAIN submitted : n \in Nat
    <2>1. Committed \in Nat /\ \A n \in DOMAIN submitted : n \in Nat
      BY CommittedInLine DEF TypeOK
    <2>2. ASSUME NEW t \in IOThreads, PutEnqueue(t)
          PROVE  \A n \in DOMAIN submitted :
                   n \in DOMAIN submitted' /\ submitted'[n] = submitted[n]
      <3>1. /\ submitted' = Append(submitted, putting[t].promise)
            /\ putting[t].promise \in Requests
        BY <2>2 DEF PutEnqueue, TypeOK, AddEntry
      <3> QED BY SMTT(30), <3>1 DEF TypeOK
    <2>3. (\E t \in IOThreads : PutEnqueue(t)) \/ UNCHANGED submitted
      BY DEF Next, Open, PutBegin, CollectEntry, JournalExit, QueueDrained,
             Write, SetValue, JournalFault, Destroy, EnqueueExit,
             FinishDestroy, ProcessCrash, PowerLossCrash, Vanish, vars, history
    <2> QED BY <2>1, <2>2, <2>3
  <1>1. ASSUME Committed' \in Nat, Committed <= Committed',
               \A b \in DOMAIN wal' : b \in DOMAIN wal /\ wal'[b] = wal[b]
        PROVE  LogInLine' /\ LogInOrder'
    <2>1. LogInLine'
      <3>1. \A n \in 1 .. Committed : n \in 1 .. Committed'
        BY <1>a, <1>1
      <3> QED BY <1>a, <1>1, <3>1 DEF LogInLine
    <2>2. LogInOrder'
      BY <1>a, <1>1 DEF LogInOrder
    <2> QED BY <2>1, <2>2
  <1>2. CASE Write
    <2>1. /\ answered \in Nat /\ Len(entriesToSync) \in Nat
          /\ DOMAIN entriesToSync = 1 .. Len(entriesToSync)
          /\ DOMAIN writeBatch = 1 .. Len(entriesToSync)
          /\ DOMAIN submitted = 1 .. Len(submitted)
          /\ answered + Len(entriesToSync) <= Len(submitted)
          /\ Len(submitted) \in Nat /\ UNCHANGED submitted
          /\ \A i \in DOMAIN writeBatch :
               writeBatch[i].request = submitted[answered + i]
      <3>1. /\ answered \in Nat /\ Len(entriesToSync) \in Nat
            /\ DOMAIN entriesToSync = 1 .. Len(entriesToSync)
            /\ DOMAIN submitted = 1 .. Len(submitted)
            /\ DOMAIN writeBatch = 1 .. Len(writeBatch)
            /\ Len(submitted) \in Nat
        BY DEF TypeOK
      <3>2. /\ Len(writeBatch) = Len(entriesToSync)
            /\ UNCHANGED submitted
            /\ answered + Len(entriesToSync) <= Len(submitted)
            /\ \A i \in DOMAIN writeBatch :
                 writeBatch[i].request = entriesToSync[i]
            /\ \A i \in DOMAIN entriesToSync :
                 entriesToSync[i] = submitted[answered + i]
        BY <1>2 DEF LineInv, LineOfGroup, Collected, Write, history
      <3> QED BY <3>1, <3>2
    <2>2. \A i \in DOMAIN writeBatch :
            /\ answered + i \in DOMAIN submitted
            /\ answered + i \in 1 .. answered + Len(entriesToSync)
      BY <2>1
    <2>3. LogInLine'
      <3> SUFFICES ASSUME NEW b \in DOMAIN wal', NEW i \in DOMAIN wal'[b]
                   PROVE  \E n \in 1 .. answered + Len(entriesToSync) :
                            /\ n \in DOMAIN submitted
                            /\ submitted[n] = wal'[b][i].request
        BY <1>2, <2>1, WalGrows DEF LogInLine
      <3>1. CASE b \in DOMAIN wal /\ wal'[b] = wal[b]
        <4>1. PICK n \in 1 .. Committed :
                n \in DOMAIN submitted /\ submitted[n] = wal[b][i].request
          BY <3>1 DEF LogInLine
        <4> QED BY <1>2, <2>1, <3>1, <4>1, WalGrows
      <3>2. CASE wal'[b] = writeBatch
        BY <2>1, <2>2, <3>2
      <3> QED BY <1>2, <3>1, <3>2, WalGrows
    <2>4. LogInOrder'
      <3> SUFFICES ASSUME NEW b \in DOMAIN wal', NEW c \in DOMAIN wal',
                          NEW i \in DOMAIN wal'[b], NEW j \in DOMAIN wal'[c],
                          b < c \/ (b = c /\ i < j)
                   PROVE  \E m, n \in DOMAIN submitted' :
                            /\ m < n
                            /\ submitted'[m] = wal'[b][i].request
                            /\ submitted'[n] = wal'[c][j].request
        BY DEF LogInOrder
      <3>1. CASE c \in DOMAIN wal /\ wal'[c] = wal[c]
        <4>1. b \in DOMAIN wal /\ wal'[b] = wal[b]
          <5>1. DOMAIN wal = 1 .. Len(wal) /\ Len(wal) \in Nat
            BY DEF TypeOK
          <5>2. ASSUME b = Len(wal) + 1 PROVE FALSE
            <6>1. c \in 1 .. Len(wal) /\ ~(b < c) /\ b # c
              BY <3>1, <5>1, <5>2
            <6> QED BY <6>1
          <5> QED BY <1>2, <5>2, WalGrows
        <4>2. i \in DOMAIN wal[b] /\ j \in DOMAIN wal[c]
          BY <3>1, <4>1
        <4>3. PICK m, n \in DOMAIN submitted :
                /\ m < n
                /\ submitted[m] = wal[b][i].request
                /\ submitted[n] = wal[c][j].request
          BY <3>1, <4>1, <4>2 DEF LogInOrder
        <4> QED BY <2>1, <3>1, <4>1, <4>3
      <3>2. CASE wal'[c] = writeBatch
        <4>1. /\ j \in DOMAIN writeBatch
              /\ wal'[c][j].request = submitted[answered + j]
          BY <2>1, <3>2
        <4>2. CASE b \in DOMAIN wal /\ wal'[b] = wal[b]
          <5>1. PICK m \in 1 .. Committed :
                  m \in DOMAIN submitted /\ submitted[m] = wal[b][i].request
            BY <4>2 DEF LogInLine
          <5>2. m < answered + j
            BY <1>2, <2>1, <4>1, <5>1, WalGrows
          <5> QED BY <2>1, <2>2, <4>1, <4>2, <5>1, <5>2
        <4>3. CASE b = Len(wal) + 1 /\ wal'[b] = writeBatch
          <5>1. c = b /\ i < j
            BY <1>2, <4>3, WalGrows DEF TypeOK
          <5>2. answered + i < answered + j
            BY <2>1, <4>1, <4>3, <5>1
          <5> QED BY <2>1, <2>2, <4>1, <4>3, <5>2
        <4> QED BY <1>2, <4>2, <4>3, WalGrows
      <3> QED BY <1>2, <3>1, <3>2, WalGrows
    <2> QED BY <2>3, <2>4
  <1>3. CASE FinishDestroy \/ JournalFault \/ ProcessCrash \/ PowerLossCrash
    <2>1. PICK broken : Vanish(broken)
      BY <1>3 DEF FinishDestroy, JournalFault, ProcessCrash, PowerLossCrash
    <2>2. Committed' = Len(submitted)
      BY <2>1 DEF Vanish, Committed, TypeOK
    <2>3. \A b \in DOMAIN wal' : b \in DOMAIN wal /\ wal'[b] = wal[b]
      <3>1. CASE UNCHANGED wal
        BY <3>1
      <3>2. CASE PowerLossCrash
        <4>1. PICK n \in durable .. Len(wal) : wal' = SubSeq(wal, 1, n)
          BY <3>2 DEF PowerLossCrash
        <4>2. wal \in Seq(Seq(Record)) /\ n \in 0 .. Len(wal)
          BY <4>1 DEF TypeOK
        <4> QED BY <4>1, <4>2
      <3> QED BY <1>3, <3>1, <3>2 DEF FinishDestroy, JournalFault, ProcessCrash
    <2> QED BY <1>1, <2>2, <2>3, CommittedInLine
  <1>4. CASE JournalExit
    <2>1. /\ Committed' = Committed + Len(entriesToSync)
          /\ Len(entriesToSync) \in Nat
      BY <1>4 DEF JournalExit, DropGroup, Committed, TypeOK
    <2> QED BY <1>a, <1>1, <1>4, <2>1 DEF JournalExit, DropGroup, disk
  <1>5. CASE SetValue
    BY <1>a, <1>1, <1>5, AnswerCommitsNothing DEF SetValue, disk
  <1>6. CASE \/ Open \/ CollectEntry \/ QueueDrained \/ Destroy \/ EnqueueExit
             \/ \E t \in IOThreads, r \in Requests : PutBegin(t, r)
             \/ \E t \in IOThreads : PutEnqueue(t)
             \/ UNCHANGED vars
    <2>1. /\ UNCHANGED <<answered, wal>>
          /\ UNCHANGED <<journal, entriesToSync>>
               \/ (journal # "complete" /\ journal' # "complete")
      BY <1>6 DEF Open, CollectEntry, QueueDrained, AfterDrain, Destroy,
               EnqueueExit, PutBegin, PutEnqueue, vars, thread, group, disk,
               history
    <2>2. Committed' = Committed
      BY <2>1 DEF Committed
    <2> QED BY <1>a, <1>1, <2>1, <2>2
  <1> QED
    BY <1>2, <1>3, <1>4, <1>5, <1>6 DEF Next

(* However groups, failed writes, crashes and restarts fall, the database  *)
(* holds the adds in the order in which put queued them, each once.        *)
THEOREM LogKeepsTheOrder == Spec => []LogInOrder
PROOF
  <1>1. Init => LogInLine /\ LogInOrder
    <2>1. Init => DOMAIN wal = {}
      BY DEF Init
    <2> QED BY <2>1 DEF LogInLine, LogInOrder
  <1>2. TypeOK /\ LineInv /\ LogInLine /\ LogInOrder /\ [Next]_vars
          => LogInLine' /\ LogInOrder'
    BY LogInLineStep
  <1> QED BY <1>1, <1>2, TypeCorrect, LineInvariant, PTL DEF Spec

-----------------------------------------------------------------------------
(* Storage implements GroupCommit.                                         *)

(* Crash and destruction, whatever promises they break, close the store:   *)
(* broken are only adds the database has not been handed.                  *)
LEMMA VanishIsClose ==
  ASSUME TypeOK, LineInv, NEW broken, Vanish(broken),
         \A r \in broken : /\ r \in Requests
                           /\ future[r] = "pending"
                           /\ \A n \in 1 .. Committed : submitted[n] # r
  PROVE  Abstract!Next
PROOF
  <1>1. /\ future' = Lose(Break(future, broken))
        /\ answered' = Len(submitted) /\ UNCHANGED submitted
    BY DEF Vanish
  <1>2. Committed' = Len(submitted)
    BY DEF Vanish, Committed, TypeOK
  <1>3. future' = [r \in Requests |->
                     IF r \in broken THEN "broken"
                     ELSE IF future[r] = "pending" THEN "lost" ELSE future[r]]
    BY <1>1 DEF Lose, Break
  <1>4. broken \in SUBSET Requests
    OBVIOUS
  <1>5. Abstract!Close(broken)
    BY <1>1, <1>2, <1>3 DEF Abstract!Close
  <1> QED BY <1>4, <1>5 DEF Abstract!Next

(* What is queued when the journal thread has exited was never collected.  *)
LEMMA QueuedIsUncommitted ==
  ASSUME TypeOK, LineInv, NEW r \in Queued
  PROVE  /\ r \in Requests
         /\ future[r] = "pending"
         /\ \A n \in 1 .. Committed : submitted[n] # r
PROOF
  <1>1. PICK i \in DOMAIN journalQueue :
          journalQueue[i].promise = r /\ r # Null
    BY DEF Queued
  <1>2. journalQueue[i] # ExitEntry
    BY <1>1 DEF ExitEntry
  <1>3. /\ PlaceOf(i) \in Collected + 1 .. Len(submitted)
        /\ submitted[PlaceOf(i)] = r
    BY <1>1, <1>2, PlacesInside DEF LineInv, LineOfQueue
  <1>4. /\ answered \in Nat /\ Len(entriesToSync) \in Nat
        /\ Collected = answered + Len(entriesToSync)
        /\ DOMAIN submitted = 1 .. Len(submitted) /\ Len(submitted) \in Nat
        /\ Committed \in Nat /\ Committed <= Collected
    BY CommittedInLine DEF TypeOK, Collected
  <1>5. PlaceOf(i) \in DOMAIN submitted /\ ~(PlaceOf(i) <= answered)
    BY <1>3, <1>4
  <1>6. r \in Requests /\ future[r] = "pending"
    BY <1>3, <1>5 DEF TypeOK, LineInv, LineOfRequests
  <1>7. ASSUME NEW n \in 1 .. Committed, submitted[n] = r PROVE FALSE
    <2>1. n \in DOMAIN submitted /\ n # PlaceOf(i)
      BY <1>3, <1>4, CommittedInLine
    <2> QED BY <1>3, <1>5, <1>7, <2>1 DEF LineInv, LineOfRequests
  <1> QED BY <1>6, <1>7

(* Every step of the storage is a step of the group commit or leaves it    *)
(* alone.                                                                  *)
LEMMA StepRefines ==
  ASSUME TypeOK, LineInv, [Next]_vars
  PROVE  [Abstract!Next]_(Abstract!vars)
PROOF
  <1> USE ConstantsAssumption
  <1>a. /\ answered \in Nat /\ Len(entriesToSync) \in Nat
        /\ DOMAIN submitted = 1 .. Len(submitted) /\ Len(submitted) \in Nat
        /\ answered + Len(entriesToSync) <= Len(submitted)
    BY DEF TypeOK, LineInv, LineOfGroup, Collected
  <1>1. CASE \/ Open \/ CollectEntry \/ QueueDrained \/ Destroy
             \/ EnqueueExit \/ UNCHANGED vars
    <2>1. /\ UNCHANGED <<future, submitted, answered>>
          /\ UNCHANGED <<journal, entriesToSync>>
               \/ (journal # "complete" /\ journal' # "complete")
      BY <1>1 DEF Open, CollectEntry, QueueDrained, AfterDrain, Destroy,
           EnqueueExit, vars, callers, thread, group, history
    <2>2. Committed' = Committed
      BY <2>1 DEF Committed
    <2> QED BY <2>1, <2>2 DEF Abstract!vars
  <1>2. ASSUME NEW t \in IOThreads, NEW r \in Requests, PutBegin(t, r)
        PROVE  Abstract!Next
    <2>1. Committed' = Committed
      BY <1>2 DEF PutBegin, Committed, thread, group, history
    <2>2. Abstract!Call(r)
      BY <1>2, <2>1 DEF PutBegin, Abstract!Call, history
    <2> QED BY <2>2 DEF Abstract!Next
  <1>3. ASSUME NEW t \in IOThreads, PutEnqueue(t) PROVE Abstract!Next
    <2> DEFINE r == putting[t].promise
    <2>1. r \in Requests /\ putting[t] # Null
      BY <1>3 DEF PutEnqueue, TypeOK, AddEntry
    <2>2. Committed' = Committed
      BY <1>3 DEF PutEnqueue, Committed, thread, group
    <2>3. future[r] = "pending" /\ \A i \in DOMAIN submitted : submitted[i] # r
      BY <2>1 DEF LineInv, LineOfRequests
    <2>4. Abstract!Accept(r)
      BY <1>3, <2>2, <2>3 DEF PutEnqueue, Abstract!Accept
    <2> QED BY <2>1, <2>4 DEF Abstract!Next
  <1>4. CASE JournalExit
    <2> DEFINE k == answered + Len(entriesToSync)
    <2>1. /\ journal = "collect" /\ journal' = "exited"
          /\ answered' = k /\ UNCHANGED submitted
          /\ future' = Break(future, Grouped)
      BY <1>4 DEF JournalExit, DropGroup, Grouped
    <2>2. Committed = answered /\ Committed' = k
      BY <1>a, <2>1 DEF Committed
    <2>3. \A r \in Requests :
            r \in Grouped <=> \E i \in answered + 1 .. k : submitted[i] = r
      <3>1. \A r \in Grouped : \E n \in DOMAIN submitted :
              submitted[n] = r /\ n \in answered + 1 .. k
        BY GroupInLine DEF LineInv
      <3>2. \A i \in answered + 1 .. k : submitted[i] \in Grouped
        BY SMTT(30), GroupInLine DEF LineInv
      <3> QED BY <3>1, <3>2
    <2>4. future' = [r \in Requests |->
                       IF \E i \in Committed + 1 .. k : submitted[i] = r
                         THEN "broken" ELSE future[r]]
      BY <2>1, <2>2, <2>3 DEF Break
    <2>5. k \in Committed .. Len(submitted) /\ k \in 0 .. Len(submitted)
      BY <1>a, <2>2
    <2>6. Abstract!GiveUp(k)
      BY <2>1, <2>2, <2>4, <2>5 DEF Abstract!GiveUp
    <2> QED BY <2>5, <2>6 DEF Abstract!Next
  <1>5. CASE Write
    <2> DEFINE k == answered + Len(entriesToSync)
    <2>1. /\ Committed = answered /\ Committed' = k
          /\ UNCHANGED <<future, submitted, answered>>
      BY <1>5, WalGrows DEF Write, callers, history
    <2>2. Len(entriesToSync) \in 1 .. SyncLimit + 1
      <3>1. entriesToSync # <<>> /\ entriesToSync \in Seq(Requests)
        BY <1>5 DEF Write, TypeOK
      <3>2. Len(entriesToSync) # 0
        BY <3>1
      <3> QED BY <1>a, <3>2 DEF LineInv, LineOfGroup
    <2>3. /\ k \in Committed + 1 .. Committed + SyncLimit + 1
          /\ k <= Len(submitted) /\ k \in 0 .. Len(submitted)
      BY <1>a, <2>1, <2>2
    <2>4. Abstract!Commit(k)
      BY <2>1, <2>3 DEF Abstract!Commit
    <2> QED BY <2>3, <2>4 DEF Abstract!Next
  <1>6. CASE SetValue
    <2>1. /\ UNCHANGED submitted
          /\ answered' = answered + 1 /\ Len(entriesToSync) \in Nat \ {0}
          /\ future' = [future EXCEPT ![Head(entriesToSync)] = "value"]
          /\ Head(entriesToSync) = entriesToSync[1]
          /\ 1 \in DOMAIN entriesToSync
      BY <1>6 DEF SetValue, GroupDone, TypeOK
    <2>2. Committed' = Committed /\ Committed = answered + Len(entriesToSync)
      BY <1>6, AnswerCommitsNothing
    <2>3. Head(entriesToSync) = submitted[answered + 1]
      BY <2>1 DEF LineInv, LineOfGroup
    <2>4. answered < Committed
      BY <1>a, <2>1, <2>2
    <2>5. Abstract!Answer
      BY <2>1, <2>2, <2>3, <2>4 DEF Abstract!Answer
    <2> QED BY <2>5 DEF Abstract!Next
  <1>7. CASE FinishDestroy
    BY <1>7, VanishIsClose, QueuedIsUncommitted DEF FinishDestroy
  <1>8. CASE JournalFault \/ ProcessCrash \/ PowerLossCrash
    BY <1>8, VanishIsClose DEF JournalFault, ProcessCrash, PowerLossCrash
  <1> QED
    BY <1>1, <1>2, <1>3, <1>4, <1>5, <1>6, <1>7, <1>8 DEF Next

(* Storage keeps what GroupCommit promises: answers in the order of the    *)
(* queue, each after the Write of its whole group, one group of at most    *)
(* SyncLimit + 1 adds at a time, and no broken promise for an add that was *)
(* handed to the database.                                                 *)
THEOREM StorageImplementsGroupCommit == Spec => RefinesGroupCommit
PROOF
  <1>1. Init => Abstract!Init
    <2> SUFFICES ASSUME Init PROVE Abstract!Init
      OBVIOUS
    <2>1. Committed = 0
      BY DEF Init, Committed
    <2> QED BY <2>1 DEF Init, Abstract!Init
  <1>2. TypeOK /\ LineInv /\ [Next]_vars => [Abstract!Next]_(Abstract!vars)
    BY StepRefines
  <1> QED
    BY <1>1, <1>2, TypeCorrect, LineInvariant, PTL
    DEF Spec, RefinesGroupCommit, Abstract!Spec
=============================================================================
