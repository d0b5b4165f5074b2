--------------------------- MODULE StorageProofs ---------------------------
(***************************************************************************)
(* What holds of Storage for any number of threads and requests, any       *)
(* queue capacity and any group size, with fsync or without.               *)
(***************************************************************************)
EXTENDS Storage, TLAPS

-----------------------------------------------------------------------------
(* Types *)

(* After a crash or a destruction the volatile state is as at the start.   *)
LEMMA VanishTypes ==
  ASSUME TypeOK, NEW broken, Vanish(broken), wal' \in Seq(Seq(Record)),
         durable' \in 0 .. Len(wal')
  PROVE  phase' = "down" => TypeOK'
PROOF
  <1> USE ConstantsAssumption
  <1>1. future' \in [Requests -> Outcomes]
    BY DEF TypeOK, Vanish, Lose, Break, Outcomes
  <1>2. /\ frame' \in [IOThreads -> Keys \cup {Garbage}]
        /\ putting' \in [IOThreads -> AddEntry \cup {Null}]
    BY DEF TypeOK, Vanish
  <1>3. /\ journalQueue' \in Seq(AddEntry \cup {ExitEntry})
        /\ Len(journalQueue') <= QueueCapacity
        /\ entriesToSync' \in Seq(Requests)
        /\ writeBatch' \in Seq(Record)
        /\ answered' \in Nat
    BY DEF TypeOK, Vanish
  <1> QED BY <1>1, <1>2, <1>3 DEF TypeOK, Vanish

(* Every variable keeps its type and the journal queue never holds more    *)
(* than it was built for.                                                  *)
THEOREM TypeCorrect == Spec => []TypeOK
PROOF
  <1> USE ConstantsAssumption
  <1>1. Init => TypeOK
    <2> SUFFICES ASSUME Init PROVE TypeOK
      OBVIOUS
    <2>1. /\ frame \in [IOThreads -> Keys \cup {Garbage}]
          /\ putting \in [IOThreads -> AddEntry \cup {Null}]
          /\ future \in [Requests -> Outcomes]
      BY DEF Init, Outcomes
    <2>2. /\ journalQueue \in Seq(AddEntry \cup {ExitEntry})
          /\ Len(journalQueue) <= QueueCapacity
          /\ entriesToSync \in Seq(Requests)
          /\ writeBatch \in Seq(Record)
          /\ submitted \in Seq(Requests)
      BY DEF Init
    <2>3. wal \in Seq(Seq(Record)) /\ durable \in 0 .. Len(wal)
      BY DEF Init
    <2> QED BY <2>1, <2>2, <2>3 DEF Init, TypeOK
  <1>2. TypeOK /\ [Next]_vars => TypeOK'
    <2> SUFFICES ASSUME TypeOK, [Next]_vars PROVE TypeOK'
      OBVIOUS
    <2>1. CASE Open
      BY <2>1 DEF Open, TypeOK, group, disk, history
    <2>2. ASSUME NEW t \in IOThreads, NEW r \in Requests, PutBegin(t, r)
          PROVE  TypeOK'
      <3>1. putting' \in [IOThreads -> AddEntry \cup {Null}]
        BY <2>2 DEF PutBegin, TypeOK, AddEntry
      <3>2. /\ frame' \in [IOThreads -> Keys \cup {Garbage}]
            /\ future' \in [Requests -> Outcomes]
        BY <2>2 DEF PutBegin, TypeOK, Outcomes
      <3> QED BY <2>2, <3>1, <3>2
              DEF PutBegin, TypeOK, thread, group, disk, history
    <2>3. ASSUME NEW t \in IOThreads, PutEnqueue(t) PROVE TypeOK'
      <3>1. putting[t] \in AddEntry /\ putting[t].promise \in Requests
        BY <2>3 DEF PutEnqueue, TypeOK, AddEntry
      <3>2. /\ journalQueue' \in Seq(AddEntry \cup {ExitEntry})
            /\ Len(journalQueue') <= QueueCapacity
        BY <2>3, <3>1 DEF PutEnqueue, TypeOK, HasRoom
      <3>3. /\ submitted' \in Seq(Requests)
            /\ putting' \in [IOThreads -> AddEntry \cup {Null}]
        BY <2>3, <3>1 DEF PutEnqueue, TypeOK
      <3> QED BY <2>3, <3>2, <3>3
              DEF PutEnqueue, TypeOK, thread, group, disk
    <2>4. CASE CollectEntry
      <3>1. Head(journalQueue) \in AddEntry
        BY <2>4 DEF CollectEntry, TypeOK
      <3>2. /\ journalQueue' \in Seq(AddEntry \cup {ExitEntry})
            /\ Len(journalQueue') <= QueueCapacity
        BY <2>4 DEF CollectEntry, TypeOK
      <3>3. entriesToSync' \in Seq(Requests) /\ entriesToSync' # <<>>
        BY SMTT(30), <2>4, <3>1 DEF CollectEntry, TypeOK, AddEntry
      <3>4. writeBatch' \in Seq(Record)
        <4>1. PICK k \in KeyBytes(Head(journalQueue)) :
                writeBatch' = Append(writeBatch,
                  [key |-> k,
                   data |-> LoggedSegments(Head(journalQueue)),
                   request |-> Head(journalQueue).promise])
          BY <2>4 DEF CollectEntry
        <4>2. k \in Keys \cup {Garbage}
          BY <3>1 DEF KeyBytes, TypeOK, AddEntry
        <4>3. [key |-> k, data |-> LoggedSegments(Head(journalQueue)),
               request |-> Head(journalQueue).promise] \in Record
          BY <3>1, <4>2 DEF Record, LoggedSegments, AddEntry
        <4> QED BY <4>1, <4>3 DEF TypeOK
      <3>5. /\ journal' \in {"collect", "write", "complete", "exited"}
            /\ blockForNextEntry' \in BOOLEAN
        BY <2>4 DEF CollectEntry
      <3> QED BY <2>4, <3>2, <3>3, <3>4, <3>5
              DEF CollectEntry, TypeOK, callers, disk, history
    <2>5. CASE JournalExit
      <3>1. /\ journalQueue' \in Seq(AddEntry \cup {ExitEntry})
            /\ Len(journalQueue') <= QueueCapacity
        BY <2>5 DEF JournalExit, TypeOK
      <3>2. future' \in [Requests -> Outcomes]
        BY <2>5 DEF JournalExit, DropGroup, Break, TypeOK, Outcomes
      <3>3. /\ answered' \in Nat
            /\ entriesToSync' \in Seq(Requests)
            /\ writeBatch' \in Seq(Record)
        BY <2>5 DEF JournalExit, DropGroup, TypeOK
      <3> QED BY <2>5, <3>1, <3>2, <3>3
              DEF JournalExit, DropGroup, TypeOK, disk
    <2>6. CASE QueueDrained
      BY <2>6 DEF QueueDrained, AfterDrain, TypeOK, callers, group, disk,
                  history
    <2>7. CASE Write
      <3>1. wal' \in Seq(Seq(Record)) /\ Len(wal') >= Len(wal)
        <4>1. /\ Append(wal, writeBatch) \in Seq(Seq(Record))
              /\ Len(Append(wal, writeBatch)) = Len(wal) + 1
          BY DEF TypeOK
        <4>2. wal' = wal \/ wal' = Append(wal, writeBatch)
          BY <2>7 DEF Write, WriteSucceeds, WriteFails
        <4>3. wal \in Seq(Seq(Record)) /\ Len(wal) \in Nat
          BY DEF TypeOK
        <4>4. CASE wal' = wal
          BY <4>3, <4>4
        <4>5. CASE wal' = Append(wal, writeBatch)
          BY <4>1, <4>3, <4>5
        <4> QED BY <4>2, <4>4, <4>5
      <3>2. durable' \in 0 .. Len(wal')
        <4>1. durable' \in {durable, Len(wal')}
          BY <2>7 DEF Write, WriteSucceeds, WriteFails
        <4>2. Len(wal) \in Nat /\ Len(wal') \in Nat /\ durable \in 0 .. Len(wal)
          BY <3>1 DEF TypeOK
        <4> QED BY <4>1, <4>2, <3>1
      <3>3. writeErrors' \subseteq Requests
        BY <2>7 DEF Write, WriteSucceeds, WriteFails, TypeOK, Promised
      <3> QED BY <2>7, <3>1, <3>2, <3>3
              DEF Write, TypeOK, callers, group, history
    <2>8. CASE SetValue
      <3>1. future' \in [Requests -> Outcomes]
        BY <2>8 DEF SetValue, TypeOK, Outcomes
      <3>2. /\ answered' \in Nat
            /\ entriesToSync' \in Seq(Requests)
            /\ writeBatch' \in Seq(Record)
            /\ journal' \in {"collect", "write", "complete", "exited"}
            /\ journal' \in {"write", "complete"} => entriesToSync' # <<>>
        <4>1. Tail(entriesToSync) \in Seq(Requests)
          BY <2>8 DEF SetValue, TypeOK
        <4>2. <<>> \in Seq(Record)
          OBVIOUS
        <4>3. Len(entriesToSync) # 1 => Tail(entriesToSync) # <<>>
          <5>1. Len(entriesToSync) \in Nat /\ Len(entriesToSync) # 0
            BY <2>8 DEF SetValue, TypeOK
          <5>2. Len(Tail(entriesToSync)) = Len(entriesToSync) - 1
            BY <5>1 DEF TypeOK
          <5> QED BY <5>1, <5>2
        <4>4. CASE Len(entriesToSync) = 1
          BY <2>8, <4>1, <4>2, <4>4 DEF SetValue, GroupDone, TypeOK
        <4>5. CASE Len(entriesToSync) # 1
          BY <2>8, <4>1, <4>3, <4>5 DEF SetValue, TypeOK
        <4> QED BY <4>4, <4>5
      <3> QED BY <2>8, <3>1, <3>2 DEF SetValue, TypeOK, disk
    <2>9. CASE Destroy
      BY <2>9 DEF Destroy, TypeOK, thread, group, disk, history
    <2>10. CASE EnqueueExit
      <3>1. /\ journalQueue' \in Seq(AddEntry \cup {ExitEntry})
            /\ Len(journalQueue') <= QueueCapacity
        BY <2>10 DEF EnqueueExit, HasRoom, TypeOK
      <3> QED BY <2>10, <3>1 DEF EnqueueExit, TypeOK, thread, group, disk,
                                 history
    <2>11. CASE FinishDestroy \/ JournalFault \/ ProcessCrash
      <3>1. PICK broken : Vanish(broken) /\ UNCHANGED <<wal, durable>>
        BY <2>11 DEF FinishDestroy, JournalFault, ProcessCrash
      <3> QED BY <3>1, VanishTypes DEF TypeOK, Vanish
    <2>12. CASE PowerLossCrash
      <3>1. PICK n \in durable .. Len(wal) :
              wal' = SubSeq(wal, 1, n) /\ durable' = n
        BY <2>12 DEF PowerLossCrash
      <3>2. wal' \in Seq(Seq(Record)) /\ durable' \in 0 .. Len(wal')
        <4>1. wal \in Seq(Seq(Record)) /\ n \in 0 .. Len(wal)
          BY <3>1 DEF TypeOK
        <4>2. SubSeq(wal, 1, n) \in Seq(Seq(Record))
              /\ Len(SubSeq(wal, 1, n)) = n
          BY <4>1
        <4> QED BY <3>1, <4>1, <4>2
      <3>3. Vanish({}) /\ phase' = "down"
        BY <2>12 DEF PowerLossCrash, Vanish
      <3> QED BY <3>2, <3>3, VanishTypes
    <2>13. CASE UNCHANGED vars
      BY <2>13 DEF TypeOK, vars, callers, thread, group, disk, history
    <2> QED
      BY <2>1, <2>2, <2>3, <2>4, <2>5, <2>6, <2>7, <2>8, <2>9, <2>10, <2>11,
         <2>12, <2>13 DEF Next
  <1> QED BY <1>1, <1>2, PTL DEF Spec

-----------------------------------------------------------------------------
(* What collecting an entry and fulfilling a promise do to the group.      *)

(* Collecting an entry adds its promise to those of the group. *)
LEMMA AppendPromised ==
  ASSUME NEW S, NEW s \in Seq(S), NEW x \in S
  PROVE  Promised(Append(s, x)) = Promised(s) \cup {x}
PROOF
  <1> DEFINE u == Append(s, x)
  <1>1. /\ DOMAIN u = 1 .. Len(s) + 1 /\ DOMAIN s = 1 .. Len(s)
        /\ Len(s) \in Nat /\ u[Len(s) + 1] = x
        /\ \A i \in 1 .. Len(s) : u[i] = s[i]
    OBVIOUS
  <1> HIDE DEF u
  <1>2. Len(s) + 1 \in DOMAIN u /\ DOMAIN s \subseteq DOMAIN u
    BY <1>1
  <1>3. \A i \in DOMAIN u : i \in DOMAIN s \/ i = Len(s) + 1
    BY <1>1
  <1>4. Promised(u) = Promised(s) \cup {x}
    BY <1>1, <1>2, <1>3 DEF Promised
  <1> QED BY <1>4 DEF u

(* Fulfilling the first promise of the group adds none to it. *)
LEMMA TailPromised ==
  ASSUME NEW S, NEW s \in Seq(S), s # <<>>
  PROVE  /\ Head(s) \in Promised(s)
         /\ Promised(Tail(s)) \subseteq Promised(s)
         /\ Len(s) = 1 => Promised(Tail(s)) = {}
PROOF
  <1>1. /\ Len(s) \in Nat \ {0} /\ DOMAIN s = 1 .. Len(s)
        /\ Tail(s) \in Seq(S) /\ Len(Tail(s)) = Len(s) - 1
        /\ Head(s) = s[1]
        /\ \A i \in 1 .. Len(s) - 1 : Tail(s)[i] = s[i + 1]
    OBVIOUS
  <1>2. DOMAIN Tail(s) = 1 .. Len(s) - 1
    BY <1>1
  <1>3. 1 \in DOMAIN s /\ \A i \in DOMAIN Tail(s) : i + 1 \in DOMAIN s
    BY <1>1, <1>2
  <1>4. Len(s) = 1 => DOMAIN Tail(s) = {}
    BY <1>1, <1>2
  <1> QED BY <1>1, <1>2, <1>3, <1>4 DEF Promised

Grouped == Promised(entriesToSync)

(* What the journal takes from the queue goes to its group. *)
LEMMA CollectGroups ==
  ASSUME TypeOK, CollectEntry
  PROVE  LET q == Head(journalQueue).promise
         IN  /\ q \in Requests
             /\ Head(journalQueue) # ExitEntry
             /\ Grouped' = Grouped \cup {q}
             /\ LoggedIn(writeBatch') = LoggedIn(writeBatch) \cup {q}
PROOF
  <1> DEFINE q == Head(journalQueue).promise
  <1>1. PICK k, d :
          /\ entriesToSync' = Append(entriesToSync, q)
          /\ writeBatch' = Append(writeBatch,
                             [key |-> k, data |-> d, request |-> q])
    BY DEF CollectEntry
  <1>2. entriesToSync \in Seq(Requests) /\ writeBatch \in Seq(Record)
    BY DEF TypeOK
  <1>3. Head(journalQueue) \in AddEntry /\ Head(journalQueue) # ExitEntry
    BY DEF CollectEntry, TypeOK
  <1>4. q \in Requests
    BY <1>3 DEF AddEntry
  <1> HIDE DEF q
  <1>5. Grouped' = Grouped \cup {q}
    BY <1>1, <1>2, <1>4, AppendPromised DEF Grouped
  <1>6. /\ Len(writeBatch) \in Nat
        /\ DOMAIN writeBatch = 1 .. Len(writeBatch)
        /\ DOMAIN writeBatch' = 1 .. Len(writeBatch) + 1
        /\ \A i \in 1 .. Len(writeBatch) : writeBatch'[i] = writeBatch[i]
        /\ writeBatch'[Len(writeBatch) + 1].request = q
    BY <1>1, <1>2
  <1>7. /\ \A i \in DOMAIN writeBatch' :
             i \in DOMAIN writeBatch \/ i = Len(writeBatch) + 1
        /\ DOMAIN writeBatch \subseteq DOMAIN writeBatch'
        /\ Len(writeBatch) + 1 \in DOMAIN writeBatch'
    BY <1>6
  <1>8. LoggedIn(writeBatch') = LoggedIn(writeBatch) \cup {q}
    BY <1>6, <1>7 DEF LoggedIn
  <1> QED BY <1>3, <1>4, <1>5, <1>8 DEF q

-----------------------------------------------------------------------------
(* Acknowledged adds survive *)

(* AckedSurvives is not inductive: SetValue needs that the promises it has *)
(* left to fulfil are in the log already, and Write that each promise of   *)
(* the group has its record in the batch.                                  *)
AckInv ==
  (FsyncWal \/ ~PowerLoss) =>
    /\ journal \in {"collect", "write"} => Grouped \subseteq LoggedIn(writeBatch)
    /\ journal = "complete" =>
         \A r \in Grouped : r \in writeErrors \/ Safe(r)
    /\ \A r \in Requests :
         future[r] = "value" /\ r \notin writeErrors => Safe(r)

(* A step that leaves the safe part of the log in place loses no record.   *)
LEMMA SafeKept ==
  ASSUME TypeOK,
         SafeUpTo' \in Nat, SafeUpTo' >= SafeUpTo,
         \A b \in 1 .. SafeUpTo : wal'[b] = wal[b],
         NEW r, Safe(r)
  PROVE  Safe(r)'
PROOF
  <1>1. SafeUpTo \in Nat
    BY ConstantsAssumption DEF TypeOK, SafeUpTo
  <1>2. PICK b \in 1 .. SafeUpTo : r \in LoggedIn(wal[b])
    BY DEF Safe, LoggedBy
  <1>3. b \in 1 .. SafeUpTo' /\ r \in LoggedIn(wal'[b])
    BY <1>1, <1>2
  <1> QED BY <1>3 DEF Safe, LoggedBy

(* What Write adds to the log.                                             *)
LEMMA WriteExtends ==
  ASSUME TypeOK, Write
  PROVE  /\ SafeUpTo \in Nat /\ SafeUpTo' \in Nat /\ SafeUpTo' >= SafeUpTo
         /\ \A b \in 1 .. Len(wal) : wal'[b] = wal[b]
         /\ wal' \in {wal, Append(wal, writeBatch)}
         /\ SafeUpTo <= Len(wal)
PROOF
  <1>1. wal \in Seq(Seq(Record)) /\ writeBatch \in Seq(Record)
    BY DEF TypeOK
  <1>2. Len(wal) \in Nat /\ durable \in Nat /\ durable <= Len(wal)
    BY <1>1 DEF TypeOK
  <1>3. wal' = wal \/ wal' = Append(wal, writeBatch)
    BY DEF Write, WriteSucceeds, WriteFails
  <1>4. /\ Len(wal') \in Nat /\ Len(wal') >= Len(wal)
        /\ \A b \in 1 .. Len(wal) : wal'[b] = wal[b]
    <2>1. CASE wal' = wal
      BY <2>1, <1>2
    <2>2. CASE wal' = Append(wal, writeBatch)
      BY <2>2, <1>1, <1>2
    <2> QED BY <1>3, <2>1, <2>2
  <1>5. durable' \in {durable, Len(wal')}
    BY DEF Write, WriteSucceeds, WriteFails
  <1> QED BY <1>2, <1>3, <1>4, <1>5, ConstantsAssumption DEF SafeUpTo

(* With fsync, or as long as the machine keeps its power, an add that was  *)
(* acknowledged and whose Write reported no error is in the database from  *)
(* then on, whatever crashes and restarts follow.                          *)
THEOREM AckedAddsSurvive == Spec => []AckedSurvives
PROOF
  <1> USE ConstantsAssumption
  <1>1. Init => AckInv
    BY DEF Init, AckInv, Grouped, Promised
  <1>2. TypeOK /\ AckInv /\ [Next]_vars => AckInv'
    <2> SUFFICES ASSUME TypeOK, AckInv, [Next]_vars, FsyncWal \/ ~PowerLoss
                 PROVE  AckInv'
      BY DEF AckInv
    <2>a. ASSUME UNCHANGED disk
          PROVE  \A r : Safe(r) => Safe(r)'
      BY <2>a DEF disk, Safe, SafeUpTo, LoggedBy
    <2>1. ASSUME UNCHANGED <<journal, future>>, UNCHANGED group,
                 UNCHANGED disk
          PROVE  AckInv'
      BY <2>1, <2>a DEF AckInv, Grouped, Promised, group, disk
    <2>2. CASE Open \/ Destroy \/ EnqueueExit \/ UNCHANGED vars
      BY <2>1, <2>2 DEF Open, Destroy, EnqueueExit, vars, callers, thread
    <2>3. ASSUME NEW t \in IOThreads, PutEnqueue(t) PROVE AckInv'
      BY <2>1, <2>3 DEF PutEnqueue, thread
    <2>4. ASSUME NEW t \in IOThreads, NEW r \in Requests, PutBegin(t, r)
          PROVE  AckInv'
      <3>1. \A q \in Requests : future'[q] = "value" => future[q] = "value"
        BY <2>4 DEF PutBegin, TypeOK
      <3>2. UNCHANGED journal /\ UNCHANGED group /\ UNCHANGED disk
        BY <2>4 DEF PutBegin, thread
      <3> QED BY <2>a, <3>1, <3>2 DEF AckInv, Grouped, Promised, group, disk
    <2>5. CASE CollectEntry
      <3>1. /\ journal = "collect" /\ journal' \in {"collect", "write"}
            /\ UNCHANGED disk /\ UNCHANGED future
        BY <2>5 DEF CollectEntry, callers
      <3>2. Grouped' \subseteq LoggedIn(writeBatch')
        BY <2>5, <3>1, CollectGroups DEF AckInv
      <3> QED BY <2>a, <3>1, <3>2 DEF AckInv, disk
    <2>6. CASE JournalExit
      <3>1. \A r \in Requests : future'[r] = "value" => future[r] = "value"
        BY <2>6 DEF JournalExit, DropGroup, Break, TypeOK
      <3>2. journal' = "exited" /\ UNCHANGED disk
        BY <2>6 DEF JournalExit, DropGroup
      <3> QED BY <2>a, <3>1, <3>2 DEF AckInv, disk
    <2>7. CASE QueueDrained
      <3>1. /\ journal = "collect" /\ journal' \in {"collect", "write"}
            /\ UNCHANGED group /\ UNCHANGED disk /\ UNCHANGED future
        BY <2>7 DEF QueueDrained, AfterDrain, callers
      <3> QED BY <2>a, <3>1 DEF AckInv, Grouped, Promised, group, disk
    <2>8. CASE Write
      <3>1. /\ journal = "write" /\ journal' = "complete"
            /\ UNCHANGED group /\ UNCHANGED future
        BY <2>8 DEF Write, callers
      <3>2. \A r : Safe(r) => Safe(r)'
        BY <2>8, WriteExtends, SafeKept
      <3>3. writeErrors \subseteq writeErrors'
        BY <2>8 DEF Write, WriteSucceeds, WriteFails
      <3>4. \A r \in Grouped : r \in writeErrors' \/ Safe(r)'
        <4>1. CASE WriteSucceeds
          <5>1. wal \in Seq(Seq(Record)) /\ writeBatch \in Seq(Record)
            BY DEF TypeOK
          <5>2. wal' = Append(wal, writeBatch)
            BY <4>1 DEF WriteSucceeds
          <5>3. /\ SafeUpTo' = Len(wal) + 1
                /\ wal'[Len(wal) + 1] = writeBatch /\ Len(wal) \in Nat
            BY <4>1, <5>1, <5>2 DEF WriteSucceeds, SafeUpTo
          <5>4. \A r \in Grouped : r \in LoggedIn(writeBatch)
            BY <3>1 DEF AckInv
          <5>5. ASSUME NEW r \in Grouped PROVE Safe(r)'
            <6>1. Len(wal) + 1 \in 1 .. SafeUpTo'
              BY <5>3
            <6>2. r \in LoggedIn(wal'[Len(wal) + 1])
              BY <5>3, <5>4
            <6> QED BY <6>1, <6>2 DEF Safe, LoggedBy
          <5> QED BY <5>5
        <4>2. CASE WriteFails
          BY <4>2 DEF WriteFails, Grouped
        <4> QED BY <2>8, <4>1, <4>2 DEF Write
      <3>5. Grouped' = Grouped
        BY <3>1 DEF Grouped, Promised, group
      <3> QED BY <3>1, <3>2, <3>3, <3>4, <3>5 DEF AckInv
    <2>9. CASE SetValue
      <3>1. /\ journal = "complete" /\ journal' \in {"complete", "collect"}
            /\ UNCHANGED disk
            /\ future' = [future EXCEPT ![Head(entriesToSync)] = "value"]
            /\ entriesToSync' = Tail(entriesToSync)
        BY <2>9 DEF SetValue, GroupDone
      <3>2. entriesToSync \in Seq(Requests) /\ entriesToSync # <<>>
        BY <3>1 DEF TypeOK
      <3>3. Head(entriesToSync) \in Grouped
        BY <3>2, TailPromised DEF Grouped
      <3>4. Grouped' \subseteq Grouped
        BY <3>1, <3>2, TailPromised DEF Grouped
      <3>5. \A r \in Grouped : r \in writeErrors' \/ Safe(r)'
        BY <2>a, <3>1 DEF AckInv, disk
      <3>6. journal' = "collect" => Grouped' = {}
        <4>1. journal' = "collect" => Len(entriesToSync) = 1
          BY <2>9, <3>1 DEF SetValue
        <4> QED BY <3>1, <3>2, <4>1, TailPromised DEF Grouped
      <3>7. \A r \in Requests : future'[r] = "value" =>
              future[r] = "value" \/ r = Head(entriesToSync)
        BY <3>1 DEF TypeOK
      <3> QED BY <2>a, <3>1, <3>3, <3>4, <3>5, <3>6, <3>7 DEF AckInv, disk
    <2>10. ASSUME NEW broken, Vanish(broken), \A r : Safe(r) => Safe(r)'
           PROVE  AckInv'
      <3>1. \A r \in Requests : future'[r] = "value" => future[r] = "value"
        BY <2>10 DEF Vanish, Lose, Break
      <3>2. journal' = "collect" /\ Grouped' = {} /\ UNCHANGED writeErrors
        BY <2>10 DEF Vanish, Grouped, Promised
      <3> QED BY <2>10, <3>1, <3>2 DEF AckInv
    <2>11. CASE FinishDestroy \/ JournalFault \/ ProcessCrash
      <3>1. PICK broken : Vanish(broken) /\ UNCHANGED <<wal, durable>>
        BY <2>11 DEF FinishDestroy, JournalFault, ProcessCrash
      <3>2. \A r : Safe(r) => Safe(r)'
        BY <3>1 DEF Safe, SafeUpTo, LoggedBy
      <3> QED BY <2>10, <3>1, <3>2
    <2>12. CASE PowerLossCrash
      <3>1. FsyncWal
        BY <2>12 DEF PowerLossCrash
      <3>2. PICK n \in durable .. Len(wal) :
              wal' = SubSeq(wal, 1, n) /\ durable' = n
        BY <2>12 DEF PowerLossCrash
      <3>3. wal \in Seq(Seq(Record)) /\ durable \in Nat /\ n \in Nat
        BY <3>2 DEF TypeOK
      <3>4. /\ SafeUpTo = durable /\ SafeUpTo' = n
            /\ \A b \in 1 .. SafeUpTo : wal'[b] = wal[b]
        BY <3>1, <3>2, <3>3 DEF SafeUpTo
      <3>5. \A r : Safe(r) => Safe(r)'
        BY <3>2, <3>3, <3>4, SafeKept
      <3>6. Vanish({})
        BY <2>12 DEF PowerLossCrash
      <3> QED BY <2>10, <3>5, <3>6
    <2> QED
      BY <2>2, <2>3, <2>4, <2>5, <2>6, <2>7, <2>8, <2>9, <2>11, <2>12
      DEF Next
  <1>3. AckInv => AckedSurvives
    BY DEF AckInv, AckedSurvives
  <1> QED BY <1>1, <1>2, <1>3, TypeCorrect, PTL DEF Spec

-----------------------------------------------------------------------------
(* Broken promises *)

Waiting == {putting[t].promise : t \in {u \in IOThreads : putting[u] # Null}}

Logged == {r \in Requests : LoggedBy(r, Len(wal))}

(* A request is in one place on its way to the log, at one position of it. *)
OnePlace ==
  /\ Waiting \cap Queued = {}
  /\ Waiting \cap Grouped = {}
  /\ Queued \cap Grouped = {}
  /\ \A t, u \in IOThreads :
       /\ putting[t] # Null
       /\ putting[u] # Null
       /\ putting[t].promise = putting[u].promise
       => t = u
  /\ \A i, j \in DOMAIN journalQueue :
       /\ journalQueue[i] # ExitEntry
       /\ journalQueue[i].promise = journalQueue[j].promise
       => i = j

(* Nothing on its way has been logged or given up.                         *)
PlaceInv ==
  /\ OnePlace
  /\ Logged \cap (Waiting \cup Queued) = {}
  /\ journal \in {"collect", "write"} =>
       Logged \cap Grouped = {} /\ LoggedIn(writeBatch) \subseteq Grouped
  /\ \A r \in Waiting \cup Queued \cup Grouped \cup Logged :
       future[r] \notin {"unused", "broken"}

(* A request that joins those waiting, the queue or the group, and leaves  *)
(* the place before.                                                       *)
LEMMA PutEnqueueMoves ==
  ASSUME TypeOK, OnePlace, NEW t \in IOThreads, PutEnqueue(t)
  PROVE  /\ putting[t].promise \in Waiting
         /\ Waiting' \subseteq Waiting \ {putting[t].promise}
         /\ Queued' = Queued \cup {putting[t].promise}
         /\ OnePlace'
PROOF
  <1> USE ConstantsAssumption
  <1> DEFINE e == putting[t]
  <1>1. e \in AddEntry /\ e.promise \in Requests /\ e # ExitEntry
        /\ e.promise # Null
    BY DEF PutEnqueue, TypeOK, AddEntry, ExitEntry
  <1>2. e.promise \in Waiting
    BY DEF Waiting, PutEnqueue
  <1>3. putting' = [putting EXCEPT ![t] = Null]
    BY DEF PutEnqueue
  <1>4. ASSUME NEW u \in IOThreads, putting'[u] # Null
        PROVE  u # t /\ putting'[u] = putting[u]
    BY <1>3, <1>4 DEF TypeOK
  <1>5. Waiting' \subseteq Waiting \ {e.promise}
    BY <1>4 DEF Waiting, OnePlace, PutEnqueue
  <1>6. journalQueue' = Append(journalQueue, e)
    BY DEF PutEnqueue
  <1>7. journalQueue \in Seq(AddEntry \cup {ExitEntry})
    BY DEF TypeOK
  <1> HIDE DEF e
  <1>8. /\ Len(journalQueue) \in Nat
        /\ DOMAIN journalQueue = 1 .. Len(journalQueue)
        /\ DOMAIN journalQueue' = 1 .. Len(journalQueue) + 1
        /\ journalQueue'[Len(journalQueue) + 1] = e
        /\ \A i \in 1 .. Len(journalQueue) : journalQueue'[i] = journalQueue[i]
    BY <1>1, <1>6, <1>7
  <1>9. /\ Len(journalQueue) + 1 \in DOMAIN journalQueue'
        /\ \A i \in DOMAIN journalQueue' :
             i \in DOMAIN journalQueue \/ i = Len(journalQueue) + 1
        /\ DOMAIN journalQueue \subseteq DOMAIN journalQueue'
    BY <1>8
  <1>10. Queued' = Queued \cup {e.promise}
    BY <1>1, <1>8, <1>9 DEF Queued
  <1>11. Grouped' = Grouped
    BY DEF PutEnqueue, Grouped, Promised, group
  <1>12. ASSUME NEW i \in DOMAIN journalQueue', NEW j \in DOMAIN journalQueue',
                journalQueue'[i] # ExitEntry,
                journalQueue'[i].promise = journalQueue'[j].promise
         PROVE  i = j
    <2>1. ASSUME NEW k \in DOMAIN journalQueue
          PROVE  journalQueue[k].promise # e.promise
      BY <1>1, <1>2 DEF OnePlace, Queued
    <2> QED BY <1>8, <1>9, <1>12, <2>1 DEF OnePlace
  <1>13. \A u, v \in IOThreads :
           /\ putting'[u] # Null
           /\ putting'[v] # Null
           /\ putting'[u].promise = putting'[v].promise
           => u = v
    BY <1>4 DEF OnePlace
  <1> QED BY <1>2, <1>5, <1>10, <1>11, <1>12, <1>13 DEF OnePlace, e

(* The entry taken from the queue has no second place in it. *)
LEMMA HeadLeaves ==
  ASSUME TypeOK, OnePlace, journalQueue # <<>>,
         journalQueue' = Tail(journalQueue)
  PROVE  /\ Queued' \subseteq Queued
         /\ Head(journalQueue) # ExitEntry =>
              /\ Head(journalQueue).promise \in Queued
              /\ Queued' \subseteq Queued \ {Head(journalQueue).promise}
         /\ \A i, j \in DOMAIN journalQueue' :
              /\ journalQueue'[i] # ExitEntry
              /\ journalQueue'[i].promise = journalQueue'[j].promise
              => i = j
PROOF
  <1> USE ConstantsAssumption
  <1>1. journalQueue \in Seq(AddEntry \cup {ExitEntry})
    BY DEF TypeOK
  <1>2. /\ Len(journalQueue) \in Nat \ {0}
        /\ DOMAIN journalQueue = 1 .. Len(journalQueue)
        /\ DOMAIN journalQueue' = 1 .. Len(journalQueue) - 1
        /\ Head(journalQueue) = journalQueue[1]
        /\ \A i \in 1 .. Len(journalQueue) - 1 :
             journalQueue'[i] = journalQueue[i + 1]
    BY <1>1
  <1>3. /\ 1 \in DOMAIN journalQueue
        /\ \A i \in DOMAIN journalQueue' :
             i + 1 \in DOMAIN journalQueue /\ i + 1 # 1 /\ i \in Nat
    BY <1>2
  <1>4. Queued' \subseteq Queued
    BY <1>2, <1>3 DEF Queued
  <1>5. ASSUME Head(journalQueue) # ExitEntry
        PROVE  /\ Head(journalQueue).promise \in Queued
               /\ Queued' \subseteq Queued \ {Head(journalQueue).promise}
    <2>1. Head(journalQueue) \in AddEntry
      BY <1>1, <1>2, <1>3, <1>5
    <2>2. Head(journalQueue).promise # Null
      BY <2>1 DEF AddEntry
    <2>3. \A i \in DOMAIN journalQueue' :
            journalQueue'[i].promise # Head(journalQueue).promise
      BY <1>2, <1>3, <1>5 DEF OnePlace
    <2> QED BY <1>2, <1>3, <1>4, <2>2, <2>3 DEF Queued
  <1>6. ASSUME NEW i \in DOMAIN journalQueue', NEW j \in DOMAIN journalQueue',
               journalQueue'[i] # ExitEntry,
               journalQueue'[i].promise = journalQueue'[j].promise
        PROVE  i = j
    <2>1. i + 1 = j + 1
      BY <1>2, <1>3, <1>6 DEF OnePlace
    <2> QED BY <1>3, <2>1
  <1> QED BY <1>4, <1>5, <1>6

(* The request to exit is queued without displacing an add. *)
LEMMA ExitEntryMoves ==
  ASSUME TypeOK, OnePlace, EnqueueExit
  PROVE  Queued' = Queued /\ OnePlace'
PROOF
  <1> USE ConstantsAssumption
  <1>1. journalQueue \in Seq(AddEntry \cup {ExitEntry})
        /\ journalQueue' = Append(journalQueue, ExitEntry)
    BY DEF TypeOK, EnqueueExit
  <1>2. /\ Len(journalQueue) \in Nat
        /\ DOMAIN journalQueue = 1 .. Len(journalQueue)
        /\ DOMAIN journalQueue' = 1 .. Len(journalQueue) + 1
        /\ journalQueue'[Len(journalQueue) + 1] = ExitEntry
        /\ \A i \in 1 .. Len(journalQueue) :
             /\ journalQueue'[i] = journalQueue[i]
             /\ journalQueue[i] \in AddEntry \cup {ExitEntry}
    BY <1>1
  <1>3. /\ \A i \in DOMAIN journalQueue' :
             i \in DOMAIN journalQueue \/ i = Len(journalQueue) + 1
        /\ DOMAIN journalQueue \subseteq DOMAIN journalQueue'
    BY <1>2
  <1>4. ExitEntry.promise = Null
    BY DEF ExitEntry
  <1>5. \A i \in DOMAIN journalQueue :
          journalQueue[i] # ExitEntry => journalQueue[i].promise # Null
    BY <1>2 DEF AddEntry
  <1>6. Queued' = Queued
    BY <1>2, <1>3, <1>4 DEF Queued
  <1>7. ASSUME NEW i \in DOMAIN journalQueue', NEW j \in DOMAIN journalQueue',
               journalQueue'[i] # ExitEntry,
               journalQueue'[i].promise = journalQueue'[j].promise
        PROVE  i = j
    BY <1>2, <1>3, <1>4, <1>5, <1>7 DEF OnePlace
  <1>8. Waiting' = Waiting /\ Grouped' = Grouped /\ UNCHANGED putting
    BY DEF EnqueueExit, Waiting, Grouped, Promised, group
  <1> QED BY <1>6, <1>7, <1>8 DEF OnePlace

(* A write logs what is in the batch and nothing else. *)
LEMMA WriteLogs ==
  ASSUME TypeOK, Write
  PROVE  Logged' \subseteq Logged \cup LoggedIn(writeBatch)
PROOF
  <1>1. wal \in Seq(Seq(Record)) /\ writeBatch \in Seq(Record)
        /\ Len(wal) \in Nat
    BY DEF TypeOK
  <1>2. CASE wal' = wal
    BY <1>2 DEF Logged, LoggedBy
  <1>3. CASE wal' = Append(wal, writeBatch)
    <2>1. /\ Len(wal') = Len(wal) + 1 /\ wal'[Len(wal) + 1] = writeBatch
          /\ \A b \in 1 .. Len(wal) : wal'[b] = wal[b]
      BY <1>1, <1>3
    <2>2. \A b \in 1 .. Len(wal') : b \in 1 .. Len(wal) \/ b = Len(wal) + 1
      BY <1>1, <2>1
    <2> QED BY <2>1, <2>2 DEF Logged, LoggedBy
  <1> QED BY <1>2, <1>3, WriteExtends

(* A request stays in one place at a time until it is in the log.          *)
LEMMA PlaceInvariant == Spec => []PlaceInv
PROOF
  <1> USE ConstantsAssumption
  <1> DEFINE OnItsWay == Waiting \cup Queued \cup Grouped \cup Logged
  <1>1. Init => PlaceInv
    <2> SUFFICES ASSUME Init PROVE PlaceInv
      OBVIOUS
    <2>1. Waiting = {} /\ Queued = {} /\ Grouped = {} /\ Logged = {}
      BY DEF Init, Waiting, Queued, Grouped, Promised, Logged, LoggedBy
    <2>2. LoggedIn(writeBatch) = {}
      BY DEF Init, LoggedIn
    <2> QED BY <2>1, <2>2 DEF Init, PlaceInv, OnePlace
  <1>2. TypeOK /\ PlaceInv /\ [Next]_vars => PlaceInv'
    <2> SUFFICES ASSUME TypeOK, PlaceInv, [Next]_vars PROVE PlaceInv'
      OBVIOUS
    <2>1. OnePlace
      BY DEF PlaceInv
    <2>a. ASSUME UNCHANGED disk PROVE Logged' = Logged
      BY <2>a DEF Logged, LoggedBy, disk
    <2>b. ASSUME UNCHANGED group
          PROVE  Grouped' = Grouped /\ UNCHANGED writeBatch
      BY <2>b DEF group, Grouped, Promised
    <2>2. CASE Open \/ Destroy \/ UNCHANGED vars
      <3>1. /\ UNCHANGED <<journal, future, putting, journalQueue>>
            /\ UNCHANGED group /\ UNCHANGED disk
        BY <2>2 DEF Open, Destroy, vars, callers, thread
      <3>2. Waiting' = Waiting /\ Queued' = Queued
        BY <3>1 DEF Waiting, Queued
      <3> QED BY <2>a, <2>b, <3>1, <3>2 DEF PlaceInv, OnePlace
    <2>3. ASSUME NEW t \in IOThreads, NEW r \in Requests, PutBegin(t, r)
          PROVE  PlaceInv'
      <3>1. /\ UNCHANGED <<journal, journalQueue>>
            /\ UNCHANGED group /\ UNCHANGED disk
            /\ putting[t] = Null /\ future[r] = "unused"
        BY <2>3 DEF PutBegin, thread
      <3>2. putting' = [putting EXCEPT ![t] =
                          [key |-> t, data |-> SegmentsOf[r], promise |-> r]]
        BY <2>3 DEF PutBegin
      <3>3. \A u \in IOThreads :
              IF u = t THEN putting'[u].promise = r
                       ELSE putting'[u] = putting[u]
        BY <3>2 DEF TypeOK
      <3>4. Waiting' \subseteq Waiting \cup {r} /\ Queued' = Queued
        BY <3>1, <3>3 DEF Waiting, Queued
      <3>5. r \notin OnItsWay
        BY <3>1 DEF PlaceInv
      <3>6. \A u, v \in IOThreads :
              /\ putting'[u] # Null
              /\ putting'[v] # Null
              /\ putting'[u].promise = putting'[v].promise
              => u = v
        <4>1. \A u \in IOThreads : putting[u] # Null => putting[u].promise # r
          BY <3>5 DEF Waiting
        <4> QED BY <3>3, <4>1 DEF PlaceInv, OnePlace
      <3>7. OnePlace'
        BY <2>b, <3>1, <3>4, <3>5, <3>6 DEF PlaceInv, OnePlace
      <3>8. future'[r] = "pending"
        BY <2>3 DEF PutBegin, TypeOK
      <3>9. future' = [future EXCEPT ![r] = "pending"]
        BY <2>3 DEF PutBegin
      <3>10. \A q : q # r => future'[q] = future[q]
        BY <3>9 DEF TypeOK
      <3> QED BY <2>a, <2>b, <3>1, <3>4, <3>5, <3>7, <3>8, <3>10
              DEF PlaceInv
    <2>4. ASSUME NEW t \in IOThreads, PutEnqueue(t) PROVE PlaceInv'
      <3>1. /\ UNCHANGED <<journal, future>>
            /\ UNCHANGED group /\ UNCHANGED disk
        BY <2>4 DEF PutEnqueue, thread
      <3> QED BY <2>1, <2>4, <2>a, <2>b, <3>1, PutEnqueueMoves DEF PlaceInv
    <2>5. CASE CollectEntry
      <3> DEFINE q == Head(journalQueue).promise
      <3>1. /\ journal = "collect" /\ UNCHANGED <<future, putting>>
            /\ UNCHANGED disk /\ journalQueue # <<>>
            /\ journalQueue' = Tail(journalQueue)
        BY <2>5 DEF CollectEntry, callers
      <3>2. /\ Head(journalQueue) # ExitEntry
            /\ Grouped' = Grouped \cup {q}
            /\ LoggedIn(writeBatch') = LoggedIn(writeBatch) \cup {q}
        BY <2>5, CollectGroups
      <3>3. /\ q \in Queued /\ Queued' \subseteq Queued \ {q}
            /\ \A i, j \in DOMAIN journalQueue' :
                 /\ journalQueue'[i] # ExitEntry
                 /\ journalQueue'[i].promise = journalQueue'[j].promise
                 => i = j
        BY <2>1, <3>1, <3>2, HeadLeaves
      <3>4. Waiting' = Waiting
        BY <3>1 DEF Waiting
      <3> HIDE DEF q
      <3>5. OnePlace'
        BY <3>1, <3>2, <3>3, <3>4 DEF PlaceInv, OnePlace
      <3> QED BY <2>a, <3>1, <3>2, <3>3, <3>4, <3>5 DEF PlaceInv
    <2>6. CASE JournalExit
      <3>1. /\ journal = "collect" /\ journal' = "exited"
            /\ UNCHANGED putting /\ UNCHANGED disk /\ journalQueue # <<>>
            /\ journalQueue' = Tail(journalQueue)
            /\ future' = Break(future, Grouped) /\ Grouped' = {}
        BY <2>6 DEF JournalExit, DropGroup, Grouped, Promised
      <3>2. /\ Queued' \subseteq Queued
            /\ \A i, j \in DOMAIN journalQueue' :
                 /\ journalQueue'[i] # ExitEntry
                 /\ journalQueue'[i].promise = journalQueue'[j].promise
                 => i = j
        BY <2>1, <3>1, HeadLeaves
      <3>3. Waiting' = Waiting
        BY <3>1 DEF Waiting
      <3>4. OnePlace'
        BY <3>1, <3>2, <3>3 DEF PlaceInv, OnePlace
      <3>5. \A r \in Requests : r \notin Grouped => future'[r] = future[r]
        BY <3>1 DEF Break
      <3>6. Waiting \cup Queued \cup Logged \subseteq Requests
        <4>1. \A u \in IOThreads : putting[u] # Null =>
                putting[u].promise \in Requests
          BY DEF TypeOK, AddEntry
        <4>2. \A i \in DOMAIN journalQueue :
                journalQueue[i].promise \in Requests \cup {Null}
          BY DEF TypeOK, AddEntry, ExitEntry
        <4> QED BY <4>1, <4>2 DEF Waiting, Queued, Logged
      <3> QED BY <2>a, <3>1, <3>2, <3>3, <3>4, <3>5, <3>6
              DEF PlaceInv, OnePlace
    <2>7. CASE QueueDrained
      <3>1. /\ journal = "collect"
            /\ UNCHANGED <<future, putting, journalQueue>>
            /\ UNCHANGED group /\ UNCHANGED disk
        BY <2>7 DEF QueueDrained, callers
      <3>2. Waiting' = Waiting /\ Queued' = Queued
        BY <3>1 DEF Waiting, Queued
      <3> QED BY <2>a, <2>b, <3>1, <3>2 DEF PlaceInv, OnePlace
    <2>8. CASE Write
      <3>1. /\ journal = "write" /\ journal' = "complete"
            /\ UNCHANGED <<future, putting, journalQueue>>
            /\ UNCHANGED group
        BY <2>8 DEF Write, callers
      <3>2. Waiting' = Waiting /\ Queued' = Queued
        BY <3>1 DEF Waiting, Queued
      <3>3. Logged' \subseteq Logged \cup Grouped
        BY <2>8, <3>1, WriteLogs DEF PlaceInv
      <3> QED BY <2>b, <3>1, <3>2, <3>3 DEF PlaceInv, OnePlace
    <2>9. CASE SetValue
      <3>1. /\ journal = "complete" /\ UNCHANGED disk
            /\ UNCHANGED <<putting, journalQueue>>
            /\ future' = [future EXCEPT ![Head(entriesToSync)] = "value"]
            /\ entriesToSync' = Tail(entriesToSync)
            /\ journal' = "complete"
                 \/ (Len(entriesToSync) = 1 /\ writeBatch' = <<>>)
        BY <2>9 DEF SetValue, GroupDone
      <3>2. entriesToSync \in Seq(Requests) /\ entriesToSync # <<>>
        BY <3>1 DEF TypeOK
      <3>3. /\ Grouped' \subseteq Grouped
            /\ Len(entriesToSync) = 1 => Grouped' = {}
        BY <3>1, <3>2, TailPromised DEF Grouped
      <3>4. Waiting' = Waiting /\ Queued' = Queued
        BY <3>1 DEF Waiting, Queued
      <3>5. writeBatch' = <<>> => LoggedIn(writeBatch') = {}
        BY DEF LoggedIn
      <3>6. \A r : future'[r] \in {"unused", "broken"} =>
                     future[r] \in {"unused", "broken"}
        BY <3>1 DEF TypeOK
      <3> QED BY <2>a, <3>1, <3>3, <3>4, <3>5, <3>6 DEF PlaceInv, OnePlace
    <2>10. CASE EnqueueExit
      <3>1. /\ UNCHANGED <<journal, future, putting>>
            /\ UNCHANGED group /\ UNCHANGED disk
        BY <2>10 DEF EnqueueExit, thread
      <3>2. Waiting' = Waiting
        BY <3>1 DEF Waiting
      <3> QED BY <2>1, <2>10, <2>a, <2>b, <3>1, <3>2, ExitEntryMoves
              DEF PlaceInv
    <2>11. ASSUME NEW broken, Vanish(broken), Logged' \subseteq Logged,
                  broken \cap Logged = {}
           PROVE  PlaceInv'
      <3>1. Waiting' = {} /\ Queued' = {} /\ Grouped' = {}
        BY <2>11 DEF Vanish, Waiting, Queued, Grouped, Promised
      <3>2. OnePlace'
        BY <2>11, <3>1 DEF OnePlace, Vanish
      <3>3. LoggedIn(writeBatch') = {}
        BY <2>11 DEF Vanish, LoggedIn
      <3>4. \A r \in Logged' : future'[r] \notin {"unused", "broken"}
        BY <2>11 DEF Vanish, Lose, Break, Logged, PlaceInv
      <3> QED BY <2>11, <3>1, <3>2, <3>3, <3>4 DEF PlaceInv, Vanish
    <2>12. CASE FinishDestroy \/ JournalFault \/ ProcessCrash
      <3>1. PICK broken : /\ Vanish(broken) /\ UNCHANGED <<wal, durable>>
                          /\ broken \in {Queued, {}}
        BY <2>12 DEF FinishDestroy, JournalFault, ProcessCrash
      <3>2. Logged' = Logged
        BY <3>1 DEF Logged, LoggedBy
      <3> QED BY <2>11, <3>1, <3>2 DEF PlaceInv
    <2>13. CASE PowerLossCrash
      <3>1. PICK n \in durable .. Len(wal) : wal' = SubSeq(wal, 1, n)
        BY <2>13 DEF PowerLossCrash
      <3>2. wal \in Seq(Seq(Record)) /\ durable \in Nat /\ n \in 0 .. Len(wal)
        BY <3>1 DEF TypeOK
      <3>3. /\ Len(wal') = n /\ \A b \in 1 .. n : wal'[b] = wal[b]
            /\ \A b \in 1 .. n : b \in 1 .. Len(wal)
        BY <3>1, <3>2
      <3>4. Logged' \subseteq Logged
        BY <3>3 DEF Logged, LoggedBy
      <3> QED BY <2>11, <2>13, <3>4 DEF PowerLossCrash
    <2> QED
      BY <2>2, <2>3, <2>4, <2>5, <2>6, <2>7, <2>8, <2>9, <2>10, <2>12, <2>13
      DEF Next
  <1> QED BY <1>1, <1>2, TypeCorrect, PTL DEF Spec

(* An add whose promise was broken, by the exit of the journal thread or   *)
(* with the queue, is not in the database and will not be.                 *)
THEOREM BrokenAddsAreNotLogged == Spec => []BrokenNeverLogged
PROOF
  <1>1. PlaceInv => BrokenNeverLogged
    BY DEF PlaceInv, BrokenNeverLogged, Logged
  <1> QED BY <1>1, PlaceInvariant, PTL
=============================================================================
