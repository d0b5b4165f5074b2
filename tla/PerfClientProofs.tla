------------------------- MODULE PerfClientProofs -------------------------
(***************************************************************************)
(* The client's bookkeeping of its adds, the rate at which it makes them   *)
(* and the count of its samples, for any connections, threads, rates and   *)
(* times.                                                                  *)
(***************************************************************************)
EXTENDS PerfClient, SequenceTheorems, FiniteSetTheorems,
        WellFoundedInduction, TLAPS

(* The adds of a connection whose response is still to come. *)
Outstanding(c) == atBookie[c] \cup {r[1] : r \in responses[c]}

(* A thread that has a permit has an entry left to make.                   *)
PermitIsForAnEntry ==
  \A c \in Connections : sender[c] = "sleep" => Len(sentAt[c]) < Entries[c]

(* Nothing is made for a connection that was never there. *)
NotConnected(c) ==
  /\ sender[c] = "none" /\ sentAt[c] = <<>> /\ pendingRequests[c] = {}
  /\ atBookie[c] = {} /\ responses[c] = {}

(* An add is in one place, and has one response.                           *)
OneResponse(c) ==
  /\ link[c] \in {"none", "refused"} => NotConnected(c)
  /\ \A e \in Outstanding(c) : e < Len(sentAt[c])
  /\ \A e \in atBookie[c] : \A r \in responses[c] : r[1] # e
  /\ \A r, s \in responses[c] : r[1] = s[1] => r = s

(* What an IO thread has yet to write was not written before.              *)
QueuedOnce(t) ==
  \A k \in DOMAIN tasks[t] :
    /\ ThreadOf[tasks[t][k][1]] = t
    /\ tasks[t][k][2] < Len(sentAt[tasks[t][k][1]])
    /\ tasks[t][k][2] \notin Outstanding(tasks[t][k][1])
    /\ \A m \in DOMAIN tasks[t] : tasks[t][m] = tasks[t][k] => m = k

(* The connection that an IO thread works for.                             *)
WorksFor(t, c) == io[t] # Idle /\ io[t].connection = c

(* pendingRequests_ in the middle of a callback, while connected.          *)
PendingMatches(c) ==
  LET t == ThreadOf[c]
  IN  /\ ~WorksFor(t, c) => pendingRequests[c] = Outstanding(c)
      /\ WorksFor(t, c) /\ io[t].at = "insert" =>
           pendingRequests[c] \cup {io[t].entry} = Outstanding(c)
      /\ WorksFor(t, c) /\ io[t].at = "sample" =>
           pendingRequests[c] \ {io[t].entry} = Outstanding(c)

AddsInv ==
  /\ \A c \in Connections :
       OneResponse(c) /\ (link[c] = "open" => PendingMatches(c))
  /\ \A t \in IoThreads : QueuedOnce(t)
  /\ \A t \in IoThreads : io[t] # Idle =>
       /\ ThreadOf[io[t].connection] = t
       /\ link[io[t].connection] \in {"open", "closed"}

(* The time up to which a limiter would have handed out its permits had it *)
(* never kept any.                                                         *)
Virtual(l) == l.nextFree - l.storedPermits * Interval

(* The permits a connection's thread has been granted.                     *)
Granted(c) == IF sender[c] = "sleep" THEN Len(sentAt[c]) + 1 ELSE Len(sentAt[c])

(* Entries are handed over one after the other. *)
SentInTurn(c) ==
  /\ \A i \in DOMAIN sentAt[c] : sentAt[c][i] <= clock
  /\ \A i, j \in DOMAIN sentAt[c] : i <= j => sentAt[c][i] <= sentAt[c][j]

(* Each permit takes an interval of the virtual time, which was not far    *)
(* behind the clock when an entry was handed over ...                      *)
PermitsTakeTime(c) ==
  \A i \in DOMAIN sentAt[c] :
    i < Granted(c) =>
      sentAt[c][i] + (Granted(c) - i) * Interval
        <= Virtual(limiter[c]) + MaxPermits * Interval

(* ... and is not far ahead of it when another is.                         *)
SleepTakesTime(c) ==
  sender[c] = "sleep" => Virtual(limiter[c]) <= wake[c] + Interval

(* So the entries of a stretch of time are paid for.                       *)
StretchTakesTime(c) ==
  \A i, j \in DOMAIN sentAt[c] :
    i < j => (j - i) * Interval <=
               (sentAt[c][j] - sentAt[c][i]) + (MaxPermits + 1) * Interval

RateOf(c) == SentInTurn(c) /\ PermitsTakeTime(c) /\ SleepTakesTime(c)
               /\ StretchTakesTime(c)

RateInv == \A c \in Connections : RateOf(c)

-----------------------------------------------------------------------------
(* The limiter *)

(* What a division cuts off is less than the divisor. *)
LEMMA Divided ==
  ASSUME NEW a \in Nat, NEW b \in Nat \ {0}
  PROVE  /\ a \div b \in Nat
         /\ (a \div b) * b <= a
         /\ a < (a \div b) * b + b
PROOF
  <1>1. \A x, y \in Int : y > 0 => x \div y \in Int
    OBVIOUS
  <1> QED BY Z3

(* RateLimiter's assertion keeps the interval from being zero. *)
LEMMA LimiterConstants ==
  Interval \in Nat \ {0} /\ MaxPermits \in Nat
PROOF
  <1>1. /\ Second \in Nat \ {0} /\ Rate \in Nat \ {0} /\ Shares \in Nat \ {0}
        /\ Rate < Second * Shares
    BY RateAssumption
  <1>2. Second * Shares \in Nat
    BY <1>1
  <1>3. MaxPermits \in Nat
    BY <1>1, Divided DEF MaxPermits
  <1> DEFINE a == Second * Shares
             q == a \div Rate
  <1>4. q \in Nat /\ a < q * Rate + Rate
    BY <1>1, <1>2, Divided
  <1>5. q # 0
    <2> SUFFICES ASSUME q = 0 PROVE FALSE
      OBVIOUS
    <2>1. q * Rate = 0
      BY <1>1
    <2> QED BY <1>1, <1>2, <1>4, <2>1
  <1> QED BY <1>3, <1>4, <1>5 DEF Interval

(* Intervals are counted like any other multiples. *)
LEMMA Intervals ==
  /\ \A a, b \in Int : (a + b) * Interval = a * Interval + b * Interval
  /\ \A a, b \in Int : (a - b) * Interval = a * Interval - b * Interval
  /\ \A a, b \in Int : a <= b => a * Interval <= b * Interval
  /\ \A a \in Int : a * Interval \in Int
  /\ 1 * Interval = Interval
PROOF
  <1> DEFINE n == Interval
  <1>1. n \in Nat \ {0}
    BY LimiterConstants
  <1> HIDE DEF n
  <1>2. /\ \A a, b \in Int : (a + b) * n = a * n + b * n
        /\ \A a, b \in Int : (a - b) * n = a * n - b * n
        /\ \A a \in Int : a * n \in Int
        /\ 1 * n = n
    BY <1>1
  <1>3. \A a, b \in Int : a <= b => a * n <= b * n
    BY <1>1
  <1> QED BY <1>2, <1>3 DEF n

(* Waiting gives permits, and never more than can be kept. *)
LEMMA RefillKeepsTime ==
  ASSUME NEW l \in Limiters, NEW now \in Nat
  PROVE  /\ Refill(l, now) \in Limiters
         /\ now <= Refill(l, now).nextFree
         /\ Virtual(l) <= Virtual(Refill(l, now))
         /\ now <= Virtual(Refill(l, now)) + MaxPermits * Interval
PROOF
  <1> DEFINE f == Refill(l, now)
             earned == (now - l.nextFree) \div Interval
             s == l.storedPermits
  <1>1. /\ l.nextFree \in Nat /\ s \in Nat /\ s <= MaxPermits
        /\ Interval \in Nat \ {0} /\ MaxPermits \in Nat
    BY LimiterConstants DEF Limiters
  <1>2. CASE now > l.nextFree
    <2>1. now - l.nextFree \in Nat
      BY <1>1, <1>2
    <2>2. earned \in Nat /\ earned * Interval <= now - l.nextFree
      BY <1>1, <2>1, Divided
    <2> DEFINE kept == Capped(s + earned)
    <2>3. f = [storedPermits |-> kept, nextFree |-> now]
      BY <1>2 DEF Refill
    <2> HIDE DEF earned
    <2>4. kept \in 0 .. MaxPermits /\ kept <= s + earned
      BY <1>1, <2>2 DEF Capped, Lesser
    <2> HIDE DEF kept, f
    <2>5. f \in Limiters /\ f.nextFree = now /\ f.storedPermits = kept
      BY <2>3, <2>4 DEF Limiters
    <2>6. /\ kept * Interval <= (s + earned) * Interval
          /\ (s + earned) * Interval = s * Interval + earned * Interval
          /\ kept * Interval <= MaxPermits * Interval
          /\ s * Interval \in Int /\ kept * Interval \in Int
          /\ earned * Interval \in Int /\ MaxPermits * Interval \in Int
      BY <1>1, <2>2, <2>4, Intervals
    <2>7. Virtual(f) = now - kept * Interval
      BY <2>5 DEF Virtual
    <2>8. Virtual(l) = l.nextFree - s * Interval
      BY DEF Virtual
    <2> HIDE DEF s
    <2>9. /\ Virtual(l) <= Virtual(f)
          /\ now <= Virtual(f) + MaxPermits * Interval
      BY <1>1, <2>2, <2>6, <2>7, <2>8
    <2> QED BY <2>5, <2>9 DEF f
  <1>3. CASE ~(now > l.nextFree)
    <2>1. Refill(l, now) = l
      BY <1>3 DEF Refill
    <2>2. /\ s * Interval <= MaxPermits * Interval
          /\ s * Interval \in Int /\ MaxPermits * Interval \in Int
      BY <1>1, Intervals
    <2>3. Virtual(l) = l.nextFree - s * Interval
      BY DEF Virtual
    <2> HIDE DEF s
    <2>4. now <= l.nextFree
      BY <1>1, <1>3
    <2>5. Virtual(l) <= Virtual(l) /\ now <= Virtual(l) + MaxPermits * Interval
      BY <1>1, <2>2, <2>3, <2>4
    <2> QED BY <2>1, <2>4, <2>5
  <1> QED BY <1>2, <1>3

(* A permit takes an interval, whether it was kept or comes on credit. *)
LEMMA SpendTakesAnInterval ==
  ASSUME NEW l \in Limiters, NEW now \in Nat
  PROVE  /\ Spend(l, now) \in Limiters
         /\ FreeAt(l, now) \in Nat
         /\ Virtual(Spend(l, now)) = Virtual(Refill(l, now)) + Interval
         /\ Virtual(Spend(l, now)) <= FreeAt(l, now) + Interval
         /\ Virtual(l) \in Int /\ Virtual(Refill(l, now)) \in Int
PROOF
  <1> DEFINE f == Refill(l, now)
             u == Spend(l, now)
  <1>1. f \in Limiters
    BY RefillKeepsTime
  <1>2. Interval \in Nat \ {0} /\ MaxPermits \in Nat
    BY LimiterConstants
  <1>3. f.nextFree \in Nat /\ f.storedPermits \in 0 .. MaxPermits
    BY <1>1 DEF Limiters
  <1>a. l.nextFree \in Nat /\ l.storedPermits \in Nat
    BY <1>2 DEF Limiters
  <1>4. FreeAt(l, now) = f.nextFree
    BY DEF FreeAt
  <1>5. u = [storedPermits |-> f.storedPermits - Lesser(1, f.storedPermits),
             nextFree |-> f.nextFree
                            + (1 - Lesser(1, f.storedPermits)) * Interval]
    BY DEF Spend
  <1> HIDE DEF f
  <1>6. f.storedPermits * Interval \in Int
        /\ 0 * Interval <= f.storedPermits * Interval /\ 0 * Interval = 0
        /\ l.storedPermits * Interval \in Int
    BY <1>2, <1>3, <1>a, Intervals
  <1>7. Virtual(f) = f.nextFree - f.storedPermits * Interval
        /\ Virtual(l) = l.nextFree - l.storedPermits * Interval
    BY DEF Virtual
  <1>8. CASE f.storedPermits = 0
    <2>1. u = [storedPermits |-> 0, nextFree |-> f.nextFree + Interval]
      <3>1. Lesser(1, f.storedPermits) = 0
        BY <1>8 DEF Lesser
      <3>2. (1 - 0) * Interval = Interval
        BY <1>2
      <3> QED BY <1>5, <1>8, <3>1, <3>2
    <2> HIDE DEF u
    <2>2. u \in Limiters
      BY <1>2, <1>3, <2>1 DEF Limiters
    <2>3. Virtual(u) = (f.nextFree + Interval) - 0 * Interval
      <3>1. u.nextFree = f.nextFree + Interval /\ u.storedPermits = 0
        BY <2>1
      <3> QED BY <3>1 DEF Virtual
    <2>4. /\ Virtual(u) = Virtual(f) + Interval
          /\ Virtual(u) <= f.nextFree + Interval
      BY <1>2, <1>3, <1>6, <1>7, <1>8, <2>3
    <2> QED BY <1>3, <1>4, <1>6, <1>7, <1>a, <2>2, <2>4 DEF u, f
  <1>9. CASE f.storedPermits # 0
    <2>1. u = [storedPermits |-> f.storedPermits - 1, nextFree |-> f.nextFree]
      <3>1. Lesser(1, f.storedPermits) = 1
        BY <1>3, <1>9 DEF Lesser
      <3>2. f.nextFree + (1 - 1) * Interval = f.nextFree
        BY <1>2, <1>3
      <3> QED BY <1>5, <3>1, <3>2
    <2> HIDE DEF u
    <2>2. u \in Limiters
      BY <1>2, <1>3, <1>9, <2>1 DEF Limiters
    <2>3. Virtual(u) = f.nextFree - (f.storedPermits - 1) * Interval
      BY <2>1 DEF Virtual
    <2>4. (f.storedPermits - 1) * Interval
            = f.storedPermits * Interval - Interval
      BY <1>2, <1>3, Intervals
    <2>5. 1 * Interval <= f.storedPermits * Interval /\ 1 * Interval = Interval
      BY <1>2, <1>3, <1>9, Intervals
    <2>6. /\ Virtual(u) = Virtual(f) + Interval
          /\ Virtual(u) <= f.nextFree + Interval
      BY <1>2, <1>3, <1>6, <1>7, <2>3, <2>4, <2>5
    <2> QED BY <1>3, <1>4, <1>6, <1>7, <1>a, <2>2, <2>6 DEF u, f
  <1> QED BY <1>8, <1>9

-----------------------------------------------------------------------------
(* Types *)

(* The record of a callback. *)
LEMMA CallbackFields ==
  /\ Idle \in Callbacks /\ Idle.at = "idle"
  /\ \A x \in Callbacks :
       x # Idle => /\ x \in [at : {"insert", "sample"},
                             connection : Connections, entry : EntryIds]
                   /\ x.at \in {"insert", "sample"}
                   /\ x.connection \in Connections /\ x.entry \in EntryIds
  /\ \A at \in {"insert", "sample"}, c \in Connections, e \in EntryIds :
       LET x == [at |-> at, connection |-> c, entry |-> e]
       IN  /\ x \in Callbacks /\ x # Idle
           /\ x.at = at /\ x.connection = c /\ x.entry = e
PROOF
  <1>1. Idle \in Callbacks /\ Idle.at = "idle"
    BY DEF Callbacks, Idle
  <1>2. ASSUME NEW x \in Callbacks, x # Idle
        PROVE  /\ x \in [at : {"insert", "sample"},
                         connection : Connections, entry : EntryIds]
               /\ x.at \in {"insert", "sample"}
               /\ x.connection \in Connections /\ x.entry \in EntryIds
    BY <1>2 DEF Callbacks
  <1>3. ASSUME NEW at \in {"insert", "sample"}, NEW c \in Connections,
               NEW e \in EntryIds
        PROVE  LET x == [at |-> at, connection |-> c, entry |-> e]
               IN  /\ x \in Callbacks /\ x # Idle
                   /\ x.at = at /\ x.connection = c /\ x.entry = e
    <2> DEFINE x == [at |-> at, connection |-> c, entry |-> e]
    <2>1. x.at = at /\ x.connection = c /\ x.entry = e
      OBVIOUS
    <2>2. x # Idle
      BY <1>1, <2>1
    <2>3. x \in Callbacks
      BY DEF Callbacks
    <2> QED BY <2>1, <2>2, <2>3
  <1> QED BY <1>1, <1>2, <1>3

LEMMA ClientTypeInit ==
  ASSUME Init
  PROVE  ClientTypeOK /\ PermitIsForAnEntry
PROOF
  <1>1. NewLimiter \in Limiters
    BY LimiterConstants DEF NewLimiter, Limiters
  <1>2. Idle \in Callbacks /\ StartTime \in Nat
    BY CallbackFields, ClientAssumption
  <1>3. ClientTypeOK
    <2>1. /\ limiter \in [Connections -> Limiters]
          /\ io \in [IoThreads -> Callbacks]
          /\ link \in [Connections -> {"none", "open", "closed", "refused"}]
          /\ sender \in [Connections -> {"none", "aquire", "sleep"}]
          /\ wake \in [Connections -> Nat]
          /\ histogram \in [IoThreads -> Nat]
          /\ loaded \in [IoThreads -> Nat]
      BY <1>1, <1>2 DEF Init
    <2>2. /\ sentAt \in [Connections -> Seq(Nat)]
          /\ tasks \in [IoThreads -> Seq(Connections \X EntryIds)]
      BY DEF Init
    <2>3. /\ pendingRequests \in [Connections -> SUBSET EntryIds]
          /\ atBookie \in [Connections -> SUBSET EntryIds]
          /\ responses \in [Connections -> SUBSET (EntryIds \X {"ok", "error"})]
      BY DEF Init
    <2>4. /\ running \in BOOLEAN /\ updating \in BOOLEAN /\ raced \in BOOLEAN
          /\ clock \in Nat /\ answered \in Nat
          /\ aggregated \in Nat /\ reported \in Nat
          /\ rest \subseteq IoThreads /\ clearing \subseteq IoThreads
      BY <1>2 DEF Init
    <2> QED BY <2>1, <2>2, <2>3, <2>4 DEF ClientTypeOK
  <1>4. PermitIsForAnEntry
    BY DEF Init, PermitIsForAnEntry
  <1> QED BY <1>3, <1>4

LEMMA ClientTypeStep ==
  ASSUME ClientTypeOK, PermitIsForAnEntry, [Next]_clientVars
  PROVE  ClientTypeOK' /\ PermitIsForAnEntry'
PROOF
  <1> USE ClientAssumption
  <1>1. CASE UNCHANGED clientVars
    BY <1>1 DEF ClientTypeOK, PermitIsForAnEntry, clientVars, connectionVars,
                senderVars, sampleVars, updateVars
  <1>2. CASE Tick \/ ConnectionMissing \/ StartUpdate \/ Publish
    <2>1. /\ UNCHANGED <<connectionVars, senderVars, tasks, io, sampleVars,
                         raced>>
          /\ running' \in BOOLEAN /\ clock' \in Nat /\ updating' \in BOOLEAN
          /\ rest' \subseteq IoThreads /\ clearing' \subseteq IoThreads
          /\ aggregated' \in Nat /\ reported' \in Nat
      <3>1. CASE Tick
        BY <3>1 DEF Tick, ClientTypeOK, updateVars
      <3>2. CASE ConnectionMissing
        BY <3>2 DEF ConnectionMissing, ClientTypeOK, updateVars
      <3>3. CASE StartUpdate
        BY <3>3 DEF StartUpdate, ClientTypeOK
      <3>4. CASE Publish
        <4>1. reported + aggregated \in Nat /\ 0 \in Nat
          BY DEF ClientTypeOK
        <4> QED BY <3>4, <4>1 DEF Publish, ClientTypeOK
      <3> QED BY <1>2, <3>1, <3>2, <3>3, <3>4
    <2> QED BY <2>1 DEF ClientTypeOK, PermitIsForAnEntry, connectionVars,
                        senderVars, sampleVars
  <1>3. ASSUME NEW t \in IoThreads, Write(t)
        PROVE  ClientTypeOK' /\ PermitIsForAnEntry'
    <2>0. tasks[t] \in Seq(Connections \X EntryIds) /\ tasks[t] # <<>>
      BY <1>3 DEF Write, ClientTypeOK
    <2> DEFINE c == Head(tasks[t])[1]
               e == Head(tasks[t])[2]
    <2>1. /\ Head(tasks[t]) \in Connections \X EntryIds
          /\ Tail(tasks[t]) \in Seq(Connections \X EntryIds)
      BY <2>0, HeadTailProperties
    <2>2. c \in Connections /\ e \in EntryIds
      BY <2>1
    <2> HIDE DEF c, e
    <2>3. [at |-> "insert", connection |-> c, entry |-> e] \in Callbacks
      BY <2>2, CallbackFields
    <2>4. /\ io' = [io EXCEPT ![t] = [at |-> "insert", connection |-> c,
                                      entry |-> e]]
          /\ tasks' = [tasks EXCEPT ![t] = Tail(@)]
          /\ atBookie' = atBookie
               \/ atBookie' = [atBookie EXCEPT ![c] = @ \cup {e}]
          /\ UNCHANGED <<running, clock, link, pendingRequests, responses,
                         senderVars, sampleVars, updateVars, raced>>
      BY <1>3 DEF Write, c, e
    <2>5. /\ io' \in [IoThreads -> Callbacks]
          /\ tasks' \in [IoThreads -> Seq(Connections \X EntryIds)]
          /\ atBookie' \in [Connections -> SUBSET EntryIds]
      <3>1. io' \in [IoThreads -> Callbacks]
        BY <2>3, <2>4 DEF ClientTypeOK
      <3>2. tasks' \in [IoThreads -> Seq(Connections \X EntryIds)]
        BY <2>1, <2>4 DEF ClientTypeOK
      <3>3. atBookie' \in [Connections -> SUBSET EntryIds]
        <4>1. atBookie \in [Connections -> SUBSET EntryIds]
          BY DEF ClientTypeOK
        <4>2. CASE atBookie' = [atBookie EXCEPT ![c] = @ \cup {e}]
          BY <2>2, <4>1, <4>2
        <4> QED BY <2>4, <4>1, <4>2
      <3> QED BY <3>1, <3>2, <3>3
    <2>6. /\ UNCHANGED <<running, clock, link, pendingRequests, responses,
                         limiter, sender, wake, sentAt, histogram, loaded>>
          /\ UNCHANGED <<answered, updating, rest, clearing, aggregated,
                         reported, raced>>
      BY <2>4 DEF senderVars, sampleVars, updateVars
    <2> QED BY <2>5, <2>6 DEF ClientTypeOK, PermitIsForAnEntry
  <1>4. ASSUME NEW t \in IoThreads, Insert(t) \/ AddSample(t)
        PROVE  ClientTypeOK' /\ PermitIsForAnEntry'
    <2>1. /\ io[t] # Idle /\ io[t] \in Callbacks
          /\ io'[t] = Idle /\ io' = [io EXCEPT ![t] = Idle]
          /\ UNCHANGED <<running, clock, link, atBookie, responses,
                         senderVars, tasks, updateVars, raced>>
      BY <1>4, CallbackFields DEF Insert, AddSample, ClientTypeOK
    <2>2. io[t].connection \in Connections /\ io[t].entry \in EntryIds
      BY <2>1, CallbackFields
    <2>3. /\ pendingRequests' \in [Connections -> SUBSET EntryIds]
          /\ histogram' \in [IoThreads -> Nat]
          /\ loaded' \in [IoThreads -> Nat] /\ answered' \in Nat
      <3>1. CASE Insert(t)
        BY <2>2, <3>1 DEF Insert, ClientTypeOK, sampleVars
      <3>2. CASE AddSample(t)
        <4>1. loaded[t] + 1 \in Nat /\ answered + 1 \in Nat
          BY DEF ClientTypeOK
        <4> QED BY <2>2, <3>2, <4>1 DEF AddSample, Remaining, ClientTypeOK
      <3> QED BY <1>4, <3>1, <3>2
    <2>4. io' \in [IoThreads -> Callbacks]
      BY <2>1, CallbackFields DEF ClientTypeOK
    <2> QED BY <2>1, <2>3, <2>4 DEF ClientTypeOK, PermitIsForAnEntry,
                                    senderVars, updateVars
  <1>5. ASSUME NEW t \in IoThreads, Merge(t) \/ Clear(t)
        PROVE  ClientTypeOK' /\ PermitIsForAnEntry'
    <2>1. /\ UNCHANGED <<running, clock, connectionVars, senderVars, tasks, io,
                         loaded, answered, updating, reported>>
          /\ histogram' \in [IoThreads -> Nat] /\ raced' \in BOOLEAN
          /\ rest' \subseteq IoThreads /\ clearing' \subseteq IoThreads
          /\ aggregated' \in Nat
      <3>1. CASE Merge(t)
        <4>1. aggregated + histogram[t] \in Nat
          BY DEF ClientTypeOK
        <4> QED BY <3>1, <4>1 DEF Merge, ClientTypeOK, sampleVars
      <3>2. CASE Clear(t)
        BY <3>2 DEF Clear, Cleared, ClientTypeOK
      <3> QED BY <1>5, <3>1, <3>2
    <2> QED BY <2>1 DEF ClientTypeOK, PermitIsForAnEntry, connectionVars,
                        senderVars
  <1>6. ASSUME NEW c \in Connections, TransportActive(c) \/ ConnectFails(c)
        PROVE  ClientTypeOK' /\ PermitIsForAnEntry'
    BY <1>6 DEF TransportActive, ConnectFails, ClientTypeOK,
                PermitIsForAnEntry, senderVars, sampleVars, updateVars
  <1>7. ASSUME NEW c \in Connections, Aquire(c)
        PROVE  ClientTypeOK' /\ PermitIsForAnEntry'
    <2>1. limiter[c] \in Limiters /\ clock \in Nat
      BY DEF ClientTypeOK
    <2>2. Spend(limiter[c], clock) \in Limiters /\ FreeAt(limiter[c], clock) \in Nat
      BY <2>1, SpendTakesAnInterval
    <2> QED BY <1>7, <2>2 DEF Aquire, ClientTypeOK, PermitIsForAnEntry,
                              connectionVars, sampleVars, updateVars
  <1>8. ASSUME NEW c \in Connections, HandOver(c)
        PROVE  ClientTypeOK' /\ PermitIsForAnEntry'
    <2>1. Len(sentAt[c]) \in 0 .. Entries[c] - 1
      BY <1>8 DEF HandOver, ClientTypeOK, PermitIsForAnEntry
    <2>2. Len(sentAt[c]) \in EntryIds /\ ThreadOf[c] \in IoThreads
      BY <2>1 DEF EntryIds
    <2>3. /\ Append(sentAt[c], clock) \in Seq(Nat)
          /\ Append(tasks[ThreadOf[c]], <<c, Len(sentAt[c])>>)
               \in Seq(Connections \X EntryIds)
      BY <2>2 DEF ClientTypeOK
    <2>4. /\ sentAt' \in [Connections -> Seq(Nat)]
          /\ tasks' \in [IoThreads -> Seq(Connections \X EntryIds)]
          /\ sender' = [sender EXCEPT ![c] = "aquire"]
          /\ wake' \in [Connections -> Nat]
          /\ \A d \in Connections : d # c => sentAt'[d] = sentAt[d]
          /\ UNCHANGED <<running, clock, connectionVars, limiter, io,
                         sampleVars, updateVars, raced>>
      BY <1>8, <2>2, <2>3 DEF HandOver, ClientTypeOK
    <2> QED BY <2>4 DEF ClientTypeOK, PermitIsForAnEntry, connectionVars,
                        sampleVars, updateVars
  <1>9. ASSUME NEW c \in Connections, Close(c)
        PROVE  ClientTypeOK' /\ PermitIsForAnEntry'
    BY <1>9 DEF Close, ClientTypeOK, PermitIsForAnEntry, senderVars,
                sampleVars, updateVars
  <1>10. ASSUME NEW c \in Connections, NEW e \in EntryIds, ReadOk(c, e)
         PROVE  ClientTypeOK' /\ PermitIsForAnEntry'
    <2>1. [at |-> "sample", connection |-> c, entry |-> e] \in Callbacks
      BY CallbackFields
    <2>2. /\ io' \in [IoThreads -> Callbacks]
          /\ loaded' \in [IoThreads -> Nat]
          /\ responses' \in [Connections -> SUBSET (EntryIds \X {"ok", "error"})]
          /\ raced' \in BOOLEAN
      BY <1>10, <2>1 DEF ReadOk, ClientTypeOK
    <2> QED BY <1>10, <2>2 DEF ReadOk, ClientTypeOK, PermitIsForAnEntry,
                               senderVars, updateVars
  <1>11. ASSUME NEW c \in Connections, NEW e \in EntryIds, ReadError(c, e)
         PROVE  ClientTypeOK' /\ PermitIsForAnEntry'
    BY <1>11 DEF ReadError, ClientTypeOK, PermitIsForAnEntry, connectionVars,
                 senderVars, sampleVars, updateVars
  <1>12. ASSUME NEW c \in Connections, NEW e \in EntryIds,
                NEW outcome \in {"ok", "error"}, Answer(c, e, outcome)
         PROVE  ClientTypeOK' /\ PermitIsForAnEntry'
    <2>1. /\ responses' \in [Connections -> SUBSET (EntryIds \X {"ok", "error"})]
          /\ atBookie' \in [Connections -> SUBSET EntryIds]
      BY <1>12 DEF Answer, ClientTypeOK
    <2> QED BY <1>12, <2>1 DEF Answer, ClientTypeOK, PermitIsForAnEntry,
                               senderVars, sampleVars, updateVars
  <1> QED
    BY <1>1, <1>2, <1>3, <1>4, <1>5, <1>6, <1>7, <1>8, <1>9, <1>10, <1>11,
       <1>12
    DEF Next

-----------------------------------------------------------------------------
(* The adds of a connection *)

LinkedWork(t) ==
  io[t] # Idle => /\ ThreadOf[io[t].connection] = t
                  /\ link[io[t].connection] \in {"open", "closed"}

(* The parts of AddsInv. *)
LEMMA AddsParts ==
  AddsInv <=>
    /\ \A c \in Connections :
         OneResponse(c) /\ (link[c] = "open" => PendingMatches(c))
    /\ \A t \in IoThreads : QueuedOnce(t) /\ LinkedWork(t)
PROOF
  BY DEF AddsInv, LinkedWork

(* Numbers and sequences. *)
LEMMA AddTypes ==
  ASSUME ClientTypeOK
  PROVE  /\ EntryIds \subseteq Nat
         /\ \A c \in Connections :
              /\ ThreadOf[c] \in IoThreads
              /\ sentAt[c] \in Seq(Nat) /\ Len(sentAt[c]) \in Nat
              /\ responses[c] \subseteq EntryIds \X {"ok", "error"}
              /\ atBookie[c] \subseteq EntryIds
              /\ Outstanding(c) \subseteq EntryIds
         /\ \A t \in IoThreads :
              /\ tasks[t] \in Seq(Connections \X EntryIds)
              /\ Len(tasks[t]) \in Nat
              /\ DOMAIN tasks[t] = 1 .. Len(tasks[t])
              /\ \A k \in DOMAIN tasks[t] :
                   /\ tasks[t][k] \in Connections \X EntryIds
                   /\ tasks[t][k][1] \in Connections
                   /\ tasks[t][k][2] \in EntryIds
                   /\ tasks[t][k] = <<tasks[t][k][1], tasks[t][k][2]>>
PROOF
  <1>1. EntryIds \subseteq Nat
    BY ClientAssumption DEF EntryIds
  <1>2. ASSUME NEW c \in Connections
        PROVE  /\ ThreadOf[c] \in IoThreads
               /\ sentAt[c] \in Seq(Nat) /\ Len(sentAt[c]) \in Nat
               /\ responses[c] \subseteq EntryIds \X {"ok", "error"}
               /\ atBookie[c] \subseteq EntryIds
               /\ Outstanding(c) \subseteq EntryIds
    <2>1. /\ responses[c] \subseteq EntryIds \X {"ok", "error"}
          /\ atBookie[c] \subseteq EntryIds
      BY DEF ClientTypeOK
    <2>2. \A r \in EntryIds \X {"ok", "error"} : r[1] \in EntryIds
      OBVIOUS
    <2>3. Outstanding(c) \subseteq EntryIds
      BY <2>1, <2>2 DEF Outstanding
    <2>4. /\ ThreadOf[c] \in IoThreads
          /\ sentAt[c] \in Seq(Nat) /\ Len(sentAt[c]) \in Nat
      BY ClientAssumption DEF ClientTypeOK
    <2> QED BY <2>1, <2>3, <2>4
  <1>3. ASSUME NEW t \in IoThreads
        PROVE  /\ tasks[t] \in Seq(Connections \X EntryIds)
               /\ Len(tasks[t]) \in Nat
               /\ DOMAIN tasks[t] = 1 .. Len(tasks[t])
               /\ \A k \in DOMAIN tasks[t] :
                    /\ tasks[t][k] \in Connections \X EntryIds
                    /\ tasks[t][k][1] \in Connections
                    /\ tasks[t][k][2] \in EntryIds
                    /\ tasks[t][k] = <<tasks[t][k][1], tasks[t][k][2]>>
    <2>1. /\ tasks[t] \in Seq(Connections \X EntryIds)
          /\ Len(tasks[t]) \in Nat
          /\ DOMAIN tasks[t] = 1 .. Len(tasks[t])
          /\ \A k \in DOMAIN tasks[t] : tasks[t][k] \in Connections \X EntryIds
      BY DEF ClientTypeOK
    <2>2. \A x \in Connections \X EntryIds :
            x[1] \in Connections /\ x[2] \in EntryIds /\ x = <<x[1], x[2]>>
      OBVIOUS
    <2> QED BY <2>1, <2>2
  <1> QED BY <1>1, <1>2, <1>3

(* What concerns neither the adds nor the threads that handle them. *)
LEMMA AddsStay ==
  ASSUME AddsInv,
         UNCHANGED <<link, sentAt, tasks, io, pendingRequests, atBookie,
                     responses>>,
         \A c \in Connections : sender[c] = "none" => sender'[c] = "none"
  PROVE  AddsInv'
PROOF
  BY DEF AddsInv, OneResponse, NotConnected, Outstanding, PendingMatches,
         WorksFor, QueuedOnce

(* main starts the connection, or sees it refused, before there are adds.  *)
LEMMA ConnectKeepsAdds ==
  ASSUME ClientTypeOK, AddsInv, NEW c \in Connections,
         TransportActive(c) \/ ConnectFails(c)
  PROVE  AddsInv'
PROOF
  <1>1. /\ UNCHANGED <<sentAt, tasks, io, pendingRequests, atBookie, responses>>
        /\ link[c] = "none"
        /\ link' = [link EXCEPT ![c] = "open"]
             \/ (link' = [link EXCEPT ![c] = "refused"] /\ sender' = sender)
        /\ \A d \in Connections : d # c => sender'[d] = sender[d]
    BY DEF TransportActive, ConnectFails, senderVars, ClientTypeOK
  <1>2. /\ link'[c] \in {"open", "refused"}
        /\ \A d \in Connections : d # c => link'[d] = link[d]
        /\ link'[c] = "refused" => sender' = sender
    BY <1>1 DEF ClientTypeOK
  <1>3. NotConnected(c) /\ \A d \in Connections : OneResponse(d)
    BY <1>1 DEF AddsInv, OneResponse
  <1>4. \A t \in IoThreads : QueuedOnce(t)'
    BY <1>1 DEF AddsInv, QueuedOnce, Outstanding
  <1>5. ASSUME NEW t \in IoThreads PROVE LinkedWork(t)'
    <2>1. io[t] # Idle => io[t].connection \in Connections
      BY CallbackFields DEF ClientTypeOK
    <2> QED BY <1>1, <1>2, <2>1 DEF AddsInv, LinkedWork
  <1>6. ASSUME NEW d \in Connections PROVE OneResponse(d)'
    BY <1>1, <1>2, <1>3 DEF OneResponse, NotConnected, Outstanding
  <1>7. ASSUME NEW d \in Connections, link'[d] = "open"
        PROVE  PendingMatches(d)'
    <2>1. CASE d = c
      <3>1. ThreadOf[c] \in IoThreads
        BY ClientAssumption
      <3>2. ~WorksFor(ThreadOf[c], c)'
        BY <1>1, <3>1 DEF AddsInv, WorksFor
      <3>3. pendingRequests'[c] = {} /\ atBookie'[c] = {} /\ responses'[c] = {}
        BY <1>1, <1>3 DEF NotConnected
      <3>4. Outstanding(c)' = {}
        BY <3>3 DEF Outstanding
      <3> QED BY <2>1, <3>2, <3>3, <3>4 DEF PendingMatches
    <2>2. CASE d # c
      BY <1>1, <1>2, <1>7, <2>2
      DEF AddsInv, PendingMatches, WorksFor, Outstanding
    <2> QED BY <2>1, <2>2
  <1> QED
    BY <1>4, <1>5, <1>6, <1>7 DEF AddsInv, LinkedWork

(* A new entry has a number of its own.                                    *)
LEMMA HandOverKeepsAdds ==
  ASSUME ClientTypeOK, AddsInv, NEW c \in Connections, HandOver(c)
  PROVE  AddsInv'
PROOF
  <1> DEFINE t == ThreadOf[c]
             n == Len(sentAt[c])
  <1>1. /\ UNCHANGED <<link, io, pendingRequests, atBookie, responses>>
        /\ sender[c] = "sleep"
        /\ sentAt' = [sentAt EXCEPT ![c] = Append(@, clock)]
        /\ tasks' = [tasks EXCEPT ![t] = Append(@, <<c, n>>)]
        /\ sender' = [sender EXCEPT ![c] = "aquire"]
    BY DEF HandOver, connectionVars
  <1>2. /\ n \in Nat /\ t \in IoThreads
        /\ \A d \in Connections : Len(sentAt[d]) \in Nat
        /\ EntryIds \subseteq Nat
    BY AddTypes
  <1>3. /\ Len(sentAt'[c]) = n + 1
        /\ \A d \in Connections : d # c => /\ sentAt'[d] = sentAt[d]
                                           /\ sender'[d] = sender[d]
    BY <1>1 DEF ClientTypeOK
  <1>4. \A d \in Connections :
          Len(sentAt'[d]) \in Nat /\ Len(sentAt[d]) <= Len(sentAt'[d])
    BY <1>2, <1>3
  <1>5. \A d \in Connections : Outstanding(d)' = Outstanding(d)
    BY <1>1 DEF Outstanding
  <1>6. link[c] \notin {"none", "refused"}
    BY <1>1 DEF AddsInv, OneResponse, NotConnected
  <1>7. ASSUME NEW d \in Connections PROVE OneResponse(d)'
    <2>1. OneResponse(d) /\ Outstanding(d) \subseteq Nat
      BY AddTypes DEF AddsInv
    <2>2. \A e \in Outstanding(d) : e < Len(sentAt'[d])
      BY <1>2, <1>4, <2>1 DEF OneResponse
    <2>3. link'[d] \in {"none", "refused"} => NotConnected(d)'
      BY <1>1, <1>3, <1>6, <2>1 DEF OneResponse, NotConnected
    <2> QED BY <1>1, <1>5, <2>1, <2>2, <2>3 DEF OneResponse
  <1>8. ASSUME NEW d \in Connections, link'[d] = "open"
        PROVE  PendingMatches(d)'
    BY <1>1, <1>8 DEF AddsInv, PendingMatches, WorksFor, Outstanding
  <1>9. ASSUME NEW u \in IoThreads PROVE QueuedOnce(u)' /\ LinkedWork(u)'
    <2>1. QueuedOnce(u) /\ LinkedWork(u)
      BY AddsParts
    <2>2. LinkedWork(u)'
      BY <1>1, <2>1 DEF LinkedWork
    <2>3. \A k \in DOMAIN tasks[u] :
            tasks[u][k][1] \in Connections /\ tasks[u][k][2] \in Nat
      <3>1. \A k \in DOMAIN tasks[u] :
              tasks[u][k][1] \in Connections /\ tasks[u][k][2] \in EntryIds
        BY AddTypes, Zenon
      <3> QED BY <1>2, <3>1
    <2>4. \A k \in DOMAIN tasks[u] :
            /\ ThreadOf[tasks[u][k][1]] = u
            /\ tasks[u][k][2] < Len(sentAt'[tasks[u][k][1]])
            /\ tasks[u][k][2] \notin Outstanding(tasks[u][k][1])
      <3> SUFFICES ASSUME NEW k \in DOMAIN tasks[u]
                   PROVE  /\ ThreadOf[tasks[u][k][1]] = u
                          /\ tasks[u][k][2] < Len(sentAt'[tasks[u][k][1]])
                          /\ tasks[u][k][2] \notin Outstanding(tasks[u][k][1])
        OBVIOUS
      <3> DEFINE d == tasks[u][k][1]
                 e == tasks[u][k][2]
      <3>1. /\ ThreadOf[d] = u /\ e < Len(sentAt[d])
            /\ e \notin Outstanding(d) /\ d \in Connections /\ e \in Nat
        BY <2>1, <2>3 DEF QueuedOnce
      <3> HIDE DEF d, e
      <3>2. e < Len(sentAt'[d])
        BY <1>2, <1>4, <3>1
      <3> QED BY <3>1, <3>2 DEF d, e
    <2>5. CASE u # t
      <3>1. tasks'[u] = tasks[u]
        BY <1>1, <1>2, <2>5 DEF ClientTypeOK
      <3> QED BY <1>1, <2>1, <2>2, <2>4, <3>1 DEF QueuedOnce, Outstanding
    <2>6. CASE u = t
      <3> DEFINE s == tasks[t]
                 x == <<c, n>>
      <3>1. s \in Seq(Connections \X EntryIds) /\ tasks'[u] = Append(s, x)
        BY <1>1, <1>2, <2>6 DEF ClientTypeOK
      <3>2. x[1] = c /\ x[2] = n
        OBVIOUS
      <3> HIDE DEF s, x
      <3>3. /\ Len(s) \in Nat /\ DOMAIN s = 1 .. Len(s)
            /\ DOMAIN tasks'[u] = 1 .. Len(s) + 1
            /\ tasks'[u][Len(s) + 1] = x
            /\ \A k \in 1 .. Len(s) : tasks'[u][k] = s[k]
        BY <3>1
      <3>4. \A k \in DOMAIN tasks'[u] :
              (k \in DOMAIN s /\ tasks'[u][k] = s[k])
                \/ (k = Len(s) + 1 /\ tasks'[u][k] = x)
        BY <3>3
      <3>5. \A k \in DOMAIN s : s[k] # x
        <4> SUFFICES ASSUME NEW k \in DOMAIN s, s[k] = x PROVE FALSE
          OBVIOUS
        <4>1. s[k][2] < Len(sentAt[s[k][1]])
          BY <2>1, <2>6 DEF QueuedOnce, s
        <4> QED BY <1>2, <3>2, <4>1
      <3>6. n \notin Outstanding(c)
        BY <1>2 DEF AddsInv, OneResponse
      <3>7. n < Len(sentAt'[c])
        BY <1>2, <1>3
      <3>8. \A k, m \in DOMAIN s : s[k] = s[m] => k = m
        BY <2>1, <2>6 DEF QueuedOnce, s
      <3>9. \A k \in DOMAIN s :
              /\ ThreadOf[s[k][1]] = u
              /\ s[k][2] < Len(sentAt'[s[k][1]])
              /\ s[k][2] \notin Outstanding(s[k][1])
        BY <2>4, <2>6 DEF s
      <3>10. QueuedOnce(u)'
        <4> SUFFICES ASSUME NEW k \in DOMAIN tasks'[u]
                     PROVE  /\ ThreadOf[tasks'[u][k][1]] = u
                            /\ tasks'[u][k][2] < Len(sentAt'[tasks'[u][k][1]])
                            /\ tasks'[u][k][2]
                                 \notin Outstanding(tasks[u][k][1])'
                            /\ \A m \in DOMAIN tasks'[u] :
                                 tasks'[u][m] = tasks'[u][k] => m = k
          BY DEF QueuedOnce
        <4> USE <1>1 DEF Outstanding
        <4>1. CASE k \in DOMAIN s /\ tasks'[u][k] = s[k]
          BY <3>4, <3>5, <3>8, <3>9, <4>1
        <4>2. CASE k = Len(s) + 1 /\ tasks'[u][k] = x
          BY <2>6, <3>2, <3>4, <3>5, <3>6, <3>7, <4>2
        <4> QED BY <3>4, <4>1, <4>2
      <3> QED BY <2>2, <3>10
    <2> QED BY <2>5, <2>6
  <1> QED BY <1>7, <1>8, <1>9 DEF AddsInv, LinkedWork

(* What is written once is written once still when fewer adds are          *)
(* outstanding.                                                            *)
LEMMA QueuesKeptOnce ==
  ASSUME ClientTypeOK, AddsInv, UNCHANGED <<tasks, sentAt>>,
         \A d \in Connections : Outstanding(d)' \subseteq Outstanding(d),
         NEW u \in IoThreads
  PROVE  QueuedOnce(u)'
PROOF
  <1>1. QueuedOnce(u)
    BY DEF AddsInv
  <1>2. \A k \in DOMAIN tasks[u] : tasks[u][k][1] \in Connections
    BY AddTypes, Zenon
  <1>3. \A k \in DOMAIN tasks'[u] :
          tasks'[u][k][2] \notin Outstanding(tasks[u][k][1])'
    <2> SUFFICES ASSUME NEW k \in DOMAIN tasks[u], NEW d \in Connections,
                        d = tasks[u][k][1]
                 PROVE  tasks[u][k][2] \notin Outstanding(d)'
      BY <1>2 DEF Outstanding
    <2> QED BY <1>1 DEF QueuedOnce
  <1> QED BY <1>1, <1>3 DEF QueuedOnce

(* An add that is answered stays outstanding until the response is read. *)
LEMMA AnswerKeepsAdds ==
  ASSUME ClientTypeOK, AddsInv, NEW c \in Connections, NEW e \in EntryIds,
         NEW outcome \in {"ok", "error"}, Answer(c, e, outcome)
  PROVE  AddsInv'
PROOF
  <1>1. /\ UNCHANGED <<link, sender, sentAt, pendingRequests, tasks, io>>
        /\ e \in atBookie[c]
        /\ atBookie'[c] = atBookie[c] \ {e}
        /\ responses'[c] = responses[c] \cup {<<e, outcome>>}
        /\ \A d \in Connections : d # c => /\ atBookie'[d] = atBookie[d]
                                           /\ responses'[d] = responses[d]
    BY DEF Answer, senderVars, ClientTypeOK
  <1>2. /\ \A d \in Connections : OneResponse(d)
        /\ \A t \in IoThreads : LinkedWork(t)
    BY AddsParts
  <1>3. <<e, outcome>>[1] = e
    OBVIOUS
  <1>4. \A d \in Connections : Outstanding(d)' = Outstanding(d)
    <2>1. Outstanding(c)' = Outstanding(c)
      <3>1. \A f : f \in {r[1] : r \in responses'[c]}
                    <=> f = e \/ f \in {r[1] : r \in responses[c]}
        <4> DEFINE x == <<e, outcome>>
        <4>1. \A r : r \in responses'[c] <=> r = x \/ r \in responses[c]
          BY <1>1
        <4>2. x[1] = e
          BY <1>3
        <4> HIDE DEF x
        <4> QED BY <4>1, <4>2
      <3> QED BY <1>1, <3>1 DEF Outstanding
    <2>2. \A d \in Connections : d # c => Outstanding(d)' = Outstanding(d)
      BY <1>1 DEF Outstanding
    <2> QED BY <2>1, <2>2
  <1>5. ASSUME NEW d \in Connections PROVE OneResponse(d)'
    <2>1. CASE d = c
      <3>1. \A r \in responses[c] : r[1] # e
        BY <1>1, <1>2 DEF OneResponse
      <3>2. link[c] \notin {"none", "refused"}
        BY <1>1, <1>2 DEF OneResponse, NotConnected
      <3>3. \A r \in responses'[c] : r \in responses[c] \/ r = <<e, outcome>>
        BY <1>1
      <3>4. \A r, s \in responses'[c] : r[1] = s[1] => r = s
        BY <1>2, <1>3, <3>1, <3>3 DEF OneResponse
      <3>5. \A f \in atBookie'[c] : \A r \in responses'[c] : r[1] # f
        BY <1>1, <1>2, <1>3, <3>3 DEF OneResponse
      <3> QED BY <1>1, <1>2, <1>4, <2>1, <3>2, <3>4, <3>5 DEF OneResponse
    <2>2. CASE d # c
      BY <1>1, <1>2, <2>2 DEF OneResponse, NotConnected, Outstanding
    <2> QED BY <2>1, <2>2
  <1>6. ASSUME NEW d \in Connections, link'[d] = "open"
        PROVE  PendingMatches(d)'
    BY <1>1, <1>4, <1>6 DEF AddsInv, PendingMatches, WorksFor
  <1>7. \A t \in IoThreads : QueuedOnce(t)'
    BY <1>1, <1>4, QueuesKeptOnce
  <1>8. \A t \in IoThreads : LinkedWork(t)'
    BY <1>1, <1>2 DEF LinkedWork
  <1> QED BY <1>5, <1>6, <1>7, <1>8 DEF AddsInv, LinkedWork

(* The connection that ends takes its adds and responses along. *)
LEMMA CloseKeepsAdds ==
  ASSUME ClientTypeOK, AddsInv, NEW c \in Connections, Close(c)
  PROVE  AddsInv'
PROOF
  <1>1. /\ UNCHANGED <<sender, sentAt, pendingRequests, tasks, io>>
        /\ link[c] = "open" /\ link'[c] = "closed"
        /\ atBookie'[c] = {} /\ responses'[c] = {}
        /\ \A d \in Connections : d # c => /\ atBookie'[d] = atBookie[d]
                                           /\ responses'[d] = responses[d]
                                           /\ link'[d] = link[d]
    BY DEF Close, senderVars, ClientTypeOK
  <1>2. /\ \A d \in Connections : OneResponse(d)
        /\ \A t \in IoThreads : LinkedWork(t)
    BY AddsParts
  <1>4. /\ Outstanding(c)' = {}
        /\ \A d \in Connections : d # c => Outstanding(d)' = Outstanding(d)
    BY <1>1 DEF Outstanding
  <1>5. ASSUME NEW d \in Connections PROVE OneResponse(d)'
    <2>1. CASE d = c
      BY <1>1, <1>4, <2>1 DEF OneResponse
    <2>2. CASE d # c
      BY <1>1, <1>2, <2>2 DEF OneResponse, NotConnected, Outstanding
    <2> QED BY <2>1, <2>2
  <1>6. ASSUME NEW d \in Connections, link'[d] = "open"
        PROVE  PendingMatches(d)'
    <2>1. d # c /\ link[d] = "open"
      BY <1>1, <1>6
    <2> QED BY <1>1, <1>4, <2>1 DEF AddsInv, PendingMatches, WorksFor
  <1>7. \A t \in IoThreads : QueuedOnce(t)'
    <2>1. \A d \in Connections : Outstanding(d)' \subseteq Outstanding(d)
      BY <1>4
    <2> QED BY <1>1, <2>1, QueuesKeptOnce
  <1>8. ASSUME NEW t \in IoThreads PROVE LinkedWork(t)'
    <2>1. io[t] # Idle => io[t].connection \in Connections
      BY CallbackFields DEF ClientTypeOK
    <2> QED BY <1>1, <1>2, <2>1 DEF LinkedWork
  <1> QED BY <1>5, <1>6, <1>7, <1>8 DEF AddsInv, LinkedWork

(* An IO thread ends its callback: the add that was written is inserted,   *)
(* or the add that was answered erased.                                    *)
LEMMA CallbackKeepsAdds ==
  ASSUME ClientTypeOK, AddsInv, NEW t \in IoThreads, Insert(t) \/ AddSample(t)
  PROVE  AddsInv'
PROOF
  <1> DEFINE c == io[t].connection
             e == io[t].entry
  <1>1. /\ UNCHANGED <<link, sender, sentAt, tasks, atBookie, responses>>
        /\ io[t] # Idle /\ io' = [io EXCEPT ![t] = Idle]
        /\ \/ /\ io[t].at = "insert"
              /\ pendingRequests' = [pendingRequests EXCEPT ![c] = @ \cup {e}]
           \/ /\ io[t].at = "sample"
              /\ pendingRequests' = [pendingRequests EXCEPT ![c] = @ \ {e}]
    BY CallbackFields DEF Insert, AddSample, Remaining, senderVars
  <1>2. c \in Connections /\ io \in [IoThreads -> Callbacks]
    BY <1>1, CallbackFields DEF ClientTypeOK
  <1>3. /\ \A d \in Connections : OneResponse(d)
        /\ \A u \in IoThreads : LinkedWork(u) /\ QueuedOnce(u)
        /\ ThreadOf[c] = t /\ link[c] \in {"open", "closed"}
    BY <1>1, AddsParts DEF LinkedWork
  <1>4. /\ io'[t] = Idle
        /\ \A u \in IoThreads : u # t => io'[u] = io[u]
        /\ \A d \in Connections : d # c =>
             pendingRequests'[d] = pendingRequests[d]
        /\ pendingRequests'[c] = IF io[t].at = "insert"
                                   THEN pendingRequests[c] \cup {e}
                                   ELSE pendingRequests[c] \ {e}
    <2>1. pendingRequests \in [Connections -> SUBSET EntryIds]
      BY DEF ClientTypeOK
    <2> HIDE DEF c, e
    <2> QED BY <1>1, <1>2, <2>1
  <1>5. \A d \in Connections : Outstanding(d)' = Outstanding(d)
    BY <1>1 DEF Outstanding
  <1>6. ASSUME NEW d \in Connections PROVE OneResponse(d)'
    BY <1>1, <1>3, <1>4, <1>6 DEF OneResponse, NotConnected, Outstanding
  <1>7. ASSUME NEW d \in Connections, link'[d] = "open"
        PROVE  PendingMatches(d)'
    <2>1. PendingMatches(d) /\ ThreadOf[d] \in IoThreads
      BY <1>1, <1>7, ClientAssumption DEF AddsInv
    <2>2. CASE d = c
      <3>1. pendingRequests'[c] = Outstanding(c)
        BY <1>1, <1>3, <1>4, <2>1, <2>2 DEF PendingMatches, WorksFor
      <3>2. ~WorksFor(t, c)'
        BY <1>4 DEF WorksFor
      <3> QED BY <1>3, <1>5, <2>2, <3>1, <3>2 DEF PendingMatches, WorksFor
    <2>3. CASE d # c
      <3>1. WorksFor(ThreadOf[d], d)' <=> WorksFor(ThreadOf[d], d)
        BY <1>3, <1>4, <2>1, <2>3 DEF WorksFor
      <3>2. WorksFor(ThreadOf[d], d) => io'[ThreadOf[d]] = io[ThreadOf[d]]
        BY <1>3, <1>4, <2>1, <2>3 DEF WorksFor
      <3> QED BY <1>4, <1>5, <2>1, <2>3, <3>1, <3>2 DEF PendingMatches
    <2> QED BY <2>2, <2>3
  <1>8. \A u \in IoThreads : QueuedOnce(u)'
    BY <1>1, <1>5, QueuesKeptOnce
  <1>9. \A u \in IoThreads : LinkedWork(u)'
    BY <1>1, <1>3, <1>4 DEF LinkedWork
  <1> QED BY <1>6, <1>7, <1>8, <1>9 DEF AddsInv, LinkedWork

(* A response that is read was the only one of its add. *)
LEMMA ReadOkKeepsAdds ==
  ASSUME ClientTypeOK, AddsInv, NEW c \in Connections, NEW e \in EntryIds,
         ReadOk(c, e)
  PROVE  AddsInv' /\ e \in pendingRequests[c]
PROOF
  <1> DEFINE t == ThreadOf[c]
             x == [at |-> "sample", connection |-> c, entry |-> e]
  <1>1. /\ UNCHANGED <<link, sender, sentAt, pendingRequests, tasks, atBookie>>
        /\ io[t] = Idle /\ link[c] = "open" /\ <<e, "ok">> \in responses[c]
        /\ responses'[c] = responses[c] \ {<<e, "ok">>}
        /\ \A d \in Connections : d # c => responses'[d] = responses[d]
        /\ io' = [io EXCEPT ![t] = x]
    BY DEF ReadOk, BetweenCallbacks, senderVars, ClientTypeOK
  <1>2. /\ \A d \in Connections : OneResponse(d)
        /\ \A u \in IoThreads : LinkedWork(u)
        /\ t \in IoThreads
    BY AddsParts, ClientAssumption
  <1>3. /\ io'[t] = x /\ x # Idle /\ x.at = "sample"
        /\ x.connection = c /\ x.entry = e
        /\ \A u \in IoThreads : u # t => io'[u] = io[u]
    BY <1>1, <1>2, CallbackFields DEF ClientTypeOK
  <1> HIDE DEF x
  <1>4. <<e, "ok">>[1] = e
    OBVIOUS
  <1>5. /\ Outstanding(c)' = Outstanding(c) \ {e}
        /\ \A d \in Connections : d # c => Outstanding(d)' = Outstanding(d)
    <2>1. \A r \in responses[c] : r[1] = e <=> r = <<e, "ok">>
      BY <1>1, <1>2, <1>4 DEF OneResponse
    <2>2. e \notin atBookie[c]
      BY <1>1, <1>2, <1>4 DEF OneResponse
    <2> QED BY <1>1, <2>1, <2>2 DEF Outstanding
  <1>6. pendingRequests[c] = Outstanding(c) /\ e \in Outstanding(c)
    <2>1. PendingMatches(c) /\ ~WorksFor(t, c)
      BY <1>1 DEF AddsInv, WorksFor
    <2> QED BY <1>1, <1>4, <2>1 DEF PendingMatches, Outstanding
  <1>7. ASSUME NEW d \in Connections PROVE OneResponse(d)'
    <2>1. /\ link'[d] \in {"none", "refused"} => NotConnected(d)'
          /\ \A r \in responses'[d] : r \in responses[d]
      BY <1>1, <1>2 DEF OneResponse, NotConnected
    <2>2. \A f \in Outstanding(d)' : f < Len(sentAt'[d])
      BY <1>1, <1>2, <1>5 DEF OneResponse
    <2> QED BY <1>1, <1>2, <2>1, <2>2 DEF OneResponse
  <1>8. ASSUME NEW d \in Connections, link'[d] = "open"
        PROVE  PendingMatches(d)'
    <2>1. PendingMatches(d) /\ ThreadOf[d] \in IoThreads
      BY <1>1, <1>8, ClientAssumption DEF AddsInv
    <2>2. CASE d = c
      BY <1>1, <1>3, <1>5, <1>6, <2>2 DEF PendingMatches, WorksFor
    <2>3. CASE d # c
      <3>1. WorksFor(ThreadOf[d], d)' <=> WorksFor(ThreadOf[d], d)
        BY <1>1, <1>3, <2>1, <2>3 DEF WorksFor
      <3>2. WorksFor(ThreadOf[d], d) => io'[ThreadOf[d]] = io[ThreadOf[d]]
        BY <1>1, <1>3, <2>1, <2>3 DEF WorksFor
      <3> QED BY <1>1, <1>5, <2>1, <2>3, <3>1, <3>2 DEF PendingMatches
    <2> QED BY <2>2, <2>3
  <1>9. \A u \in IoThreads : QueuedOnce(u)'
    <2>1. \A d \in Connections : Outstanding(d)' \subseteq Outstanding(d)
      BY <1>5
    <2> QED BY <1>1, <2>1, QueuesKeptOnce
  <1>10. \A u \in IoThreads : LinkedWork(u)'
    BY <1>1, <1>2, <1>3 DEF LinkedWork
  <1> QED BY <1>6, <1>7, <1>8, <1>9, <1>10 DEF AddsInv, LinkedWork

(* An add is written when its turn comes, to the connection if there is    *)
(* still one, and is in pendingRequests_ at the end of the callback.       *)
LEMMA WriteKeepsAdds ==
  ASSUME ClientTypeOK, AddsInv, NEW t \in IoThreads, Write(t)
  PROVE  AddsInv'
PROOF
  <1> SUFFICES ASSUME NEW s, NEW c, NEW e,
                      s = tasks[t], c = Head(s)[1], e = Head(s)[2]
               PROVE  AddsInv'
    OBVIOUS
  <1> DEFINE x == [at |-> "insert", connection |-> c, entry |-> e]
  <1>1. /\ UNCHANGED <<link, sender, sentAt, pendingRequests, responses>>
        /\ io[t] = Idle /\ s # <<>>
        /\ atBookie' = IF link[c] = "open"
                         THEN [atBookie EXCEPT ![c] = @ \cup {e}]
                         ELSE atBookie
        /\ io' = [io EXCEPT ![t] = x]
        /\ tasks' = [tasks EXCEPT ![t] = Tail(s)]
    BY DEF Write, senderVars
  <1>2. /\ \A d \in Connections : OneResponse(d)
        /\ \A u \in IoThreads : LinkedWork(u) /\ QueuedOnce(u)
    BY AddsParts
  <1>3. s \in Seq(Connections \X EntryIds)
    BY DEF ClientTypeOK
  <1>4. /\ Head(s) = s[1] /\ 1 \in DOMAIN s /\ Head(s) \in Connections \X EntryIds
        /\ DOMAIN Tail(s) = 1 .. Len(s) - 1 /\ Len(s) \in Nat \ {0}
        /\ DOMAIN s = 1 .. Len(s)
        /\ \A k \in DOMAIN Tail(s) :
             /\ k \in Nat \ {0} /\ Tail(s)[k] = s[k + 1]
             /\ k + 1 \in DOMAIN s
    BY <1>1, <1>3
  <1>5. /\ c \in Connections /\ e \in EntryIds /\ Head(s) = <<c, e>>
        /\ ThreadOf[c] = t /\ e < Len(sentAt[c]) /\ e \notin Outstanding(c)
    <2>1. \A y \in Connections \X EntryIds :
            y[1] \in Connections /\ y[2] \in EntryIds /\ y = <<y[1], y[2]>>
      OBVIOUS
    <2> QED BY <1>2, <1>4, <2>1 DEF QueuedOnce
  <1>6. link[c] \in {"open", "closed"}
    <2>1. link[c] \in {"none", "open", "closed", "refused"}
      BY <1>5 DEF ClientTypeOK
    <2>2. sentAt[c] # <<>>
      <3>1. e \in Nat /\ Len(<<>>) = 0
        BY <1>5, AddTypes
      <3> QED BY <1>5, <3>1
    <2> QED BY <1>2, <1>5, <2>1, <2>2 DEF OneResponse, NotConnected
  <1>7. /\ tasks'[t] = Tail(s)
        /\ \A u \in IoThreads : u # t => tasks'[u] = tasks[u]
    BY <1>1 DEF ClientTypeOK
  <1>8. /\ io'[t] = x /\ x # Idle /\ x.at = "insert"
        /\ x.connection = c /\ x.entry = e
        /\ \A u \in IoThreads : u # t => io'[u] = io[u]
    BY <1>1, <1>5, CallbackFields DEF ClientTypeOK
  <1>9. /\ atBookie'[c] = IF link[c] = "open" THEN atBookie[c] \cup {e}
                                              ELSE atBookie[c]
        /\ \A d \in Connections : d # c => atBookie'[d] = atBookie[d]
    BY <1>1, <1>5 DEF ClientTypeOK
  <1> HIDE DEF x
  <1>10. /\ link[c] = "open" => Outstanding(c)' = Outstanding(c) \cup {e}
         /\ link[c] # "open" => Outstanding(c)' = Outstanding(c)
         /\ \A d \in Connections : d # c => Outstanding(d)' = Outstanding(d)
    BY <1>1, <1>9 DEF Outstanding
  <1>11. ASSUME NEW d \in Connections PROVE OneResponse(d)'
    <2>1. CASE d = c
      <3>1. \A f \in Outstanding(c)' : f < Len(sentAt'[c])
        BY <1>1, <1>2, <1>5, <1>10 DEF OneResponse
      <3>2. \A r \in responses[c] : r[1] # e
        BY <1>5 DEF Outstanding
      <3>3. \A f \in atBookie'[c] : \A r \in responses'[c] : r[1] # f
        BY <1>1, <1>2, <1>5, <1>9, <3>2 DEF OneResponse
      <3>4. link'[c] \notin {"none", "refused"}
        BY <1>1, <1>6
      <3> QED BY <1>1, <1>2, <1>5, <2>1, <3>1, <3>3, <3>4 DEF OneResponse
    <2>2. CASE d # c
      BY <1>1, <1>2, <1>9, <2>2 DEF OneResponse, NotConnected, Outstanding
    <2> QED BY <2>1, <2>2
  <1>12. ASSUME NEW d \in Connections, link'[d] = "open"
         PROVE  PendingMatches(d)'
    <2>1. PendingMatches(d) /\ ThreadOf[d] \in IoThreads
      BY <1>1, <1>12, ClientAssumption DEF AddsInv
    <2>2. CASE d = c
      <3>1. pendingRequests[c] = Outstanding(c)
        BY <1>1, <1>5, <2>1, <2>2 DEF PendingMatches, WorksFor
      <3>2. Outstanding(c)' = Outstanding(c) \cup {e}
        BY <1>1, <1>10, <1>12, <2>2
      <3> QED BY <1>1, <1>5, <1>8, <2>2, <3>1, <3>2
              DEF PendingMatches, WorksFor
    <2>3. CASE d # c
      <3>1. WorksFor(ThreadOf[d], d)' <=> WorksFor(ThreadOf[d], d)
        BY <1>1, <1>8, <2>1, <2>3 DEF WorksFor
      <3>2. WorksFor(ThreadOf[d], d) => io'[ThreadOf[d]] = io[ThreadOf[d]]
        BY <1>1, <1>8, <2>1, <2>3 DEF WorksFor
      <3> QED BY <1>1, <1>10, <2>1, <2>3, <3>1, <3>2 DEF PendingMatches
    <2> QED BY <2>2, <2>3
  <1>13. ASSUME NEW u \in IoThreads PROVE QueuedOnce(u)'
    <2>0. \A k \in DOMAIN tasks[u] :
            /\ tasks[u][k][1] \in Connections
            /\ tasks[u][k] = <<tasks[u][k][1], tasks[u][k][2]>>
      BY AddTypes, Zenon
    <2>1. ASSUME NEW k \in DOMAIN tasks[u], tasks[u][k] # <<c, e>>,
                 NEW d, NEW f, d = tasks[u][k][1], f = tasks[u][k][2]
          PROVE  f \notin Outstanding(d)'
      <3>1. d \in Connections /\ f \notin Outstanding(d) /\ <<d, f>> # <<c, e>>
        BY <1>2, <2>0, <2>1 DEF QueuedOnce
      <3>2. CASE d = c
        BY <1>10, <3>1, <3>2
      <3>3. CASE d # c
        BY <1>10, <3>1, <3>3
      <3> QED BY <3>2, <3>3
    <2>2. CASE u # t
      <3>1. \A k \in DOMAIN tasks[u] : tasks[u][k] # <<c, e>>
        <4>1. <<c, e>>[1] = c
          OBVIOUS
        <4> QED BY <1>2, <1>5, <2>2, <4>1 DEF QueuedOnce
      <3>2. tasks'[u] = tasks[u]
        BY <1>7, <2>2
      <3>3. \A k \in DOMAIN tasks'[u] :
              tasks'[u][k][2] \notin Outstanding(tasks[u][k][1])'
        BY <2>1, <3>1, <3>2 DEF Outstanding
      <3>4. sentAt' = sentAt /\ QueuedOnce(u)
        BY <1>1, <1>2
      <3> QED BY <3>2, <3>3, <3>4 DEF QueuedOnce
    <2>3. CASE u = t
      <3>0. /\ \A k \in DOMAIN s :
                 /\ ThreadOf[s[k][1]] = t
                 /\ s[k][2] < Len(sentAt[s[k][1]])
                 /\ \A m \in DOMAIN s : s[m] = s[k] => m = k
            /\ \A k \in DOMAIN s : s[k] # <<c, e>> => k \in DOMAIN tasks[u]
            /\ tasks[u] = s
        BY <1>2, <2>3 DEF QueuedOnce
      <3>1. \A k \in DOMAIN tasks'[u] :
              /\ k \in Nat \ {0} /\ tasks'[u][k] = s[k + 1]
              /\ k + 1 \in DOMAIN s
              /\ s[k + 1] # <<c, e>>
        <4>1. ASSUME NEW k \in DOMAIN Tail(s)
              PROVE  /\ k \in Nat \ {0} /\ Tail(s)[k] = s[k + 1]
                     /\ k + 1 \in DOMAIN s /\ k + 1 # 1
          BY <1>4
        <4>2. \A k \in DOMAIN s : s[k] = <<c, e>> => k = 1
          BY <1>4, <1>5, <3>0
        <4> QED BY <1>7, <2>3, <4>1, <4>2
      <3>2. \A k \in DOMAIN tasks'[u] :
              tasks'[u][k][2] \notin Outstanding(tasks[u][k][1])'
        BY <2>1, <3>0, <3>1 DEF Outstanding
      <3>3. \A k, m \in DOMAIN tasks'[u] :
              tasks'[u][m] = tasks'[u][k] => m = k
        <4>1. \A k, m \in Nat : k + 1 = m + 1 => k = m
          OBVIOUS
        <4> QED BY <3>0, <3>1, <4>1
      <3> QED BY <1>1, <2>3, <3>0, <3>1, <3>2, <3>3 DEF QueuedOnce
    <2> QED BY <2>2, <2>3
  <1>14. \A u \in IoThreads : LinkedWork(u)'
    BY <1>1, <1>2, <1>5, <1>6, <1>8 DEF LinkedWork
  <1> QED BY <1>11, <1>12, <1>13, <1>14 DEF AddsInv, LinkedWork

(* Every step keeps the account of the adds. *)
LEMMA AddsStep ==
  ASSUME ClientTypeOK, AddsInv, [Next]_clientVars
  PROVE  AddsInv'
PROOF
  <1> USE DEF connectionVars, senderVars, sampleVars
  <1>1. CASE UNCHANGED clientVars
    BY <1>1, AddsStay DEF clientVars
  <1>2. CASE Tick \/ ConnectionMissing \/ StartUpdate \/ Publish
    <2>1. /\ UNCHANGED <<link, sentAt, tasks, io, pendingRequests, atBookie,
                         responses>>
          /\ sender' = sender
      BY <1>2 DEF Tick, ConnectionMissing, StartUpdate, Publish
    <2> QED BY <2>1, AddsStay
  <1>3. ASSUME NEW t \in IoThreads, Merge(t) \/ Clear(t)
        PROVE  AddsInv'
    <2>1. /\ UNCHANGED <<link, sentAt, tasks, io, pendingRequests, atBookie,
                         responses>>
          /\ sender' = sender
      BY <1>3 DEF Merge, Clear
    <2> QED BY <2>1, AddsStay
  <1>4. ASSUME NEW c \in Connections, Aquire(c)
        PROVE  AddsInv'
    <2>1. /\ UNCHANGED <<link, sentAt, tasks, io, pendingRequests, atBookie,
                         responses>>
          /\ sender[c] = "aquire" /\ sender' = [sender EXCEPT ![c] = "sleep"]
      BY <1>4 DEF Aquire
    <2>2. \A d \in Connections : sender[d] = "none" => sender'[d] = "none"
      BY <2>1 DEF ClientTypeOK
    <2> QED BY <2>1, <2>2, AddsStay
  <1>5. ASSUME NEW c \in Connections, NEW e \in EntryIds, ReadError(c, e)
        PROVE  AddsInv'
    <2>1. /\ UNCHANGED <<link, sentAt, tasks, io, pendingRequests, atBookie,
                         responses>>
          /\ sender' = sender
      BY <1>5 DEF ReadError
    <2> QED BY <2>1, AddsStay
  <1> QED
    BY <1>1, <1>2, <1>3, <1>4, <1>5, WriteKeepsAdds, CallbackKeepsAdds,
       ConnectKeepsAdds, HandOverKeepsAdds, CloseKeepsAdds, ReadOkKeepsAdds,
       AnswerKeepsAdds
    DEF Next

(* There are no adds to begin with. *)
LEMMA AddsInit ==
  Init => AddsInv
PROOF
  <1> SUFFICES ASSUME Init PROVE AddsInv
    OBVIOUS
  <1>1. ASSUME NEW c \in Connections
        PROVE  OneResponse(c) /\ link[c] # "open"
    <2>1. /\ link[c] = "none" /\ sender[c] = "none" /\ sentAt[c] = <<>>
          /\ pendingRequests[c] = {} /\ atBookie[c] = {} /\ responses[c] = {}
      BY DEF Init
    <2> QED BY <2>1 DEF OneResponse, NotConnected, Outstanding
  <1>2. ASSUME NEW t \in IoThreads
        PROVE  QueuedOnce(t) /\ io[t] = Idle
    <2>1. tasks[t] = <<>> /\ io[t] = Idle
      BY DEF Init
    <2>2. DOMAIN tasks[t] = {}
      BY <2>1
    <2> QED BY <2>1, <2>2 DEF QueuedOnce
  <1> QED BY <1>1, <1>2 DEF AddsInv

(* The account of the adds is kept throughout. *)
LEMMA AddsInvariant ==
  Spec => [](ClientTypeOK /\ PermitIsForAnEntry /\ AddsInv)
PROOF
  <1>1. Init => ClientTypeOK /\ PermitIsForAnEntry /\ AddsInv
    BY ClientTypeInit, AddsInit
  <1>2. ClientTypeOK /\ PermitIsForAnEntry /\ AddsInv /\ [Next]_clientVars
          => (ClientTypeOK /\ PermitIsForAnEntry /\ AddsInv)'
    BY ClientTypeStep, AddsStep
  <1> QED BY <1>1, <1>2, PTL DEF Spec

(* The variables keep their types.  That the numbers of the entries are    *)
(* below their bound is what the permit is for: a thread takes one only    *)
(* when it has an entry left to make.                                      *)
THEOREM ClientTypeCorrect == Spec => []ClientTypeOK
PROOF
  BY AddsInvariant, PTL

(* Between two callbacks of an open connection, pendingRequests_ is what   *)
(* the bookie and the network still hold: nothing is erased before its     *)
(* response and nothing is left after it.                                  *)
THEOREM PendingRequestsAreOutstanding == Spec => []PendingIsOutstanding
PROOF
  <1>1. ClientTypeOK /\ AddsInv => PendingIsOutstanding
    <2> SUFFICES ASSUME AddsInv, NEW c \in Connections,
                        link[c] = "open", io[ThreadOf[c]] = Idle
                 PROVE  pendingRequests[c] = Outstanding(c)
      BY DEF PendingIsOutstanding, Outstanding
    <2> QED BY DEF AddsInv, PendingMatches, WorksFor
  <1> QED BY <1>1, AddsInvariant, PTL

(* read always finds the request of the response it handles.  A response   *)
(* may be on its way before writeAndFlush has returned to the code that    *)
(* inserts the request; but both run on the IO thread, so the callback     *)
(* that inserts has ended when the one that reads begins.                  *)
THEOREM ResponsesFindTheirAdds == Spec => ResponseFindsItsAdd
PROOF
  <1>1. ClientTypeOK /\ AddsInv /\ [Next]_clientVars
          => [\A c \in Connections, e \in EntryIds :
                ReadOk(c, e) => e \in pendingRequests[c]]_clientVars
    BY ReadOkKeepsAdds
  <1> QED BY <1>1, AddsInvariant, PTL DEF Spec, ResponseFindsItsAdd

-----------------------------------------------------------------------------
(* The rate *)

(* The types of what the rate of a connection depends on. *)
LEMMA RateTypes ==
  ASSUME ClientTypeOK, NEW c \in Connections
  PROVE  /\ sentAt[c] \in Seq(Nat) /\ Len(sentAt[c]) \in Nat
         /\ DOMAIN sentAt[c] = 1 .. Len(sentAt[c])
         /\ \A i \in DOMAIN sentAt[c] : i \in Nat /\ sentAt[c][i] \in Nat
         /\ clock \in Nat /\ wake[c] \in Nat /\ limiter[c] \in Limiters
         /\ Virtual(limiter[c]) \in Int /\ Granted(c) \in Nat
         /\ MaxPermits * Interval \in Int /\ Interval \in Nat
PROOF
  <1>1. /\ sentAt[c] \in Seq(Nat) /\ clock \in Nat /\ wake[c] \in Nat
        /\ limiter[c] \in Limiters
    BY DEF ClientTypeOK
  <1>2. Virtual(limiter[c]) \in Int
    BY <1>1, SpendTakesAnInterval
  <1>3. MaxPermits * Interval \in Int /\ Interval \in Nat
    BY LimiterConstants, Intervals
  <1>4. Granted(c) \in Nat
    BY <1>1 DEF Granted
  <1> QED BY <1>1, <1>2, <1>3, <1>4

(* Time that passes gives a connection no entries. *)
LEMMA RateStays ==
  ASSUME ClientTypeOK, NEW c \in Connections, RateOf(c),
         sentAt'[c] = sentAt[c], limiter'[c] = limiter[c],
         wake'[c] = wake[c], sender'[c] = "sleep" <=> sender[c] = "sleep",
         clock' \in Nat, clock <= clock'
  PROVE  RateOf(c)'
PROOF
  <1>1. Granted(c)' = Granted(c)
    BY DEF Granted
  <1>2. SentInTurn(c)'
    <2>1. \A i \in DOMAIN sentAt[c] :
            sentAt[c][i] \in Nat /\ sentAt[c][i] <= clock
      BY RateTypes DEF RateOf, SentInTurn
    <2>2. \A i \in DOMAIN sentAt[c] : sentAt[c][i] <= clock'
      BY RateTypes, <2>1
    <2> QED BY <2>2 DEF RateOf, SentInTurn
  <1>3. Virtual(limiter[c])' = Virtual(limiter[c])
    BY DEF Virtual
  <1>4. PermitsTakeTime(c)'
    BY <1>1, <1>3, Zenon DEF RateOf, PermitsTakeTime
  <1>5. SleepTakesTime(c)'
    BY <1>3, Zenon DEF RateOf, SleepTakesTime
  <1>6. StretchTakesTime(c)'
    BY Zenon DEF RateOf, StretchTakesTime
  <1> QED BY <1>2, <1>4, <1>5, <1>6 DEF RateOf

(* A permit is paid for with an interval. *)
LEMMA AquireKeepsRate ==
  ASSUME ClientTypeOK, NEW c \in Connections, RateOf(c), Aquire(c)
  PROVE  RateOf(c)'
PROOF
  <1> DEFINE s == sentAt[c]
             n == Len(s)
             v == Virtual(limiter[c])
             r == Virtual(Refill(limiter[c], clock))
             w == Virtual(limiter'[c])
             m == MaxPermits * Interval
  <1>1. /\ sentAt' = sentAt /\ clock' = clock
        /\ limiter'[c] = Spend(limiter[c], clock)
        /\ wake'[c] = FreeAt(limiter[c], clock)
        /\ sender[c] = "aquire" /\ sender'[c] = "sleep"
    BY DEF Aquire, ClientTypeOK
  <1>2. /\ DOMAIN s = 1 .. n /\ n \in Nat
        /\ \A i \in DOMAIN s : i \in Nat /\ s[i] \in Nat
        /\ clock \in Nat /\ limiter[c] \in Limiters
        /\ v \in Int /\ m \in Int /\ Interval \in Nat
    BY RateTypes
  <1>3. /\ v <= r /\ clock <= r + m /\ r \in Int /\ w = r + Interval
        /\ w <= wake'[c] + Interval
    BY <1>1, <1>2, RefillKeepsTime, SpendTakesAnInterval
  <1>4. Granted(c) = n /\ Granted(c)' = n + 1
    BY <1>1 DEF Granted
  <1>5. ASSUME NEW i \in DOMAIN s
        PROVE  s[i] + ((n + 1) - i) * Interval <= w + m
    <2>1. /\ i \in Nat /\ s[i] \in Nat /\ i <= n
          /\ n - i \in Int /\ (n - i) * Interval \in Int
          /\ ((n + 1) - i) * Interval = (n - i) * Interval + Interval
      <3>1. i \in Nat /\ i <= n /\ (n + 1) - i = (n - i) + 1 /\ n - i \in Int
        BY <1>2
      <3>2. ((n - i) + 1) * Interval = (n - i) * Interval + 1 * Interval
        <4> SUFFICES ASSUME NEW d \in Int
                     PROVE  (d + 1) * Interval = d * Interval + 1 * Interval
          BY <3>1
        <4> QED BY Intervals
      <3>3. 1 * Interval = Interval /\ (n - i) * Interval \in Int
        BY <3>1, Intervals
      <3> QED BY <1>2, <3>1, <3>2, <3>3
    <2> DEFINE k == (n - i) * Interval
               x == s[i]
    <2>2. /\ x \in Int /\ k \in Int /\ Interval \in Int /\ clock \in Int
          /\ v \in Int /\ r \in Int /\ w \in Int /\ m \in Int
          /\ v <= r /\ clock <= r + m /\ w = r + Interval
      BY <1>2, <1>3, <2>1
    <2>3. CASE i = n
      <3>1. x <= clock
        BY DEF RateOf, SentInTurn
      <3>2. k = 0
        BY <1>2, <2>1, <2>3
      <3> HIDE DEF k, x, v, r, w, m
      <3>3. x + k <= r + m
        BY <2>2, <3>1, <3>2
      <3>4. x + (k + Interval) <= w + m
        BY <2>2, <3>3
      <3> QED BY <2>1, <3>4 DEF k, x
    <2>4. CASE i # n
      <3>1. x + k <= v + m
        <4>1. i < Granted(c)
          BY <1>2, <1>4, <2>1, <2>4
        <4>2. x + (Granted(c) - i) * Interval <= v + m
          BY <4>1, Zenon DEF RateOf, PermitsTakeTime
        <4> QED BY <1>4, <4>2
      <3> HIDE DEF k, x, v, r, w, m
      <3>2. x + k <= r + m
        BY <2>2, <3>1
      <3>3. x + (k + Interval) <= w + m
        BY <2>2, <3>2
      <3> QED BY <2>1, <3>3 DEF k, x
    <2> QED BY <2>3, <2>4
  <1>6. \A i \in DOMAIN sentAt'[c] :
          sentAt'[c][i] + (Granted(c)' - i) * Interval
            <= Virtual(limiter[c])' + MaxPermits * Interval
    BY <1>1, <1>4, <1>5 DEF Virtual
  <1>7. Virtual(limiter[c])' <= wake'[c] + Interval
    BY <1>3 DEF Virtual
  <1>8. SentInTurn(c)' /\ StretchTakesTime(c)'
    BY <1>1, Zenon DEF RateOf, SentInTurn, StretchTakesTime
  <1> QED
    BY <1>6, <1>7, <1>8, Zenon DEF RateOf, PermitsTakeTime, SleepTakesTime

(* An entry is handed over when its permit is due. *)
LEMMA HandOverKeepsRate ==
  ASSUME ClientTypeOK, NEW c \in Connections, RateOf(c), HandOver(c)
  PROVE  RateOf(c)'
PROOF
  <1> DEFINE s == sentAt[c]
             n == Len(s)
             v == Virtual(limiter[c])
             m == MaxPermits * Interval
  <1>1. /\ sentAt'[c] = Append(s, clock) /\ clock' = clock
        /\ limiter' = limiter /\ clock >= wake[c]
        /\ sender[c] = "sleep" /\ sender'[c] = "aquire"
    BY DEF HandOver, SleptEnough, ClientTypeOK
  <1>2. /\ s \in Seq(Nat) /\ DOMAIN s = 1 .. n /\ n \in Nat
        /\ \A i \in DOMAIN s : i \in Nat /\ s[i] \in Nat
        /\ clock \in Nat /\ wake[c] \in Nat
        /\ v \in Int /\ m \in Int /\ Interval \in Nat
    BY RateTypes
  <1>3. Granted(c) = n + 1 /\ Granted(c)' = n + 1
    BY <1>1, <1>2 DEF Granted
  <1>4. /\ DOMAIN sentAt'[c] = 1 .. n + 1 /\ sentAt'[c][n + 1] = clock
        /\ \A i \in DOMAIN s : sentAt'[c][i] = s[i]
        /\ \A i \in DOMAIN sentAt'[c] : i # n + 1 => i \in DOMAIN s
    BY <1>1, <1>2
  <1>5. \A i \in DOMAIN sentAt'[c] : sentAt'[c][i] <= clock
    <2>1. \A i \in DOMAIN s : s[i] <= clock
      BY DEF RateOf, SentInTurn
    <2> SUFFICES ASSUME NEW i \in DOMAIN sentAt'[c]
                 PROVE  sentAt'[c][i] <= clock
      OBVIOUS
    <2>2. CASE i = n + 1
      BY <1>2, <1>4, <2>2
    <2>3. CASE i # n + 1
      BY <1>4, <2>1, <2>3
    <2> QED BY <2>2, <2>3
  <1>6. ASSUME NEW i \in DOMAIN sentAt'[c], NEW j \in DOMAIN sentAt'[c], i <= j
        PROVE  sentAt'[c][i] <= sentAt'[c][j]
    <2>1. CASE j = n + 1
      BY <1>4, <1>5, <2>1
    <2>2. CASE j # n + 1
      <3>1. i \in DOMAIN s /\ j \in DOMAIN s
        BY <1>2, <1>4, <1>6, <2>2
      <3>2. s[i] <= s[j]
        BY <1>6, <3>1 DEF RateOf, SentInTurn
      <3> QED BY <1>4, <3>1, <3>2
    <2> QED BY <2>1, <2>2
  <1>7. ASSUME NEW i \in DOMAIN s
        PROVE  s[i] + ((n + 1) - i) * Interval <= v + m
    <2>1. i < Granted(c)
      BY <1>2, <1>3
    <2>2. s[i] + (Granted(c) - i) * Interval <= v + m
      BY <2>1, Zenon DEF RateOf, PermitsTakeTime
    <2> QED BY <1>3, <2>2
  <1>8. ASSUME NEW i \in DOMAIN s
        PROVE  ((n + 1) - i) * Interval
                 <= (clock - s[i]) + (MaxPermits + 1) * Interval
    <2>1. v <= wake[c] + Interval
      BY <1>1 DEF RateOf, SleepTakesTime
    <2>2. (MaxPermits + 1) * Interval = m + Interval
      BY LimiterConstants, Intervals
    <2> DEFINE g == ((n + 1) - i) * Interval
               x == s[i]
    <2>3. g \in Int
      <3>1. (n + 1) - i \in Int
        BY <1>2
      <3> QED BY <3>1, Intervals
    <2>4. /\ x \in Int /\ Interval \in Int /\ clock \in Int
          /\ v \in Int /\ m \in Int /\ wake[c] \in Int /\ wake[c] <= clock
      BY <1>1, <1>2
    <2>a. x + g <= v + m
      BY <1>7, Zenon
    <2>5. g <= (clock - x) + (m + Interval)
      <3> HIDE DEF g, x, v, m
      <3> QED BY <2>1, <2>3, <2>4, <2>a
    <2> QED BY <2>2, <2>5
  <1>9. ASSUME NEW i \in DOMAIN sentAt'[c], NEW j \in DOMAIN sentAt'[c], i < j
        PROVE  (j - i) * Interval <= (sentAt'[c][j] - sentAt'[c][i])
                                       + (MaxPermits + 1) * Interval
    <2>1. i \in DOMAIN s
      BY <1>2, <1>4, <1>9
    <2>2. CASE j = n + 1
      BY <1>4, <1>8, <2>1, <2>2
    <2>3. CASE j # n + 1
      <3>1. j \in DOMAIN s
        BY <1>4, <2>3
      <3>2. (j - i) * Interval <= (s[j] - s[i]) + (MaxPermits + 1) * Interval
        BY <1>9, <2>1, <3>1, Zenon DEF RateOf, StretchTakesTime
      <3> QED BY <1>4, <2>1, <3>1, <3>2
    <2> QED BY <2>2, <2>3
  <1>10. \A i \in DOMAIN sentAt'[c] :
           i < Granted(c)' =>
             sentAt'[c][i] + (Granted(c)' - i) * Interval
               <= Virtual(limiter[c])' + MaxPermits * Interval
    <2> SUFFICES ASSUME NEW i \in DOMAIN sentAt'[c], i < n + 1
                 PROVE  sentAt'[c][i] + ((n + 1) - i) * Interval
                          <= Virtual(limiter[c])' + MaxPermits * Interval
      BY <1>3
    <2>1. i \in DOMAIN s
      BY <1>2, <1>4
    <2> QED BY <1>1, <1>4, <1>7, <2>1 DEF Virtual
  <1>11. SentInTurn(c)'
    BY <1>1, <1>5, <1>6 DEF SentInTurn
  <1>12. StretchTakesTime(c)'
    BY <1>9 DEF StretchTakesTime
  <1>13. SleepTakesTime(c)'
    BY <1>1 DEF SleepTakesTime
  <1> QED BY <1>10, <1>11, <1>12, <1>13, Zenon DEF RateOf, PermitsTakeTime

(* Every step keeps the rate. *)
LEMMA RateStep ==
  ASSUME ClientTypeOK, AddsInv, RateInv, [Next]_clientVars
  PROVE  RateInv'
PROOF
  <1> SUFFICES ASSUME NEW c \in Connections PROVE RateOf(c)'
    BY DEF RateInv
  <1>1. RateOf(c) /\ clock \in Nat
    BY DEF RateInv, ClientTypeOK
  <1> DEFINE Stays ==
        /\ sentAt'[c] = sentAt[c] /\ limiter'[c] = limiter[c]
        /\ wake'[c] = wake[c] /\ (sender'[c] = "sleep" <=> sender[c] = "sleep")
        /\ clock' \in Nat /\ clock <= clock'
  <1>2. ASSUME Stays PROVE RateOf(c)'
    BY <1>1, <1>2, RateStays
  <1> USE DEF connectionVars, senderVars, sampleVars
  <1>3. CASE UNCHANGED clientVars
    BY <1>1, <1>2, <1>3 DEF clientVars
  <1>4. CASE Tick
    BY <1>1, <1>2, <1>4 DEF Tick
  <1>5. CASE ConnectionMissing \/ StartUpdate \/ Publish
    BY <1>1, <1>2, <1>5 DEF ConnectionMissing, StartUpdate, Publish
  <1>6. ASSUME NEW t \in IoThreads,
               Write(t) \/ Insert(t) \/ AddSample(t) \/ Merge(t) \/ Clear(t)
        PROVE  RateOf(c)'
    BY <1>1, <1>2, <1>6 DEF Write, Insert, AddSample, Merge, Clear
  <1>7. ASSUME NEW d \in Connections,
               TransportActive(d) \/ ConnectFails(d) \/ Close(d)
        PROVE  RateOf(c)'
    <2>0. link[d] = "none" => sender[d] = "none"
      BY DEF AddsInv, OneResponse, NotConnected
    <2>1. sender'[c] = "sleep" <=> sender[c] = "sleep"
      BY <1>7, <2>0 DEF TransportActive, ConnectFails, Close, ClientTypeOK
    <2> QED BY <1>1, <1>2, <1>7, <2>1 DEF TransportActive, ConnectFails, Close
  <1>8. ASSUME NEW d \in Connections, Aquire(d) \/ HandOver(d)
        PROVE  RateOf(c)'
    <2>1. CASE d = c
      BY <1>1, <1>8, <2>1, AquireKeepsRate, HandOverKeepsRate
    <2>2. CASE d # c
      BY <1>1, <1>2, <1>8, <2>2 DEF Aquire, HandOver, ClientTypeOK
    <2> QED BY <2>1, <2>2
  <1>9. ASSUME NEW d \in Connections, NEW e \in EntryIds,
               \/ ReadOk(d, e) \/ ReadError(d, e)
               \/ \E outcome \in {"ok", "error"} : Answer(d, e, outcome)
        PROVE  RateOf(c)'
    BY <1>1, <1>2, <1>9 DEF ReadOk, ReadError, Answer
  <1> QED
    BY <1>3, <1>4, <1>5, <1>6, <1>7, <1>8, <1>9 DEF Next

(* Nothing was handed over to begin with. *)
LEMMA RateInit ==
  Init => RateInv
PROOF
  <1> SUFFICES ASSUME Init, NEW c \in Connections PROVE RateOf(c)
    BY DEF RateInv
  <1>1. sentAt[c] = <<>> /\ sender[c] = "none"
    BY DEF Init
  <1>2. DOMAIN sentAt[c] = {}
    BY <1>1
  <1> QED
    BY <1>1, <1>2 DEF RateOf, SentInTurn, PermitsTakeTime, SleepTakesTime,
                      StretchTakesTime

(* In no stretch of time does a connection hand over more entries than the *)
(* rate allows, the stored permits, one on credit and one that was granted *)
(* before: for any rate and any number of connections that share it, and   *)
(* however late a thread wakes up.                                         *)
THEOREM TheRateIsKept == Spec => []RateIsKept
PROOF
  <1>1. Init => RateInv
    BY RateInit
  <1>2. ClientTypeOK /\ AddsInv /\ RateInv /\ [Next]_clientVars => RateInv'
    BY RateStep
  <1>3. ClientTypeOK /\ RateInv => RateIsKept
    <2> SUFFICES ASSUME ClientTypeOK, RateInv, NEW c \in Connections,
                        NEW i \in DOMAIN sentAt[c],
                        NEW j \in DOMAIN sentAt[c], i <= j
                 PROVE  j - i + 1 <= MaxPermits + 2
                          + (sentAt[c][j] - sentAt[c][i]) \div Interval
      BY DEF RateIsKept
    <2> DEFINE d == sentAt[c][j] - sentAt[c][i]
               q == d \div Interval
               n == j - i
               p == q + MaxPermits + 2
    <2>1. /\ RateOf(c) /\ i \in Nat /\ j \in Nat
          /\ sentAt[c][i] \in Nat /\ sentAt[c][j] \in Nat
      BY RateTypes DEF RateInv
    <2>2. d \in Nat
      BY <2>1 DEF RateOf, SentInTurn
    <2>3. Interval \in Nat \ {0} /\ MaxPermits \in Nat
      BY LimiterConstants
    <2>4. q \in Nat /\ d < q * Interval + Interval
      <3> HIDE DEF d
      <3> QED BY <2>2, <2>3, Divided
    <2>5. i < j => n * Interval <= d + (MaxPermits + 1) * Interval
      BY <2>1, Zenon DEF RateOf, StretchTakesTime
    <2>6. n \in Nat /\ (i = j => n = 0) /\ (i # j => i < j)
      BY <2>1
    <2> HIDE DEF d, q, n
    <2>7. n + 1 <= p
      <3>1. p \in Int
        BY <2>3, <2>4
      <3>2. p * Interval = q * Interval + Interval
                             + (MaxPermits + 1) * Interval
        BY <2>3, <2>4
      <3>3. p <= n => p * Interval <= n * Interval
        BY <2>6, <3>1, Intervals
      <3>4. /\ q * Interval \in Int /\ n * Interval \in Int
            /\ (MaxPermits + 1) * Interval \in Int
        BY <2>3, <2>4, <2>6, Intervals
      <3>5. CASE i = j
        BY <2>3, <2>4, <2>6, <3>5
      <3>6. CASE i # j
        <4>1. n * Interval < p * Interval
          <5> DEFINE a == n * Interval
                     b == q * Interval
                     g == (MaxPermits + 1) * Interval
          <5>1. /\ a <= d + g /\ d < b + Interval
                /\ a \in Int /\ b \in Int /\ g \in Int
            BY <2>4, <2>5, <2>6, <3>4, <3>6
          <5>2. p * Interval = b + Interval + g
            BY <3>2
          <5> HIDE DEF a, b, g, p
          <5>3. a < p * Interval
            BY <2>2, <2>3, <5>1, <5>2
          <5> QED BY <5>3 DEF a
        <4> HIDE DEF p
        <4>2. p * Interval \in Int
          BY <3>1, Intervals
        <4>3. ~(p <= n)
          <5> DEFINE a == n * Interval
                     b == p * Interval
          <5>1. a < b /\ a \in Int /\ b \in Int /\ (p <= n => b <= a)
            BY <3>3, <3>4, <4>1, <4>2
          <5> HIDE DEF a, b
          <5> QED BY <5>1
        <4> QED BY <2>6, <3>1, <4>3
      <3> QED BY <3>5, <3>6
    <2>8. n + 1 = j - i + 1
      BY DEF n
    <2>9. p = MaxPermits + 2 + (sentAt[c][j] - sentAt[c][i]) \div Interval
      BY <2>3, <2>4 DEF q, d
    <2> HIDE DEF p
    <2> QED BY <2>7, <2>8, <2>9
  <1> QED BY <1>1, <1>2, <1>3, AddsInvariant, PTL DEF Spec

-----------------------------------------------------------------------------
(* The rate that was asked for *)

(* A quotient is the largest number whose product fits. *)
LEMMA FitsQuotient ==
  ASSUME NEW a \in Nat, NEW b \in Nat \ {0}, NEW q \in Nat, q * b <= a
  PROVE  q <= a \div b
PROOF
  <1> DEFINE p == a \div b
  <1>1. p \in Nat /\ a < p * b + b
    BY Divided
  <1> HIDE DEF p
  <1>2. ASSUME p < q PROVE FALSE
    <2>1. PICK n \in Nat : q = p + 1 + n
      <3>1. q - p - 1 \in Nat /\ q = p + 1 + (q - p - 1)
        BY <1>1, <1>2
      <3> QED BY <3>1
    <2>2. q * b = p * b + b + n * b
      BY <1>1, <2>1
    <2>3. n * b \in Nat /\ p * b \in Nat
      BY <1>1
    <2> QED BY <1>1, <2>2, <2>3
  <1> QED BY <1>1, <1>2

(* Products grow with their factors. *)
LEMMA ProductsGrow ==
  ASSUME NEW a \in Nat, NEW b \in Nat, NEW c \in Nat, a <= b
  PROVE  c * a <= c * b /\ a * c <= b * c
PROOF
  <1>1. PICK n \in Nat : b = a + n
    <2>1. b - a \in Nat /\ b = a + (b - a)
      OBVIOUS
    <2> QED BY <2>1
  <1>2. c * b = c * a + c * n /\ b * c = a * c + n * c
    BY <1>1
  <1>3. c * n \in Nat /\ n * c \in Nat /\ c * a \in Nat /\ a * c \in Nat
    OBVIOUS
  <1> QED BY <1>2, <1>3

(* What is cut off an interval is less than what is left. *)
LEMMA IntervalsAreCut ==
  /\ Second * Shares \in Nat \ {0}
  /\ Rate \in Nat \ {0}
  /\ Rate * Interval <= Second * Shares
  /\ Second * Shares <= 2 * Rate * Interval
PROOF
  <1>1. /\ Second \in Nat \ {0} /\ Rate \in Nat \ {0} /\ Shares \in Nat \ {0}
    BY RateAssumption
  <1>2. Second * Shares \in Nat \ {0}
    BY <1>1
  <1> DEFINE a == Second * Shares
             q == a \div Rate
  <1>3. /\ q \in Nat /\ q * Rate <= a /\ a < q * Rate + Rate
    BY <1>1, <1>2, Divided
  <1>4. q \in Nat \ {0}
    BY LimiterConstants DEF Interval
  <1> HIDE DEF a, q
  <1>5. 1 * Rate <= q * Rate
    BY <1>1, <1>4, ProductsGrow
  <1>6. q * Rate = Rate * q /\ 2 * Rate * q = Rate * q + Rate * q
        /\ 1 * Rate = Rate /\ Rate * q \in Nat /\ a \in Nat
    BY <1>1, <1>2, <1>4 DEF a
  <1>7. Rate * q <= a /\ a <= 2 * Rate * q
    BY <1>1, <1>3, <1>5, <1>6
  <1> QED BY <1>1, <1>2, <1>7 DEF a, q, Interval

(* The whole microseconds of an interval keep a connection below twice the *)
(* rate it was asked for, and the stored permits and the two at the ends   *)
(* of the stretch: for any rate the limiter accepts.                       *)
THEOREM TheRateIsAtMostDoubled == Spec => []RateIsAtMostDoubled
PROOF
  <1>1. ClientTypeOK /\ RateInv /\ RateIsKept => RateIsAtMostDoubled
    <2> SUFFICES ASSUME ClientTypeOK, RateInv, RateIsKept,
                        NEW c \in Connections,
                        NEW i \in DOMAIN sentAt[c],
                        NEW j \in DOMAIN sentAt[c], i <= j
                 PROVE  j - i + 1 <= MaxPermits + 2
                          + (2 * Rate * (sentAt[c][j] - sentAt[c][i]))
                              \div (Second * Shares)
      BY DEF RateIsAtMostDoubled
    <2> DEFINE d == sentAt[c][j] - sentAt[c][i]
               q == d \div Interval
               a == Second * Shares
               r == Rate
               n == Interval
               p == (2 * r * d) \div a
    <2>1. /\ RateOf(c) /\ i \in Nat /\ j \in Nat
          /\ sentAt[c][i] \in Nat /\ sentAt[c][j] \in Nat
      BY RateTypes DEF RateInv
    <2>2. d \in Nat
      BY <2>1 DEF RateOf, SentInTurn
    <2>3. n \in Nat \ {0} /\ MaxPermits \in Nat
      BY LimiterConstants
    <2>4. /\ a \in Nat \ {0} /\ r \in Nat \ {0} /\ a <= 2 * r * n
      BY IntervalsAreCut
    <2>5. j - i + 1 <= MaxPermits + 2 + q
      BY DEF RateIsKept
    <2> HIDE DEF d, a, r, n
    <2>6. q \in Nat /\ q * n <= d
      BY <2>2, <2>3, Divided DEF n
    <2> HIDE DEF q
    <2>7. 2 * r \in Nat /\ 2 * r * n \in Nat /\ q * n \in Nat
          /\ 2 * r * d \in Nat
      BY <2>2, <2>3, <2>4, <2>6
    <2>8. q * a <= q * (2 * r * n)
      BY <2>4, <2>6, <2>7, ProductsGrow
    <2>9. (2 * r) * (q * n) <= (2 * r) * d
      BY <2>2, <2>6, <2>7, ProductsGrow
    <2>10. \A x, y, z \in Nat : x * (2 * y * z) = (2 * y) * (x * z)
      OBVIOUS
    <2>11. q * (2 * r * n) = (2 * r) * (q * n)
      BY <2>3, <2>4, <2>6, <2>10
    <2>12. q * a <= 2 * r * d
      <3>1. q * a \in Nat /\ (2 * r) * (q * n) \in Nat
        BY <2>4, <2>6, <2>7
      <3> QED BY <2>7, <2>8, <2>9, <2>11, <3>1
    <2>13. q <= p
      BY <2>4, <2>6, <2>7, <2>12, FitsQuotient
    <2>14. p \in Nat
      BY <2>4, <2>7, Divided
    <2>15. p = (2 * Rate * (sentAt[c][j] - sentAt[c][i]))
                 \div (Second * Shares)
      BY DEF d, a, r
    <2> HIDE DEF p
    <2>16. j - i + 1 <= MaxPermits + 2 + p
      BY <2>1, <2>3, <2>5, <2>6, <2>13, <2>14
    <2> QED BY <2>15, <2>16
  <1>2. Init => RateInv
    BY RateInit
  <1>3. ClientTypeOK /\ AddsInv /\ RateInv /\ [Next]_clientVars => RateInv'
    BY RateStep
  <1> QED BY <1>1, <1>2, <1>3, AddsInvariant, TheRateIsKept, PTL DEF Spec

-----------------------------------------------------------------------------
(* Sums over a set of threads *)

(* What the histograms of some threads hold together. *)
Total(f, S) == MapThenSumSet(LAMBDA t : f[t], S)

(* The element a fold takes first, and what it computes for a set from     *)
(* what it has for the set without that element.                           *)
First(U) == CHOOSE x \in U : TRUE

Partial(f, g, U) == IF U = {} THEN 0 ELSE f[First(U)] + g[U \ {First(U)}]

(* g has the sum of f over every subset of S, as the fold computes it.     *)
IsTally(f, S, g) == g = [U \in SUBSET S |-> Partial(f, g, U)]

(* It is an element. *)
LEMMA FirstIn == ASSUME NEW U, U # {} PROVE First(U) \in U
PROOF BY DEF First

(* Induction over the subsets of a finite set, which says of a set Q of    *)
(* subsets what an induction theorem says of a predicate: a subset that is *)
(* not in Q has no minimal one, whatever Q is.                             *)
LEMMA SubsetInduction ==
  ASSUME NEW S, IsFiniteSet(S), NEW Q,
         \A T \in SUBSET S : (\A U \in SUBSET T : U # T => U \in Q) => T \in Q
  PROVE  SUBSET S \subseteq Q
PROOF
  <1> DEFINE B == {T \in SUBSET S : T \notin Q}
             R == StrictSubsetOrdering(S)
  <1>1. IsWellFoundedOn(R, SUBSET S)
    BY FS_StrictSubsetOrderingWellFounded, FS_FiniteSubsetsOfFinite, Zenon
  <1> SUFFICES ASSUME B # {} PROVE FALSE
    OBVIOUS
  <1>2. PICK T \in B : \A U \in B : ~(<<U, T>> \in R)
    <2>1. B \subseteq SUBSET S
      OBVIOUS
    <2>2. B # {}
      OBVIOUS
    <2> HIDE DEF B, R
    <2>3. \E x \in B : \A y \in B : ~(<<y, x>> \in R)
      BY <1>1, <2>1, <2>2, WFMin
    <2> QED BY <2>3
  <1>3. ASSUME NEW U \in SUBSET T, U # T PROVE U \in Q
    <2>1. U \in SUBSET S /\ T \in SUBSET S
      OBVIOUS
    <2>2. <<U, T>> \in R
      BY <1>3, <2>1 DEF StrictSubsetOrdering
    <2> QED BY <1>2, <2>1, <2>2
  <1> QED BY <1>3

(* The recursive definition has a solution.  One that is right for the     *)
(* subsets of up to some size gives one that is right for the next size.   *)
LEMMA TallyExists ==
  ASSUME NEW f, NEW S, IsFiniteSet(S)
  PROVE  \E g : IsTally(f, S, g)
PROOF
  <1> DEFINE Upto(T, g) ==
        \A U \in SUBSET S :
          Cardinality(U) <= Cardinality(T) => g[U] = Partial(f, g, U)
             Q == {T \in SUBSET S : \E g : Upto(T, g)}
  <1>0. \A U \in SUBSET S : IsFiniteSet(U) /\ Cardinality(U) \in Nat
    BY FS_Subset, FS_CardinalityType
  <1>1. ASSUME NEW T \in SUBSET S, \A U \in SUBSET T : U # T => U \in Q
        PROVE  T \in Q
    <2>1. CASE T = {}
      <3> DEFINE z == [U \in SUBSET S |-> 0]
      <3>1. ASSUME NEW U \in SUBSET S, Cardinality(U) <= Cardinality(T)
            PROVE  z[U] = Partial(f, z, U)
        <4>1. Cardinality(U) = 0
          BY <1>0, <2>1, <3>1, FS_EmptySet
        <4>2. U = {}
          BY <1>0, <4>1, FS_EmptySet
        <4> QED BY <4>2 DEF Partial
      <3>2. Upto(T, z)
        BY <3>1
      <3> HIDE DEF z, Upto
      <3> QED BY <3>2
    <2>2. CASE T # {}
      <3> DEFINE x == First(T)
      <3>1. x \in T
        BY <2>2, FirstIn
      <3>2. T \ {x} \in Q
        BY <1>1, <3>1
      <3>3. PICK g : Upto(T \ {x}, g)
        BY <3>2
      <3>4. Cardinality(T \ {x}) = Cardinality(T) - 1
        BY <1>0, <3>1, FS_RemoveElement
      <3> DEFINE h == [U \in SUBSET S |-> Partial(f, g, U)]
      <3>5. ASSUME NEW U \in SUBSET S, Cardinality(U) <= Cardinality(T)
            PROVE  h[U] = Partial(f, h, U)
        <4>1. CASE U = {}
          BY <4>1 DEF Partial
        <4>2. CASE U # {}
          <5> DEFINE V == U \ {First(U)}
          <5>1. First(U) \in U
            BY <4>2, FirstIn
          <5>2. V \in SUBSET S /\ Cardinality(V) = Cardinality(U) - 1
            BY <1>0, <5>1, FS_RemoveElement
          <5>3. Cardinality(V) <= Cardinality(T \ {x})
            <6>1. /\ Cardinality(U) \in Nat /\ Cardinality(T) \in Nat
              BY <1>0
            <6> HIDE DEF V, x
            <6> QED BY <3>4, <3>5, <5>2, <6>1
          <5> HIDE DEF V
          <5>4. g[V] = Partial(f, g, V)
            BY <3>3, <5>2, <5>3
          <5>5. h[V] = g[V]
            BY <5>2, <5>4
          <5>6. Partial(f, h, U) = Partial(f, g, U)
            BY <5>5, Zenon DEF Partial, V
          <5> QED BY <5>6
        <4> QED BY <4>1, <4>2
      <3>6. Upto(T, h)
        BY <3>5
      <3> HIDE DEF h, Upto
      <3> QED BY <3>6
    <2> QED BY <2>1, <2>2
  <1> HIDE DEF Q
  <1>2. S \in Q
    BY <1>1, SubsetInduction
  <1>3. PICK g : Upto(S, g)
    BY <1>2 DEF Q
  <1> DEFINE h == [U \in SUBSET S |-> g[U]]
  <1>4. ASSUME NEW U \in SUBSET S PROVE h[U] = Partial(f, h, U)
    <2>1. g[U] = Partial(f, g, U)
      BY <1>3, FS_Subset
    <2>2. CASE U = {}
      BY <2>1, <2>2 DEF Partial
    <2>3. CASE U # {}
      <3> DEFINE V == U \ {First(U)}
      <3>1. h[V] = g[V]
        OBVIOUS
      <3>2. Partial(f, h, U) = Partial(f, g, U)
        BY <3>1, Zenon DEF Partial
      <3> QED BY <2>1, <3>2
    <2> QED BY <2>2, <2>3
  <1>5. IsTally(f, S, h)
    BY <1>4 DEF IsTally
  <1> HIDE DEF h
  <1> QED BY <1>5

(* So what the fold chooses is one. *)
LEMMA TotalIsTally ==
  ASSUME NEW f, NEW S, IsFiniteSet(S)
  PROVE  \E g : IsTally(f, S, g) /\ Total(f, S) = g[S]
PROOF
  <1> DEFINE G == CHOOSE g : g = [U \in SUBSET S |-> Partial(f, g, U)]
  <1>1. Total(f, S) = G[S]
    BY Zenon DEF Total, MapThenSumSet, MapThenFoldSet, Partial, First
  <1>2. IsTally(f, S, G)
    BY TallyExists, Zenon DEF IsTally
  <1> HIDE DEF G
  <1> QED BY <1>1, <1>2

(* A sum of numbers is a number. *)
LEMMA TallyType ==
  ASSUME NEW S, IsFiniteSet(S), NEW f, \A x \in S : f[x] \in Nat,
         NEW g, IsTally(f, S, g)
  PROVE  \A U \in SUBSET S : g[U] \in Nat
PROOF
  <1> DEFINE Q == {U \in SUBSET S : g[U] \in Nat}
  <1>1. ASSUME NEW T \in SUBSET S, \A U \in SUBSET T : U # T => U \in Q
        PROVE  T \in Q
    <2>1. g[T] = Partial(f, g, T)
      BY DEF IsTally
    <2>2. CASE T = {}
      BY <2>1, <2>2 DEF Partial
    <2>3. CASE T # {}
      <3>1. First(T) \in T
        BY <2>3, FirstIn
      <3>2. g[T \ {First(T)}] \in Nat /\ f[First(T)] \in Nat
        BY <1>1, <3>1
      <3> QED BY <2>1, <2>3, <3>2 DEF Partial
    <2> QED BY <2>2, <2>3
  <1> HIDE DEF Q
  <1>2. SUBSET S \subseteq Q
    BY <1>1, SubsetInduction
  <1> QED BY <1>2 DEF Q

(* Any element may be taken first. *)
LEMMA TallySplits ==
  ASSUME NEW S, IsFiniteSet(S), NEW f, \A x \in S : f[x] \in Nat,
         NEW g, IsTally(f, S, g)
  PROVE  \A U \in SUBSET S : \A x \in U : g[U] = f[x] + g[U \ {x}]
PROOF
  <1> DEFINE Q == {U \in SUBSET S : \A x \in U : g[U] = f[x] + g[U \ {x}]}
  <1>1. ASSUME NEW T \in SUBSET S, \A U \in SUBSET T : U # T => U \in Q
        PROVE  T \in Q
    <2> SUFFICES ASSUME NEW x \in T PROVE g[T] = f[x] + g[T \ {x}]
      OBVIOUS
    <2> DEFINE c == First(T)
    <2>1. c \in T
      BY FirstIn
    <2>2. g[T] = f[c] + g[T \ {c}]
      BY DEF IsTally, Partial
    <2> HIDE DEF c
    <2>3. CASE x = c
      BY <2>2, <2>3
    <2>4. CASE x # c
      <3> DEFINE A == T \ {c}
                 B == T \ {x}
                 C == T \ {c, x}
      <3>1. A \in Q /\ B \in Q
        BY <1>1, <2>1
      <3>2. A \ {x} = C /\ B \ {c} = C /\ x \in A /\ c \in B /\ C \in SUBSET S
        BY <2>1, <2>4
      <3>3. g[A] = f[x] + g[C] /\ g[B] = f[c] + g[C]
        BY <3>1, <3>2, Zenon
      <3>4. f[x] \in Nat /\ f[c] \in Nat /\ g[C] \in Nat
        BY <2>1, <3>2, TallyType
      <3> HIDE DEF A, B, C
      <3>5. g[T] = f[c] + g[A]
        BY <2>2 DEF A
      <3>6. g[T] = f[x] + g[B]
        BY <3>3, <3>4, <3>5
      <3> QED BY <3>6 DEF B
    <2> QED BY <2>3, <2>4
  <1> HIDE DEF Q
  <1>2. SUBSET S \subseteq Q
    BY <1>1, SubsetInduction
  <1> QED BY <1>2 DEF Q

(* The sum over a set depends on nothing outside of it. *)
LEMMA TalliesAgree ==
  ASSUME NEW S, IsFiniteSet(S), NEW f, NEW g, IsTally(f, S, g),
         NEW R \in SUBSET S, NEW h, NEW k, IsTally(h, R, k),
         \A x \in R : f[x] = h[x]
  PROVE  \A U \in SUBSET R : g[U] = k[U]
PROOF
  <1> DEFINE Q == {U \in SUBSET R : g[U] = k[U]}
  <1>1. ASSUME NEW T \in SUBSET R, \A U \in SUBSET T : U # T => U \in Q
        PROVE  T \in Q
    <2>1. g[T] = Partial(f, g, T) /\ k[T] = Partial(h, k, T)
      BY DEF IsTally
    <2>2. CASE T = {}
      BY <2>1, <2>2 DEF Partial
    <2>3. CASE T # {}
      <3>1. First(T) \in T
        BY <2>3, FirstIn
      <3>2. g[T \ {First(T)}] = k[T \ {First(T)}] /\ f[First(T)] = h[First(T)]
        BY <1>1, <3>1
      <3> QED BY <2>1, <3>2, Zenon DEF Partial
    <2> QED BY <2>2, <2>3
  <1> HIDE DEF Q
  <1>2. IsFiniteSet(R)
    BY FS_Subset
  <1>3. SUBSET R \subseteq Q
    BY <1>1, <1>2, SubsetInduction
  <1> QED BY <1>3 DEF Q

(* A histogram is taken out of the sum. *)
LEMMA TotalSplits ==
  ASSUME NEW S, IsFiniteSet(S), NEW f, \A x \in S : f[x] \in Nat, NEW x \in S
  PROVE  /\ Total(f, S) \in Nat
         /\ Total(f, S \ {x}) \in Nat
         /\ Total(f, S) = f[x] + Total(f, S \ {x})
PROOF
  <1>1. PICK g : IsTally(f, S, g) /\ Total(f, S) = g[S]
    BY TotalIsTally
  <1>2. IsFiniteSet(S \ {x})
    BY FS_RemoveElement
  <1>3. PICK k : IsTally(f, S \ {x}, k) /\ Total(f, S \ {x}) = k[S \ {x}]
    BY <1>2, TotalIsTally
  <1>4. g[S] = f[x] + g[S \ {x}]
    BY <1>1, TallySplits
  <1>5. g[S \ {x}] = k[S \ {x}]
    BY <1>1, <1>3, TalliesAgree
  <1>6. g[S] \in Nat /\ g[S \ {x}] \in Nat
    BY <1>1, TallyType
  <1> QED BY <1>1, <1>3, <1>4, <1>5, <1>6

(* The sum is over what the histograms hold. *)
LEMMA TotalAgrees ==
  ASSUME NEW S, IsFiniteSet(S), NEW f, NEW h, \A x \in S : f[x] = h[x]
  PROVE  Total(f, S) = Total(h, S)
PROOF
  <1>1. PICK g : IsTally(f, S, g) /\ Total(f, S) = g[S]
    BY TotalIsTally
  <1>2. PICK k : IsTally(h, S, k) /\ Total(h, S) = k[S]
    BY TotalIsTally
  <1> QED BY <1>1, <1>2, TalliesAgree

(* The sum is a number. *)
LEMMA TotalType ==
  ASSUME NEW S, IsFiniteSet(S), NEW f, \A x \in S : f[x] \in Nat
  PROVE  Total(f, S) \in Nat
PROOF
  <1>1. PICK g : IsTally(f, S, g) /\ Total(f, S) = g[S]
    BY TotalIsTally
  <1> QED BY <1>1, TallyType

(* Empty histograms hold nothing. *)
LEMMA TotalZero ==
  ASSUME NEW S, IsFiniteSet(S), NEW f, \A x \in S : f[x] = 0
  PROVE  Total(f, S) = 0
PROOF
  <1>1. PICK g : IsTally(f, S, g) /\ Total(f, S) = g[S]
    BY TotalIsTally
  <1> DEFINE Q == {U \in SUBSET S : g[U] = 0}
  <1>2. ASSUME NEW T \in SUBSET S, \A U \in SUBSET T : U # T => U \in Q
        PROVE  T \in Q
    <2>1. g[T] = Partial(f, g, T)
      BY <1>1 DEF IsTally
    <2>2. CASE T = {}
      BY <2>1, <2>2 DEF Partial
    <2>3. CASE T # {}
      <3>1. First(T) \in T
        BY <2>3, FirstIn
      <3>2. g[T \ {First(T)}] = 0 /\ f[First(T)] = 0
        BY <1>2, <3>1
      <3> QED BY <2>1, <2>3, <3>2 DEF Partial
    <2> QED BY <2>2, <2>3
  <1> HIDE DEF Q
  <1>3. SUBSET S \subseteq Q
    BY <1>2, SubsetInduction
  <1> QED BY <1>1, <1>3 DEF Q

-----------------------------------------------------------------------------
(* The samples *)

(* A thread in the middle of a sample has read its histogram as it is, and *)
(* it is not the one being cleared.                                        *)
SamplesAreFresh ==
  \A t \in IoThreads :
    io[t].at = "sample" => loaded[t] = histogram[t] /\ t \notin clearing

(* What was answered is what was reported, merged or is still to be.       *)
CountIsKept ==
  answered = reported + aggregated + Total(histogram, IoThreads \ clearing)

(* While no sample raced with an update, the count of the samples is kept  *)
(* by every step: the statistics thread moves a histogram into the sum in  *)
(* the step that takes it out of those that count.                         *)
CountInv ==
  /\ \A s, t \in clearing : s = t
  /\ ~raced => SamplesAreFresh /\ CountIsKept

(* Nothing was answered to begin with. *)
LEMMA CountInit ==
  ASSUME Init
  PROVE  CountInv
PROOF
  <1>1. Total(histogram, IoThreads \ clearing) = 0
    <2>1. IsFiniteSet(IoThreads \ clearing)
      BY ThreadsAssumption, FS_Subset
    <2>2. \A t \in IoThreads \ clearing : histogram[t] = 0
      BY DEF Init
    <2> QED BY <2>1, <2>2, TotalZero
  <1>2. CountIsKept
    BY <1>1 DEF CountIsKept, Init
  <1>3. SamplesAreFresh
    BY DEF SamplesAreFresh, Init, Idle
  <1> QED BY <1>2, <1>3 DEF CountInv, Init

(* A step that leaves the samples and the statistics alone.                *)
LEMMA CountStays ==
  ASSUME CountInv, UNCHANGED <<sampleVars, updateVars>>, raced' = raced,
         \A t \in IoThreads : io'[t].at = "sample" => io[t].at = "sample"
  PROVE  CountInv'
PROOF
  <1> USE DEF sampleVars, updateVars
  <1>1. SamplesAreFresh => SamplesAreFresh'
    BY DEF SamplesAreFresh
  <1>2. CountIsKept => CountIsKept'
    BY DEF CountIsKept
  <1> QED BY <1>1, <1>2 DEF CountInv

(* Reading the histogram. *)
LEMMA ReadOkKeepsCount ==
  ASSUME ClientTypeOK, CountInv,
         NEW c \in Connections, NEW e \in EntryIds, ReadOk(c, e)
  PROVE  CountInv'
PROOF
  <1> DEFINE t == ThreadOf[c]
  <1>1. /\ UNCHANGED <<histogram, answered, updateVars>>
        /\ loaded' = [loaded EXCEPT ![t] = histogram[t]]
        /\ io' = [io EXCEPT ![t] = [at |-> "sample", connection |-> c,
                                    entry |-> e]]
        /\ raced' = (raced \/ t \in clearing)
        /\ t \in IoThreads
    BY ClientAssumption DEF ReadOk
  <1> USE DEF updateVars
  <1>2. ~raced' => ~raced /\ t \notin clearing
    BY <1>1
  <1>3. CountIsKept => CountIsKept'
    BY <1>1 DEF CountIsKept
  <1>4. ASSUME ~raced', SamplesAreFresh PROVE SamplesAreFresh'
    <2> SUFFICES ASSUME NEW s \in IoThreads, io'[s].at = "sample"
                 PROVE  loaded'[s] = histogram'[s] /\ s \notin clearing'
      BY DEF SamplesAreFresh
    <2>1. CASE s = t
      BY <1>1, <1>2, <1>4, <2>1 DEF ClientTypeOK
    <2>2. CASE s # t
      BY <1>1, <1>4, <2>2 DEF SamplesAreFresh, ClientTypeOK
    <2> QED BY <2>1, <2>2
  <1> QED BY <1>1, <1>2, <1>3, <1>4 DEF CountInv

(* A histogram that counts has one more sample. *)
LEMMA AddSampleKeepsCount ==
  ASSUME ClientTypeOK, CountInv, NEW t \in IoThreads, AddSample(t)
  PROVE  CountInv'
PROOF
  <1>1. /\ io[t].at = "sample"
        /\ histogram' = [histogram EXCEPT ![t] = loaded[t] + 1]
        /\ loaded' = [loaded EXCEPT ![t] = 0]
        /\ answered' = answered + 1
        /\ io' = [io EXCEPT ![t] = Idle]
        /\ UNCHANGED <<updateVars, raced>>
    BY DEF AddSample
  <1> USE DEF updateVars
  <1>2. ASSUME ~raced, CountInv PROVE CountIsKept'
    <2> DEFINE S == IoThreads \ clearing
               R == S \ {t}
               h == histogram'
    <2>1. t \in S /\ loaded[t] = histogram[t]
      BY <1>1, <1>2 DEF CountInv, SamplesAreFresh
    <2>2. IsFiniteSet(S) /\ IsFiniteSet(R)
      BY ThreadsAssumption, FS_Subset
    <2>3. \A s \in S : histogram[s] \in Nat /\ h[s] \in Nat
      BY <1>1 DEF ClientTypeOK
    <2>4. \A s \in R : histogram[s] = h[s]
      BY <1>1 DEF ClientTypeOK
    <2>5. h[t] = histogram[t] + 1 /\ histogram[t] \in Nat
      BY <1>1, <2>1 DEF ClientTypeOK
    <2>6. answered = reported + aggregated + Total(histogram, S)
      BY <1>2 DEF CountInv, CountIsKept
    <2>a. S' = S
      BY <1>1
    <2> HIDE DEF S, h
    <2>7. /\ Total(histogram, S) = histogram[t] + Total(histogram, R)
          /\ Total(histogram, R) \in Nat
      BY <2>1, <2>2, <2>3, TotalSplits
    <2>8. Total(h, S) = h[t] + Total(h, R)
      BY <2>1, <2>2, <2>3, TotalSplits
    <2>9. Total(h, R) = Total(histogram, R)
      BY <2>2, <2>4, TotalAgrees
    <2> HIDE DEF R
    <2>10. answered + 1 = reported + aggregated + Total(h, S)
      <3>1. reported \in Nat /\ aggregated \in Nat
        BY DEF ClientTypeOK
      <3> QED BY <2>5, <2>6, <2>7, <2>8, <2>9, <3>1
    <2> QED BY <1>1, <2>10, <2>a DEF CountIsKept, S, h
  <1>3. SamplesAreFresh => SamplesAreFresh'
    BY <1>1 DEF SamplesAreFresh, ClientTypeOK, Idle
  <1> QED BY <1>1, <1>2, <1>3 DEF CountInv

(* What is merged no longer counts as a histogram. *)
LEMMA MergeKeepsCount ==
  ASSUME ClientTypeOK, CountInv, NEW t \in IoThreads, Merge(t)
  PROVE  CountInv'
PROOF
  <1>1. /\ clearing = {} /\ clearing' = {t}
        /\ aggregated' = aggregated + histogram[t]
        /\ raced' = (raced \/ io[t].at = "sample")
        /\ UNCHANGED <<sampleVars, io, reported>>
    BY DEF Merge
  <1> USE DEF sampleVars
  <1>2. ASSUME CountIsKept PROVE CountIsKept'
    <2> DEFINE S == IoThreads
    <2>1. \A s \in S : histogram[s] \in Nat
      BY DEF ClientTypeOK
    <2>2. /\ Total(histogram, S) = histogram[t] + Total(histogram, S \ {t})
          /\ Total(histogram, S \ {t}) \in Nat
      BY <2>1, ThreadsAssumption, TotalSplits
    <2>3. answered = reported + aggregated + Total(histogram, S)
      <3>1. IoThreads \ clearing = S
        BY <1>1
      <3> QED BY <1>2, <3>1 DEF CountIsKept
    <2>4. reported \in Nat /\ aggregated \in Nat /\ histogram[t] \in Nat
      BY DEF ClientTypeOK
    <2>5. answered = reported + (aggregated + histogram[t])
                       + Total(histogram, S \ {t})
      BY <2>2, <2>3, <2>4
    <2> QED BY <1>1, <2>5 DEF CountIsKept
  <1>3. SamplesAreFresh /\ ~raced' => SamplesAreFresh'
    BY <1>1 DEF SamplesAreFresh
  <1> QED BY <1>1, <1>2, <1>3 DEF CountInv

(* The histogram that is cleared did not count any more, and counts again. *)
LEMMA ClearKeepsCount ==
  ASSUME ClientTypeOK, CountInv, NEW t \in IoThreads, Clear(t)
  PROVE  CountInv'
PROOF
  <1>1. /\ t \in clearing /\ clearing' = {}
        /\ histogram' = [histogram EXCEPT ![t] = 0]
        /\ UNCHANGED <<io, loaded, answered, aggregated, reported, raced>>
    BY DEF Clear, Cleared
  <1>2. clearing = {t}
    BY <1>1 DEF CountInv
  <1>3. ASSUME CountIsKept PROVE CountIsKept'
    <2> DEFINE S == IoThreads
               h == histogram'
               R == S \ {t}
    <2>1. \A s \in S : h[s] \in Nat
      BY <1>1 DEF ClientTypeOK
    <2>2. h[t] = 0 /\ \A s \in R : histogram[s] = h[s]
      BY <1>1 DEF ClientTypeOK
    <2>3. IsFiniteSet(R)
      BY ThreadsAssumption, FS_Subset
    <2>4. answered = reported + aggregated + Total(histogram, R)
      BY <1>2, <1>3 DEF CountIsKept
    <2> HIDE DEF h
    <2>5. Total(h, S) = h[t] + Total(h, S \ {t}) /\ Total(h, S \ {t}) \in Nat
      BY <2>1, ThreadsAssumption, TotalSplits
    <2>6. Total(h, R) = Total(histogram, R)
      BY <2>2, <2>3, TotalAgrees
    <2>7. answered = reported + aggregated + Total(h, S)
      BY <2>2, <2>4, <2>5, <2>6
    <2>8. IoThreads \ clearing' = S
      BY <1>1
    <2> QED BY <1>1, <2>7, <2>8 DEF CountIsKept, h
  <1>4. SamplesAreFresh => SamplesAreFresh'
    BY <1>1 DEF SamplesAreFresh, ClientTypeOK
  <1> QED BY <1>1, <1>3, <1>4 DEF CountInv

(* The sum of an update becomes part of what was reported. *)
LEMMA PublishKeepsCount ==
  ASSUME ClientTypeOK, CountInv, Publish
  PROVE  CountInv'
PROOF
  <1>1. /\ aggregated' = 0 /\ reported' = reported + aggregated
        /\ UNCHANGED <<io, sampleVars, clearing, raced>>
    BY DEF Publish
  <1> USE DEF sampleVars
  <1>2. ASSUME CountIsKept PROVE CountIsKept'
    <2> DEFINE n == Total(histogram, IoThreads \ clearing)
    <2>1. n \in Nat /\ reported \in Nat /\ aggregated \in Nat
      <3>1. IsFiniteSet(IoThreads \ clearing)
        BY ThreadsAssumption, FS_Subset
      <3>2. \A s \in IoThreads \ clearing : histogram[s] \in Nat
        BY DEF ClientTypeOK
      <3>3. n \in Nat
        BY <3>1, <3>2, TotalType
      <3> QED BY <3>3 DEF ClientTypeOK
    <2>2. answered = reported + aggregated + n
      BY <1>2 DEF CountIsKept
    <2> HIDE DEF n
    <2>3. answered = (reported + aggregated) + 0 + n
      BY <2>1, <2>2
    <2> QED BY <1>1, <2>3 DEF CountIsKept, n
  <1>3. SamplesAreFresh => SamplesAreFresh'
    BY <1>1 DEF SamplesAreFresh
  <1> QED BY <1>1, <1>2, <1>3 DEF CountInv

(* Every step keeps the count. *)
LEMMA CountStep ==
  ASSUME ClientTypeOK, CountInv, [Next]_clientVars
  PROVE  CountInv'
PROOF
  <1>1. CASE UNCHANGED clientVars
    BY <1>1, CountStays DEF clientVars
  <1>2. CASE Tick \/ ConnectionMissing
    BY <1>2, CountStays DEF Tick, ConnectionMissing
  <1>3. CASE StartUpdate
    <2>1. SamplesAreFresh => SamplesAreFresh'
      BY <1>3 DEF StartUpdate, SamplesAreFresh, sampleVars
    <2>2. CountIsKept => CountIsKept'
      BY <1>3 DEF StartUpdate, CountIsKept, sampleVars
    <2> QED BY <1>3, <2>1, <2>2 DEF StartUpdate, CountInv
  <1>4. CASE Publish
    BY <1>4, PublishKeepsCount
  <1>5. ASSUME NEW t \in IoThreads, Write(t) \/ Insert(t)
        PROVE  CountInv'
    <2>1. \A s \in IoThreads : io'[s].at = "sample" => io[s].at = "sample"
      <3>1. \E x \in {[at |-> "insert", connection |-> Head(tasks[t])[1],
                       entry |-> Head(tasks[t])[2]], Idle} :
              io' = [io EXCEPT ![t] = x]
        BY <1>5 DEF Write, Insert
      <3> QED BY <3>1 DEF ClientTypeOK, Idle
    <2> QED BY <1>5, <2>1, CountStays DEF Write, Insert
  <1>6. ASSUME NEW t \in IoThreads, AddSample(t) \/ Merge(t) \/ Clear(t)
        PROVE  CountInv'
    BY <1>6, AddSampleKeepsCount, MergeKeepsCount, ClearKeepsCount
  <1>7. ASSUME NEW c \in Connections,
               \/ TransportActive(c) \/ ConnectFails(c) \/ Aquire(c)
               \/ HandOver(c) \/ Close(c)
        PROVE  CountInv'
    BY <1>7, CountStays
       DEF TransportActive, ConnectFails, Aquire, HandOver, Close
  <1>8. ASSUME NEW c \in Connections, NEW e \in EntryIds, ReadOk(c, e)
        PROVE  CountInv'
    BY <1>8, ReadOkKeepsCount
  <1>9. ASSUME NEW c \in Connections, NEW e \in EntryIds,
               \/ ReadError(c, e)
               \/ \E outcome \in {"ok", "error"} : Answer(c, e, outcome)
        PROVE  CountInv'
    BY <1>9, CountStays DEF ReadError, Answer
  <1> QED
    BY <1>1, <1>2, <1>3, <1>4, <1>5, <1>6, <1>7, <1>8, <1>9 DEF Next

(* While no sample raced with an update of its histogram, every add that   *)
(* was answered is in the statistics, or in the sum that the update under  *)
(* way has made, or in a histogram: for any number of IO threads, and      *)
(* wherever each of them and the statistics thread is.                     *)
THEOREM EverySampleIsCounted == Spec => []SamplesAreCounted
PROOF
  <1>1. Init => CountInv
    BY CountInit
  <1>2. ClientTypeOK /\ CountInv /\ [Next]_clientVars => CountInv'
    BY CountStep
  <1>3. CountInv => SamplesAreCounted
    <2>1. Total(histogram, IoThreads \ clearing)
            = MapThenSumSet(LAMBDA t : histogram[t], IoThreads \ clearing)
      BY Zenon DEF Total
    <2> QED BY <2>1, Zenon DEF CountInv, CountIsKept, SamplesAreCounted
  <1> QED BY <1>1, <1>2, <1>3, ClientTypeCorrect, PTL DEF Spec
=============================================================================
