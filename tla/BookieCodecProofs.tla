------------------------- MODULE BookieCodecProofs -------------------------
(***************************************************************************)
(* What one side of the codec writes the other side reads, for all values  *)
(* of the fields, and frames are cut where they were joined.               *)
(***************************************************************************)
EXTENDS BookieCodecV2, SequenceTheorems, TLAPS

(* What a buffer may hold. *)
Buffer == Octets \cup {Unwritten}

(* A frame with the four bytes that announce its length. *)
IsPacket(p) == p \in Seq(Buffer) /\ Len(p) >= 4 /\ Announced(p) = Len(p) - 4

Body(p) == SubSeq(p, 5, Len(p))

(* The response to an add, as the server has it.                           *)
Responses ==
  [protocolVersion : Octets, opCode : Octets, errorCode : Octets,
   ledgerId : Int64s, entryId : Int64s]

-----------------------------------------------------------------------------
(* Sequences of bytes *)

(* The parts of two sequences that were joined. *)
LEMMA Joined ==
  ASSUME NEW S, NEW s \in Seq(S), NEW t \in Seq(S)
  PROVE  /\ s \o t \in Seq(S)
         /\ Len(s \o t) = Len(s) + Len(t)
         /\ \A i \in 1 .. Len(s) : (s \o t)[i] = s[i]
         /\ \A i \in 1 .. Len(t) : (s \o t)[Len(s) + i] = t[i]
         /\ \A i, j \in 1 .. Len(s) : SubSeq(s \o t, i, j) = SubSeq(s, i, j)
         /\ Len(t) > 0 => SubSeq(s \o t, Len(s) + 1, Len(s) + Len(t)) = t
PROOF
  <1>1. Len(s) \in Nat /\ Len(t) \in Nat
    OBVIOUS
  <1>2. /\ s \o t \in Seq(S)
        /\ Len(s \o t) = Len(s) + Len(t)
        /\ \A i \in 1 .. Len(s) + Len(t) :
             (s \o t)[i] = IF i <= Len(s) THEN s[i] ELSE t[i - Len(s)]
    BY ConcatProperties
  <1>3. \A i \in 1 .. Len(s) : (s \o t)[i] = s[i]
    BY <1>1, <1>2
  <1>4. ASSUME NEW i \in 1 .. Len(t) PROVE (s \o t)[Len(s) + i] = t[i]
    <2>1. /\ Len(s) + i \in 1 .. Len(s) + Len(t) /\ ~(Len(s) + i <= Len(s))
          /\ (Len(s) + i) - Len(s) = i
      BY <1>1
    <2> QED BY <1>2, <2>1
  <1>5. \A i, j \in 1 .. Len(s) : SubSeq(s \o t, i, j) = SubSeq(s, i, j)
    BY SubSeqOfConcat1
  <1>6. ASSUME Len(t) > 0
        PROVE  SubSeq(s \o t, Len(s) + 1, Len(s) + Len(t)) = t
    <2> DEFINE m == Len(s) + 1
               n == Len(s) + Len(t)
    <2>1. /\ m \in Len(s) + 1 .. Len(s) + Len(t)
          /\ n \in Len(s) + 1 .. Len(s) + Len(t)
          /\ m - Len(s) = 1 /\ n - Len(s) = Len(t)
      BY <1>1, <1>6
    <2>2. SubSeq(s \o t, m, n) = SubSeq(t, m - Len(s), n - Len(s))
      BY <2>1, SubSeqOfConcat2
    <2> QED BY <2>1, <2>2, SubSeqFull
  <1> QED BY <1>2, <1>3, <1>4, <1>5, <1>6

(* The bytes of a field that is eight bytes wide. *)
LEMMA Int64Bytes ==
  ASSUME NEW id \in Int64s
  PROVE  id \in Seq(Buffer) /\ Len(id) = 8
PROOF
  <1>1. [i \in 1 .. 8 |-> id[i]] = id
    BY DEF Int64s
  <1>2. [i \in 1 .. 8 |-> id[i]] \in Seq(Buffer)
    BY SMT DEF Int64s, Buffer
  <1>3. id \in Seq(Buffer)
    BY <1>1, <1>2
  <1>4. DOMAIN id = 1 .. 8
    BY DEF Int64s
  <1>5. DOMAIN id = 1 .. Len(id) /\ Len(id) \in Nat
    BY <1>3, LenProperties
  <1> QED BY <1>3, <1>4, <1>5

(* Bytes that nobody writes. *)
LEMMA BlankBytes ==
  ASSUME NEW n \in Nat
  PROVE  Blank(n) \in Seq(Buffer) /\ Len(Blank(n)) = n
PROOF
  BY SMT DEF Blank, Buffer

(* The largest frame is less than what four bytes can announce.           *)
LEMMA LargestFrame == MaxFrameSize \in Nat /\ MaxFrameSize < 4294967296
PROOF
  <1>1. MaxFrameSize \in Nat
    BY SMT DEF MaxFrameSize
  <1>2. MaxFrameSize < 4294967296
    BY SMT DEF MaxFrameSize
  <1> QED BY <1>1, <1>2, SMT

(* What fits in an octet fits in the length of a frame. *)
LEMMA SmallNumbers ==
  /\ 255 <= MaxFrameSize /\ 28 \in 0 .. MaxFrameSize /\ 0 \in Octets
  /\ \A n \in Octets : n \in 0 .. MaxFrameSize /\ n < 256
PROOF
  <1>1. 255 <= MaxFrameSize
    BY SMT DEF MaxFrameSize
  <1>2. 0 \in Octets
    BY SMT DEF Octets
  <1>3. \A n \in Octets : n < 256 /\ n \in 0 .. 255
    BY SMT DEF Octets
  <1>4. \A n \in 0 .. 255 : n \in 0 .. MaxFrameSize
    BY <1>1, LargestFrame
  <1>5. 28 \in 0 .. 255
    OBVIOUS
  <1> QED BY <1>1, <1>2, <1>3, <1>4, <1>5

(* The four bytes of a number. *)
LEMMA Int32Bytes ==
  ASSUME NEW n \in 0 .. MaxFrameSize
  PROVE  /\ Int32(n) \in Seq(Buffer) /\ Len(Int32(n)) = 4
         /\ Announced(Int32(n)) = n
         /\ n < 256 => Int32(n)[4] = n
PROOF
  <1>1. n \in Nat /\ n < 4294967296
    BY LargestFrame, SMT
  <1>2. /\ Int32(n) \in Seq(Buffer) /\ Len(Int32(n)) = 4
        /\ Int32(n)[1] = (n \div 16777216) % 256
        /\ Int32(n)[2] = (n \div 65536) % 256
        /\ Int32(n)[3] = (n \div 256) % 256
        /\ Int32(n)[4] = n % 256
    BY <1>1, SMT DEF Int32, Buffer, Octets
  <1>3. 16777216 * ((n \div 16777216) % 256) + 65536 * ((n \div 65536) % 256)
          + 256 * ((n \div 256) % 256) + (n % 256) = n
    BY <1>1, SMT
  <1>4. n < 256 => n % 256 = n
    BY <1>1, SMT
  <1> QED BY <1>2, <1>3, <1>4, SMT DEF Announced

(* The four bytes of a header. *)
LEMMA HeaderBytes ==
  ASSUME NEW v \in Octets, NEW o \in Octets, NEW f \in Octets
  PROVE  /\ ToInt(v, o, f) \in Seq(Buffer) /\ Len(ToInt(v, o, f)) = 4
         /\ ToInt(v, o, f)[1] = v /\ ToInt(v, o, f)[2] = o
         /\ ToInt(v, o, f)[4] = f
PROOF
  BY SMT DEF ToInt, Octets, Buffer
-----------------------------------------------------------------------------
(* Frames *)

(* The length that is announced is that of the first four bytes.           *)
LEMMA AnnouncedFirst ==
  ASSUME NEW s \in Seq(Buffer), NEW t \in Seq(Buffer), Len(s) >= 4
  PROVE  Announced(s \o t) = Announced(s)
PROOF
  <1>1. /\ (s \o t)[1] = s[1] /\ (s \o t)[2] = s[2]
        /\ (s \o t)[3] = s[3] /\ (s \o t)[4] = s[4]
    <2>1. Len(s) \in Nat
      OBVIOUS
    <2>2. {1, 2, 3, 4} \subseteq 1 .. Len(s)
      BY <2>1
    <2> QED BY <2>2, Joined
  <1> QED BY <1>1, SMT DEF Announced

(* A length and what it announces are a packet.                            *)
LEMMA PacketOf ==
  ASSUME NEW b \in Seq(Buffer), Len(b) \in 0 .. MaxFrameSize
  PROVE  IsPacket(Int32(Len(b)) \o b) /\ Body(Int32(Len(b)) \o b) = b
PROOF
  <1> DEFINE a == Int32(Len(b))
             p == a \o b
  <1>1. /\ a \in Seq(Buffer) /\ Len(a) = 4 /\ Announced(a) = Len(b)
        /\ Len(b) \in Nat
    BY Int32Bytes
  <1> HIDE DEF a
  <1>2. /\ p \in Seq(Buffer) /\ Len(p) = 4 + Len(b)
        /\ Len(b) > 0 => SubSeq(p, 5, 4 + Len(b)) = b
    <2>1. /\ p \in Seq(Buffer) /\ Len(p) = Len(a) + Len(b)
          /\ Len(b) > 0 => SubSeq(p, Len(a) + 1, Len(a) + Len(b)) = b
      BY <1>1, Joined
    <2>2. Len(a) + 1 = 5
      BY <1>1
    <2> QED BY <1>1, <2>1, <2>2
  <1>3. Announced(p) = Len(b)
    <2>1. Len(a) >= 4
      BY <1>1
    <2> QED BY <1>1, <2>1, AnnouncedFirst
  <1> HIDE DEF p
  <1>4. IsPacket(p)
    BY <1>1, <1>2, <1>3 DEF IsPacket
  <1>5. CASE Len(b) = 0
    <2>1. b = <<>> /\ Len(p) < 5
      BY <1>1, <1>2, <1>5, EmptySeq
    <2>2. SubSeq(p, 5, Len(p)) = <<>>
      BY <1>1, <1>2, <2>1, SubSeqEmpty
    <2> QED BY <1>4, <2>1, <2>2 DEF Body, p, a
  <1>6. CASE Len(b) # 0
    <2>1. Len(b) > 0
      BY <1>1, <1>6
    <2> QED BY <1>2, <1>4, <2>1 DEF Body, p, a
  <1> QED BY <1>5, <1>6

(* The decoder takes a packet off the stream and leaves what follows.      *)
LEMMA FramesAreCut ==
  ASSUME NEW p, NEW r \in Seq(Buffer), IsPacket(p)
  PROVE  /\ FrameReady(p \o r)
         /\ Frame(p \o r) = Body(p)
         /\ AfterFrame(p \o r) = r
PROOF
  <1> DEFINE s == p \o r
  <1>1. /\ p \in Seq(Buffer) /\ Len(p) \in Nat /\ Len(r) \in Nat
        /\ Len(p) >= 4 /\ Announced(p) = Len(p) - 4
    BY DEF IsPacket
  <1>2. /\ Len(s) = Len(p) + Len(r) /\ s \in Seq(Buffer)
        /\ \A i, j \in 1 .. Len(p) : SubSeq(s, i, j) = SubSeq(p, i, j)
        /\ Len(r) > 0 => SubSeq(s, Len(p) + 1, Len(p) + Len(r)) = r
    BY <1>1, Joined
  <1>3. Announced(s) = Len(p) - 4
    BY <1>1, AnnouncedFirst
  <1> HIDE DEF s
  <1>4. /\ FrameReady(s) /\ 4 + Announced(s) = Len(p)
        /\ 5 + Announced(s) = Len(p) + 1
    BY <1>1, <1>2, <1>3 DEF FrameReady
  <1>5. Frame(s) = Body(p)
    <2>1. CASE Len(p) = 4
      <3>1. SubSeq(s, 5, 4) = <<>> /\ SubSeq(p, 5, 4) = <<>>
        BY SubSeqEmpty
      <3> QED BY <1>4, <2>1, <3>1 DEF Frame, Body
    <2>2. CASE Len(p) # 4
      <3>1. Len(p) \in Nat /\ Len(p) >= 4
        BY <1>1
      <3>2. 5 \in 1 .. Len(p) /\ Len(p) \in 1 .. Len(p)
        <4>1. \A n \in Nat : n >= 4 /\ n # 4 => 5 \in 1 .. n /\ n \in 1 .. n
          OBVIOUS
        <4> QED BY <2>2, <3>1, <4>1, Zenon
      <3> QED BY <1>2, <1>4, <3>2 DEF Frame, Body
    <2> QED BY <2>1, <2>2
  <1>6. AfterFrame(s) = r
    <2>1. CASE Len(r) = 0
      <3>1. r = <<>>
        BY <2>1, EmptySeq
      <3>2. SubSeq(s, Len(p) + 1, Len(p)) = <<>>
        BY <1>1, SubSeqEmpty
      <3>3. Len(s) = Len(p)
        BY <1>1, <1>2, <2>1
      <3> QED BY <1>4, <3>1, <3>2, <3>3 DEF AfterFrame
    <2>2. CASE Len(r) # 0
      <3>1. Len(r) > 0
        BY <1>1, <2>2
      <3> QED BY <1>2, <1>4, <3>1 DEF AfterFrame
    <2> QED BY <2>1, <2>2
  <1> QED BY <1>4, <1>5, <1>6 DEF s

-----------------------------------------------------------------------------
(* Requests *)

(* A buffer u of s and then t. *)
Joins(u, s, t) ==
  /\ u \in Seq(Buffer)
  /\ Len(u) = Len(s) + Len(t)
  /\ \A i \in 1 .. Len(s) : u[i] = s[i]
  /\ \A i \in 1 .. Len(t) : u[Len(s) + i] = t[i]
  /\ \A i, j \in 1 .. Len(s) : SubSeq(u, i, j) = SubSeq(s, i, j)
  /\ Len(t) > 0 => SubSeq(u, Len(s) + 1, Len(s) + Len(t)) = t

(* Joined, for buffers. *)
LEMMA BuffersJoin ==
  \A s, t \in Seq(Buffer) : Joins(s \o t, s, t)
PROOF
  BY Joined DEF Joins

(* What a client's request has in its fields. *)
LEMMA RequestFields ==
  ASSUME NEW request \in ClientRequests
  PROVE  /\ request.protocolVersion \in Octets /\ request.opCode \in Octets
         /\ request.opCode \in {AddEntry, ReadEntry}
         /\ request.flags \in Octets
         /\ request.ledgerId \in Int64s /\ request.entryId \in Int64s
         /\ request.data \in Seq(Octets) /\ request.data \in Seq(Buffer)
         /\ Len(request.data) \in Nat
         /\ Len(request.data) + 44 <= MaxFrameSize
         /\ request.opCode = ReadEntry => request.data = <<>>
         /\ request = [protocolVersion |-> request.protocolVersion,
                       opCode |-> request.opCode, flags |-> request.flags,
                       ledgerId |-> request.ledgerId,
                       entryId |-> request.entryId, data |-> request.data]
PROOF
  <1>1. /\ request \in
             [protocolVersion : Octets, opCode : {AddEntry, ReadEntry},
              flags : Octets, ledgerId : Int64s, entryId : Int64s,
              data : Seq(Octets)]
        /\ Len(request.data) + 44 <= MaxFrameSize
        /\ request.opCode = ReadEntry => request.data = <<>>
    BY DEF ClientRequests
  <1>2. AddEntry \in Octets /\ ReadEntry \in Octets
    BY SMT DEF AddEntry, ReadEntry, Octets
  <1>3. request.data \in Seq(Buffer)
    BY <1>1, SeqMonotonic DEF Buffer
  <1>4. Len(request.data) \in Nat
    BY <1>1, LenProperties
  <1> QED BY <1>1, <1>2, <1>3, <1>4

(* Where a client puts the fields of an add. *)
LEMMA AddLayout ==
  ASSUME NEW request \in ClientRequests, NEW p, p = ClientWrite(request)
  PROVE  /\ IsPacket(p)
         /\ Len(p) = 44 + Len(request.data)
         /\ p[5] = request.protocolVersion
         /\ p[6] = request.opCode
         /\ p[8] = request.flags
         /\ SubSeq(p, 29, 36) = request.ledgerId
         /\ SubSeq(p, 37, 44) = request.entryId
         /\ Len(request.data) > 0 =>
              SubSeq(p, 45, 44 + Len(request.data)) = request.data
PROOF
  <1> DEFINE n  == 4 + MasterKeyLength + 16 + Len(request.data)
             a  == Int32(n)
             b  == ToInt(request.protocolVersion, request.opCode, request.flags)
             k  == Blank(MasterKeyLength)
             l  == request.ledgerId
             e  == request.entryId
             d  == request.data
             p1 == a \o b
             p2 == p1 \o k
             p3 == p2 \o l
             p4 == p3 \o e
  <1>1. n = 40 + Len(d) /\ n \in 0 .. MaxFrameSize /\ Len(d) \in Nat
    BY RequestFields, LargestFrame, SMT DEF MasterKeyLength
  <1>2. a \in Seq(Buffer) /\ Len(a) = 4 /\ Announced(a) = n
    BY <1>1, Int32Bytes
  <1>3. /\ b \in Seq(Buffer) /\ Len(b) = 4 /\ b[1] = request.protocolVersion
        /\ b[2] = request.opCode /\ b[4] = request.flags
    BY RequestFields, HeaderBytes
  <1>4. k \in Seq(Buffer) /\ Len(k) = 20
    <2>1. MasterKeyLength \in Nat /\ MasterKeyLength = 20
      BY SMT DEF MasterKeyLength
    <2> QED BY <2>1, BlankBytes
  <1>5. /\ l \in Seq(Buffer) /\ Len(l) = 8 /\ e \in Seq(Buffer) /\ Len(e) = 8
        /\ d \in Seq(Buffer)
    BY RequestFields, Int64Bytes
  <1>6. p = p4 \o d
    BY DEF ClientWrite
  <1> HIDE DEF n, a, b, k, l, e, d
  <1>7. /\ p1 \in Seq(Buffer) /\ Len(p1) = 8
        /\ \A i \in 1 .. 4 : p1[i] = a[i]
        /\ \A i \in 1 .. 4 : p1[4 + i] = b[i]
    <2>1. Joins(p1, a, b)
      BY <1>2, <1>3, BuffersJoin
    <2> QED BY <1>2, <1>3, <2>1 DEF Joins
  <1> HIDE DEF p1
  <1>8. /\ p2 \in Seq(Buffer) /\ Len(p2) = 28
        /\ \A i \in 1 .. 8 : p2[i] = p1[i]
    <2>1. Joins(p2, p1, k)
      BY <1>4, <1>7, BuffersJoin
    <2>2. Len(p1) + Len(k) = 28
      BY <1>4, <1>7
    <2> QED BY <1>7, <2>1, <2>2 DEF Joins
  <1> HIDE DEF p2
  <1>9. /\ p3 \in Seq(Buffer) /\ Len(p3) = 36
        /\ \A i \in 1 .. 28 : p3[i] = p2[i]
        /\ SubSeq(p3, 29, 36) = l
    <2>1. Joins(p3, p2, l)
      BY <1>5, <1>8, BuffersJoin
    <2>2. Len(p2) + 1 = 29 /\ Len(p2) + Len(l) = 36 /\ Len(l) > 0
      BY <1>5, <1>8
    <2> QED BY <1>8, <2>1, <2>2 DEF Joins
  <1> HIDE DEF p3
  <1>10. /\ p4 \in Seq(Buffer) /\ Len(p4) = 44
         /\ \A i \in 1 .. 36 : p4[i] = p3[i]
         /\ SubSeq(p4, 29, 36) = l
         /\ SubSeq(p4, 37, 44) = e
    <2>1. Joins(p4, p3, e)
      BY <1>5, <1>9, BuffersJoin
    <2>2. /\ Len(p3) + 1 = 37 /\ Len(p3) + Len(e) = 44 /\ Len(e) > 0
          /\ 29 \in 1 .. 36 /\ 36 \in 1 .. 36
      BY <1>5, <1>9
    <2>3. /\ p4 \in Seq(Buffer) /\ Len(p4) = 44
          /\ \A i \in 1 .. 36 : p4[i] = p3[i]
      BY <1>9, <2>1, <2>2 DEF Joins
    <2>4. SubSeq(p4, 29, 36) = l
      <3>1. \A i, j \in 1 .. Len(p3) : SubSeq(p4, i, j) = SubSeq(p3, i, j)
        BY <2>1, Zenon DEF Joins
      <3>2. 29 \in 1 .. Len(p3) /\ 36 \in 1 .. Len(p3)
        BY <1>9, <2>2, Zenon
      <3> QED BY <1>9, <3>1, <3>2, Zenon
    <2>5. SubSeq(p4, 37, 44) = e
      BY <1>9, <2>1, <2>2 DEF Joins
    <2> QED BY <2>3, <2>4, <2>5
  <1> HIDE DEF p4
  <1>11. /\ p \in Seq(Buffer) /\ Len(p) = 44 + Len(d)
         /\ \A i \in 1 .. 44 : p[i] = p4[i]
         /\ SubSeq(p, 29, 36) = l
         /\ SubSeq(p, 37, 44) = e
         /\ Len(d) > 0 => SubSeq(p, 45, 44 + Len(d)) = d
    <2>1. Joins(p, p4, d)
      BY <1>5, <1>6, <1>10, BuffersJoin
    <2>2. /\ Len(p4) + 1 = 45
          /\ 29 \in 1 .. 44 /\ 36 \in 1 .. 44 /\ 37 \in 1 .. 44 /\ 44 \in 1 .. 44
      BY <1>10
    <2>3. p \in Seq(Buffer) /\ Len(p) = 44 + Len(d)
      BY <1>10, <2>1 DEF Joins
    <2>4. /\ \A i \in 1 .. 44 : p[i] = p4[i]
          /\ \A i, j \in 1 .. 44 : SubSeq(p, i, j) = SubSeq(p4, i, j)
          /\ Len(d) > 0 => SubSeq(p, Len(p4) + 1, Len(p4) + Len(d)) = d
      BY <1>10, <2>1 DEF Joins
    <2> QED BY <1>10, <2>2, <2>3, <2>4
  <1>12. \A i \in 1 .. 8 : p[i] = p1[i]
    <2> TAKE i \in 1 .. 8
    <2>1. i \in 1 .. 28 /\ i \in 1 .. 36 /\ i \in 1 .. 44
      OBVIOUS
    <2>2. p[i] = p4[i]
      BY <1>11, <2>1
    <2>3. p4[i] = p3[i]
      BY <1>10, <2>1
    <2>4. p3[i] = p2[i] /\ p2[i] = p1[i]
      BY <1>8, <1>9, <2>1
    <2> QED BY <2>2, <2>3, <2>4
  <1>13. p[5] = b[1] /\ p[6] = b[2] /\ p[8] = b[4]
    <2>1. p1[4 + 1] = b[1] /\ p1[4 + 2] = b[2] /\ p1[4 + 4] = b[4]
      BY <1>7
    <2>2. p1[5] = b[1] /\ p1[6] = b[2] /\ p1[8] = b[4]
      BY <2>1, SMT
    <2>3. 5 \in 1 .. 8 /\ 6 \in 1 .. 8 /\ 8 \in 1 .. 8
      OBVIOUS
    <2> QED BY <1>12, <2>2, <2>3
  <1>14. Announced(p) = n
    <2>1. {1, 2, 3, 4} \subseteq 1 .. 8 /\ {1, 2, 3, 4} \subseteq 1 .. 4
      BY SMT
    <2>2. p[1] = a[1] /\ p[2] = a[2] /\ p[3] = a[3] /\ p[4] = a[4]
      BY <1>7, <1>12, <2>1
    <2> QED BY <1>2, <2>2, SMT DEF Announced
  <1>15. IsPacket(p)
    BY <1>1, <1>11, <1>14, SMT DEF IsPacket
  <1> QED BY <1>3, <1>11, <1>13, <1>15 DEF l, e, d

(* What is left of a packet behind its length, up to a byte of it.         *)
BodyIs(f, p, n) ==
  /\ f \in Seq(Buffer)
  /\ Len(f) = n - 4
  /\ \A i \in 1 .. n - 4 : f[i] = p[i + 4]
  /\ \A i, j \in 1 .. n - 4 : SubSeq(f, i, j) = SubSeq(p, i + 4, j + 4)

(* Bytes of a packet are bytes of its body, four further back.             *)
LEMMA BodyBytes ==
  ASSUME NEW p, IsPacket(p), NEW n \in 4 .. Len(p)
  PROVE  BodyIs(SubSeq(p, 5, n), p, n)
PROOF
  <1> DEFINE f == SubSeq(p, 5, n)
  <1>1. p \in Seq(Buffer) /\ Len(p) \in Nat /\ n \in Nat /\ 4 <= n /\ n <= Len(p)
    BY DEF IsPacket
  <1>2. \A i \in 5 .. n : p[i] \in Buffer
    BY <1>1, ElementOfSeq
  <1>3. /\ f \in Seq(Buffer)
        /\ Len(f) = IF 5 <= n THEN n - 5 + 1 ELSE 0
        /\ \A i \in 1 .. n - 5 + 1 : f[i] = p[5 + i - 1]
    BY <1>1, <1>2, SubSeqProperties
  <1>4. Len(f) = n - 4
    BY <1>1, <1>3
  <1>5. ASSUME NEW i \in 1 .. n - 4 PROVE f[i] = p[i + 4]
    <2>1. i \in 1 .. n - 5 + 1 /\ 5 + i - 1 = i + 4
      BY <1>1
    <2> QED BY <1>3, <2>1
  <1>6. ASSUME NEW i \in 1 .. n - 4, NEW j \in 1 .. n - 4
        PROVE  SubSeq(f, i, j) = SubSeq(p, i + 4, j + 4)
    <2>1. /\ 5 \in 1 .. Len(p) /\ n \in 1 .. Len(p)
          /\ i \in 1 .. n - 5 + 1 /\ j \in 1 .. n - 5 + 1
          /\ 5 + i - 1 = i + 4 /\ 5 + j - 1 = j + 4
      BY <1>1
    <2>2. SubSeq(SubSeq(p, 5, n), i, j) = SubSeq(p, 5 + i - 1, 5 + j - 1)
      BY <1>1, <2>1, SubSeqOfSubSeq
    <2> QED BY <2>1, <2>2
  <1> QED BY <1>3, <1>4, <1>5, <1>6 DEF BodyIs

(* How the server sees the frame of an add that may lack its end.          *)
AddFrame(f, request, cut) ==
  /\ f \in Seq(Buffer)
  /\ Len(f) = 40 + Len(request.data) - cut
  /\ Len(f) >= 4 =>
       f[1] = request.protocolVersion /\ f[2] = AddEntry /\ f[4] = request.flags
  /\ cut = 0 =>
       /\ SubSeq(f, 25, 32) = request.ledgerId
       /\ SubSeq(f, 33, 40) = request.entryId
       /\ SubSeq(f, 41, Len(f)) = request.data

(* Where the server finds the fields of an add. *)
LEMMA AddFrames ==
  ASSUME NEW request \in ClientRequests, request.opCode = AddEntry,
         NEW cut \in 0 .. 40 + Len(request.data),
         NEW p, p = ClientWrite(request)
  PROVE  AddFrame(SubSeq(p, 5, Len(p) - cut), request, cut)
PROOF
  <1> DEFINE d == request.data
             k == Len(d)
             n == Len(p) - cut
             f == SubSeq(p, 5, n)
  <1>1. /\ Len(p) = 44 + k
        /\ p[5] = request.protocolVersion /\ p[6] = AddEntry
        /\ p[8] = request.flags
        /\ SubSeq(p, 29, 36) = request.ledgerId
        /\ SubSeq(p, 37, 44) = request.entryId
        /\ k > 0 => SubSeq(p, 45, 44 + k) = d
    BY AddLayout
  <1>2. IsPacket(p)
    BY AddLayout
  <1>3. k \in Nat /\ (k = 0 => d = <<>>)
    BY RequestFields, EmptySeq
  <1>4. n \in 4 .. Len(p) /\ n = 44 + k - cut /\ n \in Nat
    <2>1. \A j \in Nat : \A c \in 0 .. 40 + j :
            44 + j - c \in 4 .. 44 + j /\ 44 + j - c \in Nat
      OBVIOUS
    <2>2. 44 + k - cut \in 4 .. 44 + k /\ 44 + k - cut \in Nat
      BY <1>3, <2>1, Zenon
    <2>3. n = 44 + k - cut
      BY <1>1
    <2> QED BY <1>1, <2>2, <2>3, Zenon
  <1> HIDE DEF n, f
  <1>5. /\ f \in Seq(Buffer) /\ Len(f) = n - 4
        /\ \A i \in 1 .. n - 4 : f[i] = p[i + 4]
        /\ \A i, j \in 1 .. n - 4 : SubSeq(f, i, j) = SubSeq(p, i + 4, j + 4)
    <2>1. n \in 4 .. Len(p)
      BY <1>4
    <2>2. BodyIs(f, p, n)
      BY <1>2, <2>1, BodyBytes DEF f
    <2> QED BY <2>2 DEF BodyIs
  <1> HIDE DEF k
  <1>6. Len(f) >= 4 =>
          f[1] = request.protocolVersion /\ f[2] = AddEntry
            /\ f[4] = request.flags
    <2>1. Len(f) >= 4 => {1, 2, 4} \subseteq 1 .. n - 4
      BY <1>4, <1>5
    <2>2. 1 + 4 = 5 /\ 2 + 4 = 6 /\ 4 + 4 = 8
      OBVIOUS
    <2>3. Len(f) >= 4 => f[1] = p[1 + 4] /\ f[2] = p[2 + 4] /\ f[4] = p[4 + 4]
      BY <1>5, <2>1
    <2> QED BY <1>1, <2>2, <2>3
  <1>7. ASSUME cut = 0
        PROVE  /\ SubSeq(f, 25, 32) = request.ledgerId
               /\ SubSeq(f, 33, 40) = request.entryId
    <2>1. {25, 32, 33, 40} \subseteq 1 .. n - 4
      BY <1>3, <1>4, <1>7
    <2>2. /\ SubSeq(f, 25, 32) = SubSeq(p, 25 + 4, 32 + 4)
          /\ SubSeq(f, 33, 40) = SubSeq(p, 33 + 4, 40 + 4)
      BY <1>5, <2>1
    <2>3. 25 + 4 = 29 /\ 32 + 4 = 36 /\ 33 + 4 = 37 /\ 40 + 4 = 44
      OBVIOUS
    <2> QED BY <1>1, <2>2, <2>3
  <1>8. ASSUME cut = 0 PROVE SubSeq(f, 41, Len(f)) = d
    <2>1. Len(f) = 40 + k /\ n - 4 = 40 + k
      BY <1>3, <1>4, <1>5, <1>8
    <2>2. CASE k = 0
      <3>1. 41 \in Int /\ Len(f) \in Int /\ Len(f) < 41
        BY <2>1, <2>2
      <3> QED BY <1>3, <2>2, <3>1, SubSeqEmpty
    <2>3. CASE k > 0
      <3>1. 41 \in 1 .. n - 4 /\ 40 + k \in 1 .. n - 4
        BY <1>3, <2>1, <2>3
      <3>2. SubSeq(f, 41, 40 + k) = SubSeq(p, 41 + 4, 40 + k + 4)
        BY <1>5, <3>1
      <3>3. 41 + 4 = 45 /\ 40 + k + 4 = 44 + k
        BY <1>3
      <3> QED BY <1>1, <2>1, <2>3, <3>2, <3>3
    <2>4. k = 0 \/ k > 0
      BY <1>3
    <2> QED BY <2>2, <2>3, <2>4
  <1>9. Len(f) = 40 + k - cut
    BY <1>3, <1>4, <1>5
  <1> QED BY <1>5, <1>6, <1>7, <1>8, <1>9 DEF AddFrame, f, n, k

(* What the header says of what follows it. *)
LEMMA FieldWidths ==
  ASSUME NEW flags
  PROVE  /\ AddEntry # ReadEntry
         /\ MasterKeyLength = 20
         /\ Expected(AddEntry, flags) = 36
         /\ Expected(ReadEntry, flags) = 16 + IF IsFencing(flags) THEN 20 ELSE 0
         /\ MasterKey(AddEntry, flags) = 20
         /\ MasterKey(ReadEntry, flags) = 0
PROOF
  <1>1. AddEntry # ReadEntry
    BY SMT DEF AddEntry, ReadEntry
  <1>2. MasterKeyLength = 20 /\ MasterKeyLength + 16 = 36
    BY SMT DEF MasterKeyLength
  <1> QED BY <1>1, <1>2, Zenon DEF Expected, MasterKey

(* The frame of an add is rejected when it was cut, and read as it was     *)
(* written when it was not.                                                *)
LEMMA AddFrameRead ==
  ASSUME NEW f, NEW request \in ClientRequests, request.opCode = AddEntry,
         NEW cut \in 0 .. 40 + Len(request.data),
         cut = 0 \/ cut > Len(request.data),
         AddFrame(f, request, cut)
  PROVE  /\ WellFormed(f) <=> cut = 0
         /\ cut = 0 => ServerRead(f) = request
PROOF
  <1> DEFINE k == Len(request.data)
  <1>1. k \in Nat
    BY RequestFields
  <1>2. Len(f) = 40 + k - cut
    BY DEF AddFrame
  <1>3. Len(f) >= 4 =>
          f[1] = request.protocolVersion /\ f[2] = AddEntry
            /\ f[4] = request.flags
    BY DEF AddFrame
  <1>4. cut = 0 => /\ SubSeq(f, 25, 32) = request.ledgerId
                   /\ SubSeq(f, 33, 40) = request.entryId
                   /\ SubSeq(f, 41, Len(f)) = request.data
    BY DEF AddFrame
  <1>5. Expected(AddEntry, request.flags) = 36
    BY FieldWidths
  <1>6. Len(f) >= 4 => /\ FromInt(f).version = request.protocolVersion
                       /\ FromInt(f).opCode = AddEntry
                       /\ FromInt(f).flags = request.flags
    BY <1>3 DEF FromInt
  <1>7. WellFormed(f) <=> Len(f) >= 4 /\ Len(f) - 4 >= 36
    BY <1>5, <1>6, Zenon DEF WellFormed
  <1>8. WellFormed(f) <=> cut = 0
    <2>1. \A j \in Nat : \A c \in 0 .. 40 + j :
            c = 0 \/ c > j =>
              (c = 0 <=> 40 + j - c >= 4 /\ (40 + j - c) - 4 >= 36)
      OBVIOUS
    <2>2. cut = 0 <=> 40 + k - cut >= 4 /\ (40 + k - cut) - 4 >= 36
      BY <1>1, <2>1, Zenon
    <2> QED BY <1>2, <1>7, <2>2, Zenon
  <1>9. ASSUME cut = 0 PROVE ServerRead(f) = request
    <2>1. Len(f) >= 4
      BY <1>1, <1>2, <1>9
    <2>2. /\ 5 + MasterKey(AddEntry, request.flags) = 25
          /\ 25 + 7 = 32 /\ 25 + 8 = 33 /\ 33 + 7 = 40 /\ 25 + 16 = 41
      BY FieldWidths
    <2>3. Int64At(f, 25) = request.ledgerId /\ Int64At(f, 33) = request.entryId
      BY <1>4, <1>9, <2>2, Zenon DEF Int64At
    <2>4. ServerRead(f) =
            [protocolVersion |-> request.protocolVersion,
             opCode |-> AddEntry, flags |-> request.flags,
             ledgerId |-> request.ledgerId, entryId |-> request.entryId,
             data |-> request.data]
      BY <1>4, <1>6, <1>9, <2>1, <2>2, <2>3, Zenon DEF ServerRead
    <2> QED BY <2>4, RequestFields
  <1> QED BY <1>8, <1>9

(* A packet is a frame that the decoder cuts off at its end.               *)
LEMMA PacketFrame ==
  ASSUME NEW p, IsPacket(p)
  PROVE  Frame(p) = Body(p)
PROOF
  <1>1. p \in Seq(Buffer)
    BY DEF IsPacket
  <1>2. Frame(p \o <<>>) = Body(p)
    BY FramesAreCut, EmptySeq
  <1> QED BY <1>1, <1>2, ConcatEmptySeq

(* What a client writes for an add, the server reads: every field, for     *)
(* every value it can have, at whatever offset the data leave it.          *)
THEOREM AddsArrive ==
  ASSUME NEW request \in ClientRequests, request.opCode = AddEntry
  PROVE  /\ WellFormed(Frame(ClientWrite(request)))
         /\ ServerRead(Frame(ClientWrite(request))) = request
PROOF
  <1> DEFINE p == ClientWrite(request)
  <1>1. IsPacket(p) /\ Len(p) \in Nat
    <2>1. IsPacket(p)
      BY AddLayout
    <2> QED BY <2>1, LenProperties DEF IsPacket
  <1>2. 0 \in 0 .. 40 + Len(request.data)
    <2>1. Len(request.data) \in Nat
      BY RequestFields
    <2> QED BY <2>1
  <1>3. AddFrame(SubSeq(p, 5, Len(p) - 0), request, 0)
    BY <1>2, AddFrames
  <1>4. Frame(p) = SubSeq(p, 5, Len(p) - 0)
    <2>1. Len(p) - 0 = Len(p)
      BY <1>1
    <2> QED BY <1>1, <2>1, PacketFrame DEF Body
  <1> QED BY <1>2, <1>3, <1>4, AddFrameRead

(* The key behind a read that fences. *)
KeyOf(request) == IF IsFencing(request.flags) THEN MasterKeyLength ELSE 0

(* Where a client puts the fields of a read. *)
LEMMA ReadLayout ==
  ASSUME NEW request \in ClientRequests, NEW p, p = ReadFrame(request)
  PROVE  /\ IsPacket(p)
         /\ KeyOf(request) \in {0, 20}
         /\ Len(p) = 24 + KeyOf(request)
         /\ p[5] = request.protocolVersion
         /\ p[6] = request.opCode
         /\ p[8] = request.flags
         /\ SubSeq(p, 9, 16) = request.ledgerId
         /\ SubSeq(p, 17, 24) = request.entryId
PROOF
  <1> DEFINE v  == KeyOf(request)
             n  == 20 + v
             a  == Int32(n)
             b  == ToInt(request.protocolVersion, request.opCode, request.flags)
             l  == request.ledgerId
             e  == request.entryId
             k  == Blank(v)
             p1 == a \o b
             p2 == p1 \o l
             p3 == p2 \o e
  <1>1. v \in {0, 20}
    BY FieldWidths, Zenon DEF KeyOf
  <1>2. p = p3 \o k
    BY DEF ReadFrame, KeyOf
  <1> HIDE DEF v
  <1>3. n \in 0 .. MaxFrameSize /\ v \in Nat /\ n = 20 + v
    <2>1. 255 <= MaxFrameSize /\ MaxFrameSize \in Nat
      BY SmallNumbers, LargestFrame
    <2>2. n \in 0 .. 255
      BY <1>1
    <2> QED BY <1>1, <2>1, <2>2
  <1> HIDE DEF n
  <1>4. a \in Seq(Buffer) /\ Len(a) = 4 /\ Announced(a) = n
    BY <1>3, Int32Bytes
  <1>5. /\ b \in Seq(Buffer) /\ Len(b) = 4 /\ b[1] = request.protocolVersion
        /\ b[2] = request.opCode /\ b[4] = request.flags
    BY RequestFields, HeaderBytes
  <1>6. /\ l \in Seq(Buffer) /\ Len(l) = 8 /\ e \in Seq(Buffer) /\ Len(e) = 8
        /\ k \in Seq(Buffer) /\ Len(k) = v
    BY <1>3, RequestFields, Int64Bytes, BlankBytes
  <1> HIDE DEF a, b, l, e, k
  <1>7. /\ p1 \in Seq(Buffer) /\ Len(p1) = 8
        /\ \A i \in 1 .. 4 : p1[i] = a[i]
        /\ \A i \in 1 .. 4 : p1[4 + i] = b[i]
    <2>1. Joins(p1, a, b)
      BY <1>4, <1>5, BuffersJoin
    <2> QED BY <1>4, <1>5, <2>1 DEF Joins
  <1> HIDE DEF p1
  <1>8. /\ p2 \in Seq(Buffer) /\ Len(p2) = 16
        /\ \A i \in 1 .. 8 : p2[i] = p1[i]
        /\ SubSeq(p2, 9, 16) = l
    <2>1. Joins(p2, p1, l)
      BY <1>6, <1>7, BuffersJoin
    <2>2. Len(p1) + 1 = 9 /\ Len(p1) + Len(l) = 16 /\ Len(l) > 0
      BY <1>6, <1>7
    <2> QED BY <1>7, <2>1, <2>2 DEF Joins
  <1> HIDE DEF p2
  <1>9. /\ p3 \in Seq(Buffer) /\ Len(p3) = 24
        /\ \A i \in 1 .. 16 : p3[i] = p2[i]
        /\ SubSeq(p3, 9, 16) = l
        /\ SubSeq(p3, 17, 24) = e
    <2>1. Joins(p3, p2, e)
      BY <1>6, <1>8, BuffersJoin
    <2>2. /\ Len(p2) + 1 = 17 /\ Len(p2) + Len(e) = 24 /\ Len(e) > 0
          /\ 9 \in 1 .. 16 /\ 16 \in 1 .. 16
      BY <1>6, <1>8
    <2> QED BY <1>8, <2>1, <2>2 DEF Joins
  <1> HIDE DEF p3
  <1>10. /\ p \in Seq(Buffer) /\ Len(p) = 24 + v
         /\ \A i \in 1 .. 24 : p[i] = p3[i]
         /\ SubSeq(p, 9, 16) = l
         /\ SubSeq(p, 17, 24) = e
    <2>1. Joins(p, p3, k)
      BY <1>2, <1>6, <1>9, BuffersJoin
    <2>2. 9 \in 1 .. 24 /\ 16 \in 1 .. 24 /\ 17 \in 1 .. 24 /\ 24 \in 1 .. 24
      OBVIOUS
    <2>3. \A i, j \in 1 .. Len(p3) : SubSeq(p, i, j) = SubSeq(p3, i, j)
      BY <2>1, Zenon DEF Joins
    <2>4. SubSeq(p, 9, 16) = l /\ SubSeq(p, 17, 24) = e
      BY <1>9, <2>2, <2>3, Zenon
    <2>5. /\ p \in Seq(Buffer) /\ Len(p) = 24 + v
          /\ \A i \in 1 .. 24 : p[i] = p3[i]
      BY <1>6, <1>9, <2>1 DEF Joins
    <2> QED BY <2>4, <2>5
  <1>11. \A i \in 1 .. 8 : p[i] = p1[i]
    <2> TAKE i \in 1 .. 8
    <2>1. i \in 1 .. 16 /\ i \in 1 .. 24
      OBVIOUS
    <2>2. p[i] = p3[i]
      BY <1>10, <2>1
    <2>3. p3[i] = p2[i]
      BY <1>9, <2>1
    <2>4. p2[i] = p1[i]
      BY <1>8
    <2> QED BY <2>2, <2>3, <2>4
  <1>12. p[5] = b[1] /\ p[6] = b[2] /\ p[8] = b[4]
    <2>1. p1[4 + 1] = b[1] /\ p1[4 + 2] = b[2] /\ p1[4 + 4] = b[4]
      BY <1>7
    <2>2. 4 + 1 = 5 /\ 4 + 2 = 6 /\ 4 + 4 = 8
      OBVIOUS
    <2>3. 5 \in 1 .. 8 /\ 6 \in 1 .. 8 /\ 8 \in 1 .. 8
      OBVIOUS
    <2> QED BY <1>11, <2>1, <2>2, <2>3
  <1>13. Announced(p) = n
    <2>1. {1, 2, 3, 4} \subseteq 1 .. 8 /\ {1, 2, 3, 4} \subseteq 1 .. 4
      BY SMT
    <2>2. p[1] = a[1] /\ p[2] = a[2] /\ p[3] = a[3] /\ p[4] = a[4]
      BY <1>7, <1>11, <2>1
    <2> QED BY <1>4, <2>2, SMT DEF Announced
  <1>14. IsPacket(p)
    <2>1. Len(p) >= 4 /\ Len(p) - 4 = n
      BY <1>3, <1>10
    <2> QED BY <1>10, <1>13, <2>1, Zenon DEF IsPacket
  <1> QED BY <1>1, <1>5, <1>10, <1>12, <1>14 DEF l, e, v

(* How the server sees the frame of a read that may lack its end.          *)
ReadFrameCut(f, request, cut) ==
  f = SubSeq(ReadFrame(request), 5, Len(ReadFrame(request)) - cut)

(* The same for a read, cut or whole. *)
LEMMA ReadFrameRead ==
  ASSUME NEW request \in ClientRequests, request.opCode = ReadEntry,
         NEW cut \in 0 .. 20 + KeyOf(request),
         NEW f, ReadFrameCut(f, request, cut)
  PROVE  /\ WellFormed(f) <=> cut = 0
         /\ cut = 0 => ServerRead(f) = request
PROOF
  <1> DEFINE v == KeyOf(request)
             p == ReadFrame(request)
             n == Len(p) - cut
  <1>1. /\ v \in {0, 20} /\ Len(p) = 24 + v
        /\ p[5] = request.protocolVersion /\ p[6] = ReadEntry
        /\ p[8] = request.flags
        /\ SubSeq(p, 9, 16) = request.ledgerId
        /\ SubSeq(p, 17, 24) = request.entryId
    BY ReadLayout
  <1>2. IsPacket(p)
    BY ReadLayout
  <1>a. ReadFrameCut(f, request, cut)
    OBVIOUS
  <1>b. f = SubSeq(p, 5, n)
    BY <1>a DEF ReadFrameCut
  <1> HIDE DEF v, p
  <1>3. n \in 4 .. Len(p) /\ n - 4 = 20 + v - cut /\ cut \in 0 .. 20 + v
    <2>1. cut \in 0 .. 20 + v
      BY DEF v
    <2>2. \A w \in {0, 20} : \A c \in 0 .. 20 + w :
            /\ 24 + w - c \in 4 .. 24 + w
            /\ (24 + w - c) - 4 = 20 + w - c
      OBVIOUS
    <2>3. /\ 24 + v - cut \in 4 .. 24 + v
          /\ (24 + v - cut) - 4 = 20 + v - cut
      BY <1>1, <2>1, <2>2, Zenon
    <2>4. n = 24 + v - cut
      <3>1. \A w \in {0, 20} : \A c \in 0 .. 20 + w : (24 + w) - c = 24 + w - c
        OBVIOUS
      <3>2. (24 + v) - cut = 24 + v - cut
        BY <1>1, <2>1, <3>1, Zenon
      <3>3. n = (24 + v) - cut
        BY <1>1, Zenon
      <3> QED BY <3>2, <3>3, Zenon
    <2> QED BY <1>1, <2>1, <2>3, <2>4, Zenon
  <1> HIDE DEF n
  <1>4. BodyIs(f, p, n)
    BY <1>2, <1>3, <1>b, BodyBytes
  <1>5. Len(f) = 20 + v - cut
    BY <1>3, <1>4 DEF BodyIs
  <1>6. /\ \A i \in 1 .. Len(f) : f[i] = p[i + 4]
        /\ \A i, j \in 1 .. Len(f) : SubSeq(f, i, j) = SubSeq(p, i + 4, j + 4)
    <2>1. n - 4 = Len(f)
      BY <1>4 DEF BodyIs
    <2> QED BY <1>4, <2>1 DEF BodyIs
  <1>7. Len(f) \in Nat
    BY <1>4, LenProperties DEF BodyIs
  <1>8. Len(f) >= 4 => /\ FromInt(f).version = request.protocolVersion
                       /\ FromInt(f).opCode = ReadEntry
                       /\ FromInt(f).flags = request.flags
    <2>1. Len(f) >= 4 => {1, 2, 4} \subseteq 1 .. Len(f)
      BY <1>7
    <2>2. 1 + 4 = 5 /\ 2 + 4 = 6 /\ 4 + 4 = 8
      OBVIOUS
    <2>3. Len(f) >= 4 => f[1] = p[1 + 4] /\ f[2] = p[2 + 4] /\ f[4] = p[4 + 4]
      BY <1>6, <2>1
    <2> QED BY <1>1, <2>2, <2>3 DEF FromInt
  <1>9. Expected(ReadEntry, request.flags) = 16 + v
    BY FieldWidths, Zenon DEF v, KeyOf
  <1>10. WellFormed(f) <=> Len(f) >= 4 /\ Len(f) - 4 >= 16 + v
    BY <1>8, <1>9, Zenon DEF WellFormed
  <1>11. WellFormed(f) <=> cut = 0
    <2>1. \A w \in {0, 20} : \A c \in 0 .. 20 + w :
            c = 0 <=> 20 + w - c >= 4 /\ (20 + w - c) - 4 >= 16 + w
      OBVIOUS
    <2>2. cut = 0 <=> 20 + v - cut >= 4 /\ (20 + v - cut) - 4 >= 16 + v
      BY <1>1, <1>3, <2>1, Zenon
    <2> QED BY <1>5, <1>10, <2>2, Zenon
  <1>12. ASSUME cut = 0 PROVE ServerRead(f) = request
    <2>1. Len(f) >= 20
      <3>1. \A w \in {0, 20} : 20 + w - 0 >= 20
        OBVIOUS
      <3> QED BY <1>1, <1>5, <1>12, <3>1, Zenon
    <2>2. Len(f) >= 4 /\ {5, 12, 13, 20} \subseteq 1 .. Len(f)
      BY <1>7, <2>1
    <2>3. /\ 5 + MasterKey(ReadEntry, request.flags) = 5
          /\ 5 + 7 = 12 /\ 5 + 8 = 13 /\ 13 + 7 = 20
          /\ 5 + 4 = 9 /\ 12 + 4 = 16 /\ 13 + 4 = 17 /\ 20 + 4 = 24
      BY FieldWidths
    <2>4. /\ SubSeq(f, 5, 12) = SubSeq(p, 5 + 4, 12 + 4)
          /\ SubSeq(f, 13, 20) = SubSeq(p, 13 + 4, 20 + 4)
      BY <1>6, <2>2
    <2>5. Int64At(f, 5) = request.ledgerId /\ Int64At(f, 13) = request.entryId
      BY <1>1, <2>3, <2>4, Zenon DEF Int64At
    <2>6. ServerRead(f) =
            [protocolVersion |-> request.protocolVersion,
             opCode |-> ReadEntry, flags |-> request.flags,
             ledgerId |-> request.ledgerId, entryId |-> request.entryId,
             data |-> <<>>]
      BY <1>8, <2>2, <2>3, <2>5, FieldWidths, Zenon DEF ServerRead
    <2> QED BY <2>6, RequestFields
  <1> QED BY <1>11, <1>12

(* So is a read: the server finds its fields, with the key or without.     *)
THEOREM ReadsArrive ==
  ASSUME NEW request \in ClientRequests, request.opCode = ReadEntry
  PROVE  /\ WellFormed(Frame(ReadFrame(request)))
         /\ ServerRead(Frame(ReadFrame(request))) = request
PROOF
  <1> DEFINE p == ReadFrame(request)
  <1>1. IsPacket(p) /\ Len(p) \in Nat /\ 0 \in 0 .. 20 + KeyOf(request)
    <2>1. IsPacket(p) /\ KeyOf(request) \in {0, 20}
      BY ReadLayout
    <2>2. \A w \in {0, 20} : 0 \in 0 .. 20 + w
      OBVIOUS
    <2> QED BY <2>1, <2>2, LenProperties DEF IsPacket
  <1>2. Frame(p) = SubSeq(p, 5, Len(p) - 0)
    <2>1. Len(p) - 0 = Len(p)
      BY <1>1
    <2> QED BY <1>1, <2>1, PacketFrame DEF Body
  <1>3. ReadFrameCut(Frame(p), request, 0)
    BY <1>2 DEF ReadFrameCut
  <1> QED BY <1>1, <1>3, ReadFrameRead

-----------------------------------------------------------------------------
(* Responses *)

(* Where the server puts the fields of a response. *)
LEMMA ResponseLayout ==
  ASSUME NEW response \in Responses, NEW p, p = ServerWrite(response)
  PROVE  /\ IsPacket(p)
         /\ Len(p) = 32
         /\ p[5] = response.protocolVersion
         /\ p[6] = response.opCode
         /\ p[12] = response.errorCode
         /\ SubSeq(p, 13, 20) = response.ledgerId
         /\ SubSeq(p, 21, 28) = response.entryId
PROOF
  <1> DEFINE a  == Int32(28)
             b  == ToInt(response.protocolVersion, response.opCode, 0)
             x  == Int32(response.errorCode)
             l  == response.ledgerId
             e  == response.entryId
             k  == Blank(4)
             p1 == a \o b
             p2 == p1 \o x
             p3 == p2 \o l
             p4 == p3 \o e
  <1>1. /\ response.protocolVersion \in Octets /\ response.opCode \in Octets
        /\ response.errorCode \in Octets
        /\ response.ledgerId \in Int64s /\ response.entryId \in Int64s
    BY DEF Responses
  <1>2. /\ 28 \in 0 .. MaxFrameSize /\ 0 \in Octets
        /\ \A n \in Octets : n \in 0 .. MaxFrameSize /\ n < 256
    BY SmallNumbers
  <1>3. a \in Seq(Buffer) /\ Len(a) = 4 /\ Announced(a) = 28
    BY <1>2, Int32Bytes
  <1>4. /\ b \in Seq(Buffer) /\ Len(b) = 4 /\ b[1] = response.protocolVersion
        /\ b[2] = response.opCode
    BY <1>1, <1>2, HeaderBytes
  <1>5. x \in Seq(Buffer) /\ Len(x) = 4 /\ x[4] = response.errorCode
    BY <1>1, <1>2, Int32Bytes
  <1>6. /\ l \in Seq(Buffer) /\ Len(l) = 8 /\ e \in Seq(Buffer) /\ Len(e) = 8
        /\ k \in Seq(Buffer) /\ Len(k) = 4
    BY <1>1, Int64Bytes, BlankBytes
  <1>7. p = p4 \o k
    BY DEF ServerWrite
  <1> HIDE DEF a, b, x, l, e, k
  <1>8. /\ p1 \in Seq(Buffer) /\ Len(p1) = 8
        /\ \A i \in 1 .. 4 : p1[i] = a[i]
        /\ \A i \in 1 .. 4 : p1[4 + i] = b[i]
    <2>1. Joins(p1, a, b)
      BY <1>3, <1>4, BuffersJoin
    <2> QED BY <1>3, <1>4, <2>1 DEF Joins
  <1> HIDE DEF p1
  <1>9. /\ p2 \in Seq(Buffer) /\ Len(p2) = 12
        /\ \A i \in 1 .. 8 : p2[i] = p1[i]
        /\ p2[12] = x[4]
    <2>1. Joins(p2, p1, x)
      BY <1>5, <1>8, BuffersJoin
    <2>2. Len(p1) + Len(x) = 12 /\ Len(p1) + 4 = 12 /\ 4 \in 1 .. Len(x)
      BY <1>5, <1>8
    <2> QED BY <1>8, <2>1, <2>2 DEF Joins
  <1> HIDE DEF p2
  <1>10. /\ p3 \in Seq(Buffer) /\ Len(p3) = 20
         /\ \A i \in 1 .. 12 : p3[i] = p2[i]
         /\ SubSeq(p3, 13, 20) = l
    <2>1. Joins(p3, p2, l)
      BY <1>6, <1>9, BuffersJoin
    <2>2. Len(p2) + 1 = 13 /\ Len(p2) + Len(l) = 20 /\ Len(l) > 0
      BY <1>6, <1>9
    <2> QED BY <1>9, <2>1, <2>2 DEF Joins
  <1> HIDE DEF p3
  <1>11. /\ p4 \in Seq(Buffer) /\ Len(p4) = 28
         /\ \A i \in 1 .. 20 : p4[i] = p3[i]
         /\ SubSeq(p4, 13, 20) = l
         /\ SubSeq(p4, 21, 28) = e
    <2>1. Joins(p4, p3, e)
      BY <1>6, <1>10, BuffersJoin
    <2>2. /\ Len(p3) + 1 = 21 /\ Len(p3) + Len(e) = 28 /\ Len(e) > 0
          /\ 13 \in 1 .. 20 /\ 20 \in 1 .. 20
      BY <1>6, <1>10
    <2> QED BY <1>10, <2>1, <2>2 DEF Joins
  <1> HIDE DEF p4
  <1>12. /\ p \in Seq(Buffer) /\ Len(p) = 32
         /\ \A i \in 1 .. 28 : p[i] = p4[i]
         /\ SubSeq(p, 13, 20) = l
         /\ SubSeq(p, 21, 28) = e
    <2>1. Joins(p, p4, k)
      BY <1>6, <1>7, <1>11, BuffersJoin
    <2>2. /\ Len(p4) + Len(k) = 32
          /\ 13 \in 1 .. 28 /\ 20 \in 1 .. 28 /\ 21 \in 1 .. 28 /\ 28 \in 1 .. 28
      BY <1>6, <1>11
    <2>3. /\ p \in Seq(Buffer) /\ Len(p) = 32
          /\ \A i \in 1 .. 28 : p[i] = p4[i]
      BY <1>11, <2>1, <2>2 DEF Joins
    <2>4. SubSeq(p, 13, 20) = l
      <3>1. \A i, j \in 1 .. Len(p4) : SubSeq(p, i, j) = SubSeq(p4, i, j)
        BY <2>1, Zenon DEF Joins
      <3>2. 13 \in 1 .. Len(p4) /\ 20 \in 1 .. Len(p4)
        BY <1>11, <2>2, Zenon
      <3> QED BY <1>11, <3>1, <3>2, Zenon
    <2>5. SubSeq(p, 21, 28) = e
      <3>1. \A i, j \in 1 .. Len(p4) : SubSeq(p, i, j) = SubSeq(p4, i, j)
        BY <2>1, Zenon DEF Joins
      <3>2. 21 \in 1 .. Len(p4) /\ 28 \in 1 .. Len(p4)
        BY <1>11, <2>2, Zenon
      <3> QED BY <1>11, <3>1, <3>2, Zenon
    <2> QED BY <2>3, <2>4, <2>5
  <1>13. \A i \in 1 .. 12 : p[i] = p2[i]
    <2> TAKE i \in 1 .. 12
    <2>1. i \in 1 .. 20 /\ i \in 1 .. 28
      OBVIOUS
    <2>2. p[i] = p4[i]
      BY <1>12, <2>1
    <2>3. p4[i] = p3[i]
      BY <1>11, <2>1
    <2>4. p3[i] = p2[i]
      BY <1>10
    <2> QED BY <2>2, <2>3, <2>4
  <1>14. p[5] = b[1] /\ p[6] = b[2] /\ p[12] = x[4]
    <2>1. p1[4 + 1] = b[1] /\ p1[4 + 2] = b[2]
      BY <1>8
    <2>2. 4 + 1 = 5 /\ 4 + 2 = 6
      OBVIOUS
    <2>3. /\ 5 \in 1 .. 8 /\ 6 \in 1 .. 8
          /\ 5 \in 1 .. 12 /\ 6 \in 1 .. 12 /\ 12 \in 1 .. 12
      OBVIOUS
    <2> QED BY <1>9, <1>13, <2>1, <2>2, <2>3
  <1>15. Announced(p) = 28
    <2>1. /\ {1, 2, 3, 4} \subseteq 1 .. 12 /\ {1, 2, 3, 4} \subseteq 1 .. 8
          /\ {1, 2, 3, 4} \subseteq 1 .. 4
      BY SMT
    <2>2. p[1] = a[1] /\ p[2] = a[2] /\ p[3] = a[3] /\ p[4] = a[4]
      BY <1>8, <1>9, <1>13, <2>1
    <2> QED BY <1>3, <2>2, SMT DEF Announced
  <1>16. IsPacket(p)
    BY <1>12, <1>15, SMT DEF IsPacket
  <1> QED BY <1>4, <1>5, <1>12, <1>14, <1>16 DEF l, e

(* What the server writes, the client reads: version, operation, error and *)
(* the two identifiers, whatever is in the bytes that nobody wrote.        *)
THEOREM ResponsesArrive ==
  ASSUME NEW response \in Responses
  PROVE  ClientRead(Body(ServerWrite(response))) = response
PROOF
  <1> DEFINE p == ServerWrite(response)
             f == Body(p)
  <1>1. /\ IsPacket(p) /\ Len(p) = 32
        /\ p[5] = response.protocolVersion /\ p[6] = response.opCode
        /\ p[12] = response.errorCode
        /\ SubSeq(p, 13, 20) = response.ledgerId
        /\ SubSeq(p, 21, 28) = response.entryId
    BY ResponseLayout
  <1> HIDE DEF p
  <1>2. BodyIs(f, p, 32)
    <2>1. 32 \in 4 .. Len(p)
      BY <1>1
    <2> QED BY <1>1, <2>1, BodyBytes DEF Body
  <1> HIDE DEF f
  <1>3. 32 - 4 = 28
    OBVIOUS
  <1>4. /\ \A i \in 1 .. 28 : f[i] = p[i + 4]
        /\ \A i, j \in 1 .. 28 : SubSeq(f, i, j) = SubSeq(p, i + 4, j + 4)
    BY <1>2, <1>3, Zenon DEF BodyIs
  <1>5. {1, 2, 8, 9, 16, 17, 24} \subseteq 1 .. 28
    OBVIOUS
  <1>6. /\ f[1] = p[1 + 4] /\ f[2] = p[2 + 4] /\ f[8] = p[8 + 4]
        /\ SubSeq(f, 9, 16) = SubSeq(p, 9 + 4, 16 + 4)
        /\ SubSeq(f, 17, 24) = SubSeq(p, 17 + 4, 24 + 4)
    BY <1>4, <1>5
  <1>7. /\ 1 + 4 = 5 /\ 2 + 4 = 6 /\ 8 + 4 = 12 /\ 9 + 4 = 13 /\ 16 + 4 = 20
        /\ 17 + 4 = 21 /\ 24 + 4 = 28 /\ 9 + 7 = 16 /\ 17 + 7 = 24
    OBVIOUS
  <1>8. /\ f[1] = response.protocolVersion /\ f[2] = response.opCode
        /\ f[8] = response.errorCode
        /\ SubSeq(f, 9, 16) = response.ledgerId
        /\ SubSeq(f, 17, 24) = response.entryId
    BY <1>1, <1>6, <1>7
  <1>9. /\ Int64At(f, 9) = response.ledgerId
        /\ Int64At(f, 17) = response.entryId
    BY <1>7, <1>8, Zenon DEF Int64At
  <1>10. ClientRead(f) =
           [protocolVersion |-> response.protocolVersion,
            opCode |-> response.opCode, errorCode |-> response.errorCode,
            ledgerId |-> response.ledgerId, entryId |-> response.entryId]
    BY <1>8, <1>9, Zenon DEF ClientRead, FromInt
  <1> QED BY <1>10 DEF Responses, f, p

-----------------------------------------------------------------------------
(* Streams *)

(* The stream s holds the n packets of q and nothing else; rest[i] is what *)
(* follows the first i of them.                                            *)
Carries(s, n, q) ==
  \E rest \in [0 .. n -> Seq(Buffer)] :
    /\ rest[0] = s
    /\ rest[n] = <<>>
    /\ \A i \in 1 .. n : rest[i - 1] = q[i] \o rest[i]

(* An empty stream holds nothing. *)
LEMMA CarriesNothing ==
  ASSUME NEW q
  PROVE  Carries(<<>>, 0, q)
PROOF
  <1> DEFINE rest == [i \in 0 .. 0 |-> <<>>]
  <1>1. rest \in [0 .. 0 -> Seq(Buffer)]
    BY EmptySeq
  <1>2. rest[0] = <<>>
    OBVIOUS
  <1>3. \A i \in 1 .. 0 : rest[i - 1] = q[i] \o rest[i]
    OBVIOUS
  <1> QED BY <1>1, <1>2, <1>3 DEF Carries

(* Buffers are joined in any order. *)
LEMMA BuffersAssociate ==
  \A x, y, z \in Seq(Buffer) : (x \o y) \o z = x \o (y \o z)
PROOF
  <1> TAKE x, y, z \in Seq(Buffer)
  <1> QED BY ConcatAssociative

(* What is written goes behind what is there. *)
LEMMA CarriesMore ==
  ASSUME NEW s, NEW n \in Nat, NEW q, Carries(s, n, q),
         NEW p \in Seq(Buffer), NEW r,
         \A i \in 1 .. n : r[i] = q[i] /\ q[i] \in Seq(Buffer),
         r[n + 1] = p
  PROVE  Carries(s \o p, n + 1, r)
PROOF
  <1>1. PICK rest \in [0 .. n -> Seq(Buffer)] :
          /\ rest[0] = s
          /\ rest[n] = <<>>
          /\ \A i \in 1 .. n : rest[i - 1] = q[i] \o rest[i]
    BY DEF Carries
  <1> DEFINE more == [i \in 0 .. n + 1 |-> IF i <= n THEN rest[i] \o p ELSE <<>>]
  <1>2. \A i \in 0 .. n : rest[i] \in Seq(Buffer) /\ rest[i] \o p \in Seq(Buffer)
    BY ConcatProperties
  <1>3. /\ \A i \in 0 .. n : more[i] = rest[i] \o p
        /\ more[n + 1] = <<>>
    OBVIOUS
  <1>4. more \in [0 .. n + 1 -> Seq(Buffer)]
    BY <1>2, EmptySeq
  <1> HIDE DEF more
  <1>5. more[0] = s \o p
    <2>1. 0 \in 0 .. n
      OBVIOUS
    <2> QED BY <1>1, <1>3, <2>1
  <1>6. ASSUME NEW i \in 1 .. n + 1
        PROVE  more[i - 1] = r[i] \o more[i]
    <2>1. CASE i = n + 1
      <3>1. i - 1 = n /\ n \in 0 .. n
        BY <2>1
      <3>2. more[n] = <<>> \o p
        BY <1>1, <1>3, <3>1
      <3>3. <<>> \o p = p /\ p \o <<>> = p
        BY ConcatEmptySeq
      <3> QED BY <1>3, <2>1, <3>1, <3>2, <3>3
    <2>2. CASE i \in 1 .. n
      <3>1. i - 1 \in 0 .. n /\ i \in 0 .. n
        BY <2>2
      <3>2. more[i - 1] = rest[i - 1] \o p /\ more[i] = rest[i] \o p
        BY <1>3, <3>1
      <3>3. rest[i - 1] = q[i] \o rest[i] /\ r[i] = q[i] /\ q[i] \in Seq(Buffer)
        BY <1>1, <2>2
      <3>4. (q[i] \o rest[i]) \o p = q[i] \o (rest[i] \o p)
        <4>1. rest[i] \in Seq(Buffer)
          BY <1>2, <3>1
        <4>2. q[i] \in Seq(Buffer)
          BY <3>3
        <4>3. \A x, y, z \in Seq(Buffer) : (x \o y) \o z = x \o (y \o z)
          BY BuffersAssociate
        <4> QED BY <4>1, <4>2, <4>3
      <3> QED BY <3>2, <3>3, <3>4
    <2>3. i = n + 1 \/ i \in 1 .. n
      OBVIOUS
    <2> QED BY <2>1, <2>2, <2>3
  <1>7. \A i \in 1 .. n + 1 : more[i - 1] = r[i] \o more[i]
    BY <1>6
  <1> QED BY <1>3, <1>4, <1>5, <1>7 DEF Carries

(* The decoder takes the first packet and leaves the others. *)
LEMMA CarriesLess ==
  ASSUME NEW s, NEW n \in Nat, NEW q, Carries(s, n, q), FrameReady(s), NEW r,
         n > 0 => IsPacket(q[1]),
         \A i \in 1 .. n - 1 : r[i] = q[i + 1]
  PROVE  /\ n > 0
         /\ Frame(s) = Body(q[1])
         /\ Carries(AfterFrame(s), n - 1, r)
PROOF
  <1>1. PICK rest \in [0 .. n -> Seq(Buffer)] :
          /\ rest[0] = s
          /\ rest[n] = <<>>
          /\ \A i \in 1 .. n : rest[i - 1] = q[i] \o rest[i]
    BY DEF Carries
  <1>2. n > 0
    <2> SUFFICES ASSUME n = 0 PROVE FALSE
      OBVIOUS
    <2>1. s = <<>>
      BY <1>1
    <2>2. Len(s) = 0
      BY <2>1, EmptySeq, Zenon
    <2>3. ~(0 >= 4)
      OBVIOUS
    <2> QED BY <2>2, <2>3, Zenon DEF FrameReady
  <1>3. 0 \in 0 .. n /\ 1 \in 0 .. n /\ 1 \in 1 .. n /\ 1 - 1 = 0
    BY <1>2
  <1>4. s = q[1] \o rest[1] /\ rest[1] \in Seq(Buffer)
    BY <1>1, <1>3
  <1>5. Frame(s) = Body(q[1]) /\ AfterFrame(s) = rest[1]
    BY <1>2, <1>4, FramesAreCut
  <1> DEFINE less == [i \in 0 .. n - 1 |-> rest[i + 1]]
  <1>6. less \in [0 .. n - 1 -> Seq(Buffer)]
    BY <1>2
  <1>7. less[0] = AfterFrame(s) /\ less[n - 1] = <<>>
    <2>1. /\ 0 \in 0 .. n - 1 /\ n - 1 \in 0 .. n - 1 /\ 0 + 1 = 1
          /\ (n - 1) + 1 = n
      BY <1>2
    <2> QED BY <1>1, <1>5, <2>1
  <1>8. ASSUME NEW i \in 1 .. n - 1
        PROVE  less[i - 1] = r[i] \o less[i]
    <2>1. /\ i - 1 \in 0 .. n - 1 /\ i \in 0 .. n - 1 /\ i + 1 \in 1 .. n
          /\ (i - 1) + 1 = i /\ (i + 1) - 1 = i
      BY <1>2
    <2>2. less[i - 1] = rest[i] /\ less[i] = rest[i + 1]
      BY <2>1
    <2>3. rest[i] = q[i + 1] \o rest[i + 1]
      BY <1>1, <2>1
    <2> QED BY <2>2, <2>3
  <1> HIDE DEF less
  <1>9. \A i \in 1 .. n - 1 : less[i - 1] = r[i] \o less[i]
    BY <1>8
  <1>10. Carries(AfterFrame(s), n - 1, r)
    BY <1>6, <1>7, <1>9 DEF Carries
  <1> QED BY <1>2, <1>5, <1>10

(* A stream is a buffer. *)
LEMMA CarriesBuffer ==
  ASSUME NEW s, NEW n \in Nat, NEW q, Carries(s, n, q)
  PROVE  s \in Seq(Buffer)
PROOF
  BY DEF Carries

(* The packets of what s holds behind its first k elements are on their    *)
(* way; wire[x] is the packet of x.                                        *)
InTransit(b, s, k, wire) ==
  Carries(b, Len(s) - k, [i \in 1 .. Len(s) - k |-> wire[s[k + i]]])

(* At first nothing is on its way.                                         *)
LEMMA TransitStarts ==
  ASSUME NEW wire
  PROVE  InTransit(<<>>, <<>>, 0, wire)
PROOF
  <1>1. Len(<<>>) - 0 = 0
    BY EmptySeq
  <1> QED BY <1>1, CarriesNothing, Zenon DEF InTransit

(* What is sent follows what is on its way.                                *)
LEMMA TransitGrows ==
  ASSUME NEW S, NEW wire, \A x \in S : IsPacket(wire[x]),
         NEW s \in Seq(S), NEW k \in 0 .. Len(s), NEW b,
         InTransit(b, s, k, wire), NEW x \in S
  PROVE  InTransit(b \o wire[x], Append(s, x), k, wire)
PROOF
  <1> DEFINE n == Len(s) - k
             t == Append(s, x)
             q == [i \in 1 .. n |-> wire[s[k + i]]]
             r == [i \in 1 .. n + 1 |-> wire[t[k + i]]]
  <1>1. Len(s) \in Nat /\ n \in Nat /\ Len(t) - k = n + 1
    OBVIOUS
  <1>2. \A i \in 1 .. n : k + i \in 1 .. Len(s) /\ i \in 1 .. n + 1
    BY <1>1
  <1>3. k + (n + 1) = Len(s) + 1 /\ n + 1 \in 1 .. n + 1
    BY <1>1
  <1>4. /\ \A i \in 1 .. Len(s) : t[i] = s[i] /\ s[i] \in S
        /\ t[Len(s) + 1] = x
    OBVIOUS
  <1>5. Carries(b, n, q)
    BY DEF InTransit
  <1> HIDE DEF n, t
  <1>6. \A i \in 1 .. n : r[i] = q[i] /\ q[i] \in Seq(Buffer)
    BY <1>2, <1>4 DEF IsPacket
  <1>7. r[n + 1] = wire[x] /\ wire[x] \in Seq(Buffer)
    BY <1>3, <1>4 DEF IsPacket
  <1> HIDE DEF q, r
  <1>8. Carries(b \o wire[x], n + 1, r)
    BY <1>1, <1>5, <1>6, <1>7, CarriesMore
  <1> QED BY <1>1, <1>8, Zenon DEF InTransit, r, t

(* The frame that is ready is that of the next element.                    *)
LEMMA TransitShrinks ==
  ASSUME NEW S, NEW wire, \A x \in S : IsPacket(wire[x]),
         NEW s \in Seq(S), NEW k \in 0 .. Len(s), NEW b,
         InTransit(b, s, k, wire), FrameReady(b)
  PROVE  /\ k + 1 \in 1 .. Len(s)
         /\ Frame(b) = Body(wire[s[k + 1]])
         /\ InTransit(AfterFrame(b), s, k + 1, wire)
PROOF
  <1> DEFINE n == Len(s) - k
             q == [i \in 1 .. n |-> wire[s[k + i]]]
             r == [i \in 1 .. n - 1 |-> wire[s[k + 1 + i]]]
  <1>1. Len(s) \in Nat /\ n \in Nat /\ Len(s) - (k + 1) = n - 1
    OBVIOUS
  <1>2. \A i \in 1 .. n - 1 : k + 1 + i = k + (i + 1) /\ i + 1 \in 1 .. n
    BY <1>1
  <1>3. n > 0 => 1 \in 1 .. n /\ k + 1 \in 1 .. Len(s)
    BY <1>1
  <1>4. Carries(b, n, q)
    BY DEF InTransit
  <1>5. \A i \in 1 .. Len(s) : s[i] \in S
    OBVIOUS
  <1> HIDE DEF n
  <1>6. \A i \in 1 .. n - 1 : r[i] = q[i + 1]
    BY <1>2
  <1>7. n > 0 => q[1] = wire[s[k + 1]] /\ IsPacket(q[1])
    BY <1>3, <1>5
  <1> HIDE DEF q, r
  <1>8. /\ n > 0
        /\ Frame(b) = Body(q[1])
        /\ Carries(AfterFrame(b), n - 1, r)
    BY <1>1, <1>4, <1>6, <1>7, CarriesLess
  <1>9. InTransit(AfterFrame(b), s, k + 1, wire)
    BY <1>1, <1>8, Zenon DEF InTransit, r
  <1> QED BY <1>3, <1>7, <1>8, <1>9
=============================================================================
