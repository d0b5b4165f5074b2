------------------------- MODULE BookieServerProofs -------------------------
(***************************************************************************)
(* Requests reach the handler as they were sent, responses tell what became*)
(* of them, the log follows each connection, and the server implements     *)
(* what a bookie promises (AddService): for any connections, threads and   *)
(* requests, whatever stops in between.                                    *)
(***************************************************************************)
EXTENDS BookieServer, BookieCodecProofs, FiniteSetTheorems

(* Adds are messages. *)
LEMMA AddsAreMessages ==
  /\ Adds \subseteq Messages
  /\ Null \notin Adds
  /\ \A m \in Adds : RequestOf[m].opCode = AddEntry /\ CutOf[m] = 0
PROOF
  BY ServerAssumption DEF Adds

(* The whole frame of a message is a packet that leaves room in a frame of *)
(* the largest size.                                                       *)
LEMMA WholePackets ==
  ASSUME NEW m \in Messages
  PROVE  /\ IsPacket(Whole(m))
         /\ Announced(Whole(m)) \in 0 .. MaxFrameSize
         /\ CutOf[m] \in 0 .. Announced(Whole(m))
         /\ Len(Whole(m)) \in Nat /\ Announced(Whole(m)) = Len(Whole(m)) - 4
PROOF
  <1> DEFINE r == RequestOf[m]
             w == Whole(m)
  <1>1. r \in ClientRequests /\ CutOf[m] <= Announced(w) /\ CutOf[m] \in Nat
    BY RequestAssumption, ServerAssumption
  <1>2. r.opCode \in {AddEntry, ReadEntry} /\ AddEntry # ReadEntry
    BY <1>1, RequestFields, FieldWidths
  <1>3. MaxFrameSize \in Nat /\ 255 <= MaxFrameSize
    BY LargestFrame, SmallNumbers
  <1>4. IsPacket(w) /\ Len(w) \in Nat /\ Len(w) >= 4 /\ Len(w) - 4 <= MaxFrameSize
    <2>1. CASE r.opCode = AddEntry
      <3>1. w = ClientWrite(r)
        BY <2>1 DEF Whole
      <3>2. IsPacket(w) /\ Len(w) = 44 + Len(r.data)
        BY <1>1, <3>1, AddLayout
      <3>3. Len(r.data) \in Nat /\ Len(r.data) + 44 <= MaxFrameSize
        BY <1>1, RequestFields
      <3>4. \A k, n \in Nat : k + 44 <= n =>
              44 + k \in Nat /\ 44 + k >= 4 /\ (44 + k) - 4 <= n
        OBVIOUS
      <3> QED BY <1>3, <3>2, <3>3, <3>4, Zenon
    <2>2. CASE r.opCode = ReadEntry
      <3>1. w = ReadFrame(r)
        BY <1>2, <2>2 DEF Whole
      <3>2. /\ IsPacket(w) /\ KeyOf(r) \in {0, 20}
            /\ Len(w) = 24 + KeyOf(r)
        BY <1>1, <3>1, ReadLayout
      <3>3. \A k \in {0, 20}, n \in Nat : 255 <= n =>
              24 + k \in Nat /\ 24 + k >= 4 /\ (24 + k) - 4 <= n
        OBVIOUS
      <3> QED BY <1>3, <3>2, <3>3, Zenon
    <2> QED BY <1>2, <2>1, <2>2
  <1>5. Announced(w) = Len(w) - 4
    BY <1>4 DEF IsPacket
  <1> HIDE DEF w
  <1>6. Announced(w) \in 0 .. MaxFrameSize
    BY <1>3, <1>4, <1>5
  <1>7. CutOf[m] \in 0 .. Announced(w)
    BY <1>1, <1>6, <1>3
  <1> QED BY <1>4, <1>5, <1>6, <1>7 DEF w

(* A message is a packet that the server reads as it was sent if it is     *)
(* whole, and rejects if it is not.                                        *)
LEMMA MessagePackets ==
  ASSUME NEW m \in Messages
  PROVE  /\ IsPacket(Bytes(m))
         /\ Bytes(m) \in Seq(Buffer)
         /\ WellFormed(Body(Bytes(m))) <=> CutOf[m] = 0
         /\ CutOf[m] = 0 => ServerRead(Body(Bytes(m))) = RequestOf[m]
PROOF
  <1> DEFINE r   == RequestOf[m]
             w   == Whole(m)
             cut == CutOf[m]
             n   == Len(w) - cut
             b   == SubSeq(w, 5, n)
  <1>1. /\ r \in ClientRequests /\ (cut = 0 \/ cut > Len(r.data))
        /\ r.opCode \in {AddEntry, ReadEntry} /\ AddEntry # ReadEntry
    BY RequestAssumption, RequestFields, FieldWidths
  <1>2. /\ IsPacket(w) /\ Announced(w) \in 0 .. MaxFrameSize
        /\ cut \in 0 .. Announced(w) /\ Len(w) \in Nat
        /\ Announced(w) = Len(w) - 4
    BY WholePackets
  <1>3. Bytes(m) = Int32(Announced(w) - cut) \o b
    BY DEF Bytes
  <1> HIDE DEF w, cut, n
  <1>4. MaxFrameSize \in Nat
    BY LargestFrame
  <1>5. /\ n \in 4 .. Len(w) /\ n - 4 = Announced(w) - cut
        /\ n - 4 \in 0 .. MaxFrameSize
    <2>1. \A a, k, c, x \in Int :
            a \in 0 .. x /\ c \in 0 .. a /\ a = k - 4 =>
              k - c \in 4 .. k /\ (k - c) - 4 = a - c /\ (k - c) - 4 \in 0 .. x
      OBVIOUS
    <2>2. /\ Announced(w) \in Int /\ Len(w) \in Int /\ cut \in Int
          /\ MaxFrameSize \in Int
      BY <1>2, <1>4
    <2> QED BY <1>2, <2>1, <2>2, Zenon DEF n
  <1>6. BodyIs(b, w, n)
    BY <1>2, <1>5, BodyBytes
  <1> HIDE DEF b
  <1>7. b \in Seq(Buffer) /\ Len(b) = n - 4
    BY <1>6 DEF BodyIs
  <1>8. IsPacket(Int32(Len(b)) \o b) /\ Body(Int32(Len(b)) \o b) = b
    BY <1>5, <1>7, PacketOf
  <1>9. Bytes(m) = Int32(Len(b)) \o b
    BY <1>3, <1>5, <1>7
  <1>10. IsPacket(Bytes(m)) /\ Body(Bytes(m)) = b /\ Bytes(m) \in Seq(Buffer)
    BY <1>8, <1>9 DEF IsPacket
  <1>11. /\ WellFormed(b) <=> cut = 0
         /\ cut = 0 => ServerRead(b) = r
    <2>1. CASE r.opCode = AddEntry
      <3>1. w = ClientWrite(r)
        BY <2>1 DEF Whole, w
      <3>2. Len(w) = 44 + Len(r.data) /\ Len(r.data) \in Nat
        BY <1>1, <2>1, <3>1, AddLayout, RequestFields
      <3>3. cut \in 0 .. 40 + Len(r.data)
        <4>1. \A k \in Nat : (44 + k) - 4 = 40 + k
          OBVIOUS
        <4> QED BY <1>2, <3>2, <4>1, Zenon
      <3>4. AddFrame(b, r, cut)
        BY <1>1, <2>1, <3>1, <3>3, AddFrames DEF b, n
      <3> QED BY <1>1, <2>1, <3>3, <3>4, AddFrameRead
    <2>2. CASE r.opCode = ReadEntry
      <3>1. w = ReadFrame(r)
        BY <1>1, <2>2 DEF Whole, w
      <3>2. Len(w) = 24 + KeyOf(r) /\ KeyOf(r) \in {0, 20}
        BY <1>1, <3>1, ReadLayout
      <3>3. cut \in 0 .. 20 + KeyOf(r)
        <4>1. \A k \in {0, 20} : (24 + k) - 4 = 20 + k
          OBVIOUS
        <4> QED BY <1>2, <3>2, <4>1, Zenon
      <3>4. ReadFrameCut(b, r, cut)
        BY <3>1 DEF ReadFrameCut, b, n
      <3>5. r \in ClientRequests /\ r.opCode = ReadEntry
        BY <1>1, <2>2
      <3> HIDE DEF r
      <3> QED BY <3>3, <3>4, <3>5, ReadFrameRead
    <2> QED BY <1>1, <2>1, <2>2
  <1> QED BY <1>10, <1>11 DEF cut

-----------------------------------------------------------------------------
(* Requests *)

(* What is on the way to the server is the packets of what was sent and    *)
(* not read; what was read and handed over is what was sent.               *)
Wire == [m \in Messages |-> Bytes(m)]

RequestTypes ==
  /\ connection \in [Connections -> {"new", "open", "closing", "closed"}]
  /\ sent \in [Connections -> Seq(Messages)]
  /\ taken \in [Connections -> Nat]
  /\ toServer \in [Connections -> Seq(Buffer)]
  /\ handed \in [Messages -> ClientRequests \cup {Null}]

Link(c) ==
  /\ taken[c] \in 0 .. Len(sent[c])
  /\ \A i \in 1 .. Len(sent[c]) : ConnectionOf[sent[c][i]] = c
  /\ connection[c] = "new" => sent[c] = <<>>

Stream(c) ==
  IF connection[c] \in {"open", "closing"}
    THEN InTransit(toServer[c], sent[c], taken[c], Wire)
    ELSE toServer[c] = <<>>

RequestInv ==
  /\ RequestTypes
  /\ \A c \in Connections : Link(c) /\ Stream(c)
  /\ \A m \in Messages : handed[m] # Null => handed[m] = RequestOf[m]

requestVars == <<connection, sent, taken, toServer, handed>>

(* The packet of a message is what is sent for it.                         *)
LEMMA WirePackets ==
  /\ \A m \in Messages : Wire[m] = Bytes(m)
  /\ \A m \in Messages : IsPacket(Wire[m])
PROOF
  <1>1. \A m \in Messages : IsPacket(Bytes(m))
    BY MessagePackets
  <1>2. \A m \in Messages : Wire[m] = Bytes(m)
    BY DEF Wire
  <1> QED BY <1>1, <1>2, Zenon

(* The frame that an IO thread takes is that of the next message of the    *)
(* connection.                                                             *)
LEMMA FrameTaken ==
  ASSUME RequestInv, NEW c \in Connections, TakeFrame(c)
  PROVE  /\ NextMessage(c) \in Messages
         /\ ConnectionOf[NextMessage(c)] = c
         /\ Frame(toServer[c]) = Body(Bytes(NextMessage(c)))
         /\ taken[c] + 1 \in 1 .. Len(sent[c])
         /\ InTransit(AfterFrame(toServer[c]), sent[c], taken[c] + 1, Wire)
PROOF
  <1>1. /\ FrameReady(toServer[c])
        /\ connection[c] \in {"open", "closing"}
    BY DEF TakeFrame
  <1>2. /\ InTransit(toServer[c], sent[c], taken[c], Wire)
        /\ sent[c] \in Seq(Messages) /\ taken[c] \in 0 .. Len(sent[c])
        /\ \A i \in 1 .. Len(sent[c]) : ConnectionOf[sent[c][i]] = c
    BY <1>1 DEF RequestInv, RequestTypes, Link, Stream
  <1>3. \A m \in Messages : IsPacket(Wire[m])
    BY WirePackets
  <1>4. /\ taken[c] + 1 \in 1 .. Len(sent[c])
        /\ Frame(toServer[c]) = Body(Wire[sent[c][taken[c] + 1]])
        /\ InTransit(AfterFrame(toServer[c]), sent[c], taken[c] + 1, Wire)
    BY <1>1, <1>2, <1>3, TransitShrinks
  <1>5. NextMessage(c) \in Messages /\ NextMessage(c) = sent[c][taken[c] + 1]
    BY <1>2, <1>4 DEF NextMessage
  <1> QED BY <1>2, <1>4, <1>5, WirePackets, Zenon

(* A request that is read is that of the next message, which was whole.    *)
LEMMA RequestRead ==
  ASSUME RequestInv, NEW c \in Connections, TakeFrame(c),
         WellFormed(Frame(toServer[c]))
  PROVE  /\ CutOf[NextMessage(c)] = 0
         /\ ServerRead(Frame(toServer[c])) = RequestOf[NextMessage(c)]
PROOF
  BY FrameTaken, MessagePackets, Zenon

(* An add that is read is an add that was sent.                            *)
LEMMA AddRead ==
  ASSUME RequestInv, NEW c \in Connections, ReadAdd(c)
  PROVE  /\ NextMessage(c) \in Adds
         /\ ConnectionOf[NextMessage(c)] = c
         /\ handed' = [handed EXCEPT ![NextMessage(c)] =
                         RequestOf[NextMessage(c)]]
         /\ busy' = [busy EXCEPT ![ThreadOf[c]] = NextMessage(c)]
         /\ Store!Call(NextMessage(c))
         /\ UNCHANGED <<process, settled, toClient, replies, disk>>
         /\ process \in {"up", "stopping"} /\ busy[ThreadOf[c]] = Null
PROOF
  <1>1. /\ TakeFrame(c) /\ WellFormed(Frame(toServer[c]))
        /\ ServerRead(Frame(toServer[c])).opCode = AddEntry
        /\ handed' = [handed EXCEPT ![NextMessage(c)] =
                        ServerRead(Frame(toServer[c]))]
        /\ busy' = [busy EXCEPT ![ThreadOf[c]] = NextMessage(c)]
        /\ Store!Call(NextMessage(c))
        /\ UNCHANGED <<process, settled, toClient, replies, disk>>
    BY DEF ReadAdd
  <1>2. process \in {"up", "stopping"} /\ busy[ThreadOf[c]] = Null
    BY <1>1 DEF TakeFrame, Free
  <1>3. /\ CutOf[NextMessage(c)] = 0
        /\ ServerRead(Frame(toServer[c])) = RequestOf[NextMessage(c)]
    BY <1>1, RequestRead
  <1>4. NextMessage(c) \in Messages /\ ConnectionOf[NextMessage(c)] = c
    BY <1>1, FrameTaken
  <1>5. NextMessage(c) \in Adds
    BY <1>1, <1>3, <1>4 DEF Adds
  <1> QED BY <1>1, <1>2, <1>3, <1>4, <1>5, Zenon

(* What happens on one connection leaves the others alone.                 *)
LEMMA StreamKept ==
  ASSUME RequestInv, NEW d \in Connections,
         connection'[d] = connection[d], sent'[d] = sent[d],
         taken'[d] = taken[d], toServer'[d] = toServer[d]
  PROVE  Link(d)' /\ Stream(d)'
PROOF
  BY DEF RequestInv, Link, Stream

LEMMA RequestsStart == Init => RequestInv
PROOF
  <1> SUFFICES ASSUME Init
               PROVE  RequestInv
    OBVIOUS
  <1>1. /\ connection = [c \in Connections |-> "new"]
        /\ sent = [c \in Connections |-> <<>>]
        /\ taken = [c \in Connections |-> 0]
        /\ toServer = [c \in Connections |-> <<>>]
        /\ handed = [m \in Messages |-> Null]
    BY DEF Init
  <1>2. <<>> \in Seq(Messages) /\ <<>> \in Seq(Buffer)
    BY EmptySeq
  <1>3. 0 \in 0 .. Len(<<>>) /\ \A i \in 1 .. Len(<<>>) : FALSE
    OBVIOUS
  <1>4. RequestTypes
    BY <1>1, <1>2 DEF RequestTypes
  <1>5. ASSUME NEW c \in Connections
        PROVE  Link(c) /\ Stream(c)
    <2>1. /\ connection[c] = "new" /\ sent[c] = <<>> /\ taken[c] = 0
          /\ toServer[c] = <<>>
      BY <1>1
    <2> QED BY <1>3, <2>1, Zenon DEF Link, Stream
  <1> QED BY <1>1, <1>4, <1>5, Zenon DEF RequestInv

(* A frame that is taken moves the stream on by one packet.                *)
LEMMA StreamMoves ==
  ASSUME RequestInv, NEW c \in Connections, TakeFrame(c), UNCHANGED sent,
         \/ UNCHANGED connection
         \/ connection' = [connection EXCEPT ![c] = "closing"]
  PROVE  /\ connection' \in [Connections -> {"new", "open", "closing", "closed"}]
         /\ sent' \in [Connections -> Seq(Messages)]
         /\ taken' \in [Connections -> Nat]
         /\ toServer' \in [Connections -> Seq(Buffer)]
         /\ \A d \in Connections : Link(d)' /\ Stream(d)'
PROOF
  <1>1. /\ connection[c] \in {"open", "closing"}
        /\ toServer' = [toServer EXCEPT ![c] = AfterFrame(toServer[c])]
        /\ taken' = [taken EXCEPT ![c] = taken[c] + 1]
    BY DEF TakeFrame
  <1>2. /\ taken[c] + 1 \in 1 .. Len(sent[c])
        /\ InTransit(AfterFrame(toServer[c]), sent[c], taken[c] + 1, Wire)
    BY FrameTaken
  <1>3. RequestTypes
    BY DEF RequestInv
  <1>4. /\ sent[c] \in Seq(Messages) /\ Len(sent[c]) \in Nat /\ taken[c] \in Nat
    BY <1>3 DEF RequestTypes
  <1>5. AfterFrame(toServer[c]) \in Seq(Buffer)
    <2>1. Len(sent[c]) - (taken[c] + 1) \in Nat
      BY <1>2, <1>4
    <2> QED BY <1>2, <2>1, CarriesBuffer DEF InTransit
  <1>6. /\ connection' \in [Connections -> {"new", "open", "closing", "closed"}]
        /\ connection'[c] \in {"open", "closing"}
        /\ \A d \in Connections \ {c} : connection'[d] = connection[d]
    BY <1>1, <1>3 DEF RequestTypes
  <1>7. sent' \in [Connections -> Seq(Messages)] /\ sent' = sent
    BY <1>3 DEF RequestTypes
  <1>8. /\ taken' \in [Connections -> Nat]
        /\ taken'[c] = taken[c] + 1
        /\ \A d \in Connections \ {c} : taken'[d] = taken[d]
    <2>1. taken[c] + 1 \in Nat
      BY <1>4
    <2> QED BY <1>1, <1>3, <2>1 DEF RequestTypes
  <1>9. /\ toServer' \in [Connections -> Seq(Buffer)]
        /\ toServer'[c] = AfterFrame(toServer[c])
        /\ \A d \in Connections \ {c} : toServer'[d] = toServer[d]
    BY <1>1, <1>3, <1>5 DEF RequestTypes
  <1>10. ASSUME NEW d \in Connections
         PROVE  Link(d)' /\ Stream(d)'
    <2>1. CASE d # c
      BY <1>6, <1>7, <1>8, <1>9, <2>1, StreamKept
    <2>2. CASE d = c
      <3>1. taken[c] + 1 \in 0 .. Len(sent[c])
        BY <1>2, <1>4
      <3>2. Link(c)
        BY DEF RequestInv
      <3>3. connection'[c] # "new"
        BY <1>6
      <3>4. Link(c)'
        BY <1>7, <1>8, <3>1, <3>2, <3>3, Zenon DEF Link
      <3>5. Stream(c)'
        BY <1>2, <1>6, <1>7, <1>8, <1>9, Zenon DEF Stream, Wire
      <3> QED BY <2>2, <3>4, <3>5
    <2> QED BY <2>1, <2>2
  <1> QED BY <1>6, <1>7, <1>8, <1>9, <1>10

(* A message that is sent goes behind the others.                          *)
LEMMA StreamGrows ==
  ASSUME RequestInv, NEW m \in Messages, Send(m)
  PROVE  RequestInv'
PROOF
  <1> DEFINE c == ConnectionOf[m]
  <1>1. /\ connection[c] = "open"
        /\ sent' = [sent EXCEPT ![c] = Append(sent[c], m)]
        /\ toServer' = [toServer EXCEPT ![c] = toServer[c] \o Bytes(m)]
        /\ UNCHANGED <<connection, taken, handed>>
    BY DEF Send, adds
  <1>2. c \in Connections
    BY ServerAssumption
  <1>3. RequestTypes
    BY DEF RequestInv
  <1>4. sent[c] \in Seq(Messages) /\ toServer[c] \in Seq(Buffer)
    BY <1>2, <1>3 DEF RequestTypes
  <1>5. /\ taken[c] \in 0 .. Len(sent[c])
        /\ \A i \in 1 .. Len(sent[c]) : ConnectionOf[sent[c][i]] = c
        /\ InTransit(toServer[c], sent[c], taken[c], Wire)
    BY <1>1, <1>2 DEF RequestInv, Link, Stream
  <1>6. InTransit(toServer[c] \o Bytes(m), Append(sent[c], m), taken[c], Wire)
    <2>1. InTransit(toServer[c] \o Wire[m], Append(sent[c], m), taken[c], Wire)
      BY <1>4, <1>5, WirePackets, TransitGrows
    <2> QED BY <2>1, WirePackets, Zenon
  <1>7. /\ toServer[c] \o Bytes(m) \in Seq(Buffer)
        /\ Append(sent[c], m) \in Seq(Messages)
    <2>1. Bytes(m) \in Seq(Buffer)
      BY MessagePackets
    <2> QED BY <1>4, <2>1, ConcatProperties
  <1>8. RequestTypes'
    BY <1>1, <1>3, <1>7 DEF RequestTypes
  <1>9. /\ sent'[c] = Append(sent[c], m) /\ toServer'[c] = toServer[c] \o Bytes(m)
        /\ \A d \in Connections \ {c} :
             sent'[d] = sent[d] /\ toServer'[d] = toServer[d]
    BY <1>1, <1>2, <1>3 DEF RequestTypes
  <1>10. ASSUME NEW d \in Connections
         PROVE  Link(d)' /\ Stream(d)'
    <2>1. CASE d # c
      BY <1>1, <1>9, <2>1, StreamKept
    <2>2. CASE d = c
      <3> DEFINE t == Append(sent[c], m)
      <3>1. /\ taken[c] \in 0 .. Len(t)
            /\ \A i \in 1 .. Len(t) : ConnectionOf[t[i]] = c
        BY <1>4, <1>5
      <3> HIDE DEF t
      <3>2. connection'[c] = "open" /\ taken'[c] = taken[c] /\ sent'[c] = t
        BY <1>1, <1>9 DEF t
      <3>3. connection'[c] # "new" /\ connection'[c] \in {"open", "closing"}
        BY <3>2
      <3>4. Link(d)'
        BY <2>2, <3>1, <3>2, <3>3, Zenon DEF Link
      <3>5. InTransit(toServer'[c], sent'[c], taken'[c], Wire)
        BY <1>6, <1>9, <3>2, Zenon DEF t
      <3>6. Stream(d)'
        BY <2>2, <3>3, <3>5, Zenon DEF Stream, Wire
      <3> QED BY <3>4, <3>6
    <2> QED BY <2>1, <2>2
  <1>11. \A n \in Messages : handed'[n] # Null => handed'[n] = RequestOf[n]
    BY <1>1 DEF RequestInv
  <1> QED BY <1>8, <1>10, <1>11, Zenon DEF RequestInv

(* A pipeline that is opened carries nothing yet, one that is deleted      *)
(* nothing any more.                                                       *)
LEMMA StreamOpensOrEnds ==
  ASSUME RequestInv, NEW c \in Connections, Connect(c) \/ DeletePipeline(c)
  PROVE  RequestInv'
PROOF
  <1>1. RequestTypes
    BY DEF RequestInv
  <1>2. UNCHANGED <<sent, taken, handed>>
    BY DEF Connect, DeletePipeline, adds
  <1>3. \A m \in Messages : handed'[m] # Null => handed'[m] = RequestOf[m]
    BY <1>2 DEF RequestInv
  <1>4. <<>> \in Seq(Buffer)
    BY EmptySeq
  <1>5. CASE Connect(c)
    <2>1. /\ connection[c] = "new"
          /\ connection' = [connection EXCEPT ![c] = "open"]
          /\ toServer' = toServer
      BY <1>5 DEF Connect
    <2>2. RequestTypes'
      BY <1>1, <1>2, <2>1 DEF RequestTypes
    <2>3. connection'[c] = "open"
          /\ \A d \in Connections \ {c} : connection'[d] = connection[d]
      BY <1>1, <2>1 DEF RequestTypes
    <2>4. /\ sent[c] = <<>> /\ toServer[c] = <<>>
          /\ taken[c] \in 0 .. Len(sent[c])
          /\ \A i \in 1 .. Len(sent[c]) : ConnectionOf[sent[c][i]] = c
      BY <2>1 DEF RequestInv, Link, Stream
    <2>5. taken[c] = 0
      BY <2>4
    <2>6. InTransit(toServer'[c], sent'[c], taken'[c], Wire)
      BY <1>2, <2>1, <2>4, <2>5, TransitStarts
    <2>7. connection'[c] # "new" /\ connection'[c] \in {"open", "closing"}
      BY <2>3
    <2>8. Link(c)'
      BY <1>2, <2>4, <2>7, Zenon DEF Link
    <2>9. Stream(c)'
      BY <2>6, <2>7, Zenon DEF Stream, Wire
    <2>10. ASSUME NEW d \in Connections
           PROVE  Link(d)' /\ Stream(d)'
      <3>1. CASE d = c
        BY <2>8, <2>9, <3>1
      <3>2. CASE d # c
        BY <1>2, <2>1, <2>3, <3>2, StreamKept
      <3> QED BY <3>1, <3>2
    <2> QED BY <1>3, <2>2, <2>10, Zenon DEF RequestInv
  <1>6. CASE DeletePipeline(c)
    <2>1. /\ connection[c] = "closing"
          /\ connection' = [connection EXCEPT ![c] = "closed"]
          /\ toServer' = [toServer EXCEPT ![c] = <<>>]
      BY <1>6 DEF DeletePipeline
    <2>2. RequestTypes'
      BY <1>1, <1>2, <1>4, <2>1 DEF RequestTypes
    <2>3. /\ connection'[c] = "closed" /\ toServer'[c] = <<>>
          /\ \A d \in Connections \ {c} :
               connection'[d] = connection[d] /\ toServer'[d] = toServer[d]
      BY <1>1, <2>1 DEF RequestTypes
    <2>4. connection'[c] # "new" /\ connection'[c] \notin {"open", "closing"}
      BY <2>3
    <2>5. Link(c)
      BY DEF RequestInv
    <2>6. Link(c)' /\ Stream(c)'
      BY <1>2, <2>3, <2>4, <2>5, Zenon DEF Link, Stream
    <2>7. ASSUME NEW d \in Connections
          PROVE  Link(d)' /\ Stream(d)'
      <3>1. CASE d = c
        BY <2>6, <3>1
      <3>2. CASE d # c
        BY <1>2, <2>3, <3>2, StreamKept
      <3> QED BY <3>1, <3>2
    <2> QED BY <1>3, <2>2, <2>7, Zenon DEF RequestInv
  <1> QED BY <1>5, <1>6

(* A process that ends leaves no stream behind.                            *)
LEMMA StreamsEnd ==
  ASSUME RequestInv, Down
  PROVE  RequestInv'
PROOF
  <1>1. /\ connection' = [c \in Connections |->
                            IF connection[c] = "new" THEN "new" ELSE "closed"]
        /\ toServer' = [c \in Connections |-> <<>>]
        /\ UNCHANGED <<sent, taken, handed>>
    BY DEF Down
  <1>2. RequestTypes
    BY DEF RequestInv
  <1>3. <<>> \in Seq(Buffer)
    BY EmptySeq
  <1>4. RequestTypes'
    BY <1>1, <1>2, <1>3 DEF RequestTypes
  <1>5. ASSUME NEW c \in Connections
        PROVE  Link(c)' /\ Stream(c)'
    <2>1. /\ connection'[c] = "new" => connection[c] = "new"
          /\ connection'[c] \notin {"open", "closing"}
          /\ toServer'[c] = <<>>
      BY <1>1
    <2>2. Link(c)
      BY DEF RequestInv
    <2> QED BY <1>1, <2>1, <2>2, Zenon DEF Link, Stream
  <1>6. \A m \in Messages : handed'[m] # Null => handed'[m] = RequestOf[m]
    BY <1>1 DEF RequestInv
  <1> QED BY <1>4, <1>5, <1>6, Zenon DEF RequestInv

LEMMA RequestsKept == RequestInv /\ [Next]_vars => RequestInv'
PROOF
  <1> SUFFICES ASSUME RequestInv, [Next]_vars
               PROVE  RequestInv'
    OBVIOUS
  <1> USE DEF adds, channels
  <1>1. ASSUME UNCHANGED requestVars
        PROVE  RequestInv'
    <2>1. /\ connection' = connection /\ sent' = sent /\ taken' = taken
          /\ toServer' = toServer /\ handed' = handed
      BY <1>1 DEF requestVars
    <2> QED BY <2>1 DEF RequestInv, RequestTypes, Link, Stream
  <1>2. ASSUME NEW c \in Connections, ReadAdd(c)
        PROVE  RequestInv'
    <2>1. TakeFrame(c) /\ UNCHANGED sent /\ UNCHANGED connection
      BY <1>2 DEF ReadAdd
    <2>2. /\ handed' = [handed EXCEPT ![NextMessage(c)] =
                          RequestOf[NextMessage(c)]]
          /\ NextMessage(c) \in Messages
      BY <1>2, AddRead, AddsAreMessages
    <2>3. RequestOf[NextMessage(c)] \in ClientRequests
      BY <2>2, RequestAssumption
    <2> HIDE DEF adds, channels
    <2>4. handed \in [Messages -> ClientRequests \cup {Null}]
      BY DEF RequestInv, RequestTypes
    <2>5. \A m \in Messages : handed[m] # Null => handed[m] = RequestOf[m]
      BY DEF RequestInv
    <2>6. handed' \in [Messages -> ClientRequests \cup {Null}]
      BY <2>2, <2>3, <2>4
    <2>7. \A m \in Messages : handed'[m] # Null => handed'[m] = RequestOf[m]
      BY <2>2, <2>4, <2>5
    <2> QED BY <2>1, <2>6, <2>7, StreamMoves DEF RequestInv, RequestTypes
  <1>3. ASSUME NEW c \in Connections, ReadOther(c)
        PROVE  RequestInv'
    <2>1. /\ TakeFrame(c) /\ WellFormed(Frame(toServer[c]))
          /\ handed' = [handed EXCEPT ![NextMessage(c)] =
                          ServerRead(Frame(toServer[c]))]
          /\ UNCHANGED sent /\ UNCHANGED connection
      BY <1>3 DEF ReadOther
    <2>2. /\ ServerRead(Frame(toServer[c])) = RequestOf[NextMessage(c)]
          /\ NextMessage(c) \in Messages
      BY <2>1, RequestRead, FrameTaken
    <2>3. RequestOf[NextMessage(c)] \in ClientRequests
      BY <2>2, RequestAssumption
    <2> HIDE DEF adds, channels
    <2>4. handed \in [Messages -> ClientRequests \cup {Null}]
      BY DEF RequestInv, RequestTypes
    <2>5. \A m \in Messages : handed[m] # Null => handed[m] = RequestOf[m]
      BY DEF RequestInv
    <2>6. handed' \in [Messages -> ClientRequests \cup {Null}]
      BY <2>1, <2>2, <2>3, <2>4
    <2>7. \A m \in Messages : handed'[m] # Null => handed'[m] = RequestOf[m]
      BY <2>1, <2>2, <2>4, <2>5
    <2> QED BY <2>1, <2>6, <2>7, StreamMoves DEF RequestInv, RequestTypes
  <1>4. ASSUME NEW c \in Connections, RejectFrame(c)
        PROVE  RequestInv'
    <2>1. /\ TakeFrame(c) /\ UNCHANGED sent /\ UNCHANGED handed
          /\ connection' = [connection EXCEPT ![c] = "closing"]
      BY <1>4 DEF RejectFrame
    <2>2. /\ handed' \in [Messages -> ClientRequests \cup {Null}]
          /\ \A m \in Messages : handed'[m] # Null => handed'[m] = RequestOf[m]
      BY <2>1 DEF RequestInv, RequestTypes
    <2> QED BY <2>1, <2>2, StreamMoves DEF RequestInv, RequestTypes
  <1>5. ASSUME NEW c \in Connections, Receive(c) \/ Leave(c)
        PROVE  RequestInv'
    BY <1>1, <1>5 DEF Receive, Leave, requestVars
  <1>6. ASSUME NEW t \in IOThreads, PutDone(t)
        PROVE  RequestInv'
    BY <1>1, <1>6 DEF PutDone, requestVars
  <1>7. ASSUME NEW m \in Adds, Continue(m) \/ ContinueDestroyed(m)
        PROVE  RequestInv'
    BY <1>1, <1>7 DEF Continue, ContinueDestroyed, requestVars
  <1>8. ASSUME Commit \/ Answer \/ GiveUp \/ Stop \/ CloseStore \/ Restart
        PROVE  RequestInv'
    BY <1>1, <1>8 DEF Commit, Answer, GiveUp, Stop, CloseStore, Restart,
                      requestVars
  <1>9. ASSUME End \/ Crash
        PROVE  RequestInv'
    BY <1>9, StreamsEnd DEF End, Crash
  <1>10. ASSUME UNCHANGED vars
         PROVE  RequestInv'
    BY <1>1, <1>10 DEF vars, requestVars
  <1> HIDE DEF adds, channels
  <1> QED BY <1>2, <1>3, <1>4, <1>5, <1>6, <1>7, <1>8, <1>9, <1>10,
             StreamOpensOrEnds, StreamGrows DEF Next

(* What reaches a handler is what the client sent, whatever was sent       *)
(* before it on the same connection, whole or not (BookieCodecV2.cpp).     *)
THEOREM HandlersGetWhatWasSent == Spec => []ArrivesAsSent
PROOF
  <1>1. RequestInv => ArrivesAsSent
    BY DEF RequestInv, ArrivesAsSent
  <1> QED BY <1>1, RequestsStart, RequestsKept, PTL DEF Spec

-----------------------------------------------------------------------------
(* The store *)

(* What the database was asked to log, with an error in the end or not.    *)
Tried == logged \cup writeErrors

StoreTypes ==
  /\ process \in {"up", "stopping", "closed", "down"}
  /\ busy \in [IOThreads -> Adds \cup {Null}]
  /\ future \in [Adds -> {"unused", "pending", "value", "broken", "lost"}]
  /\ order \in Seq(Adds)
  /\ committed \in Nat
  /\ answered \in Nat
  /\ Tried \in SUBSET Adds

Queued(m) == \E i \in 1 .. Len(order) : order[i] = m

(* The adds are answered in their order, behind the database.              *)
QueueInv ==
  /\ answered <= committed
  /\ committed <= Len(order)
  /\ \A i, j \in 1 .. Len(order) : order[i] = order[j] => i = j
  /\ \A i \in 1 .. answered : future[order[i]] \notin {"unused", "pending"}
  /\ \A i \in answered + 1 .. Len(order) : future[order[i]] = "pending"

(* The database was asked to log what it was handed and nothing else.      *)
LogInv ==
  /\ \A i \in answered + 1 .. committed : order[i] \in Tried
  /\ \A i \in committed + 1 .. Len(order) : order[i] \notin Tried
  /\ \A m \in Tried : Queued(m)

(* A value stands for an entry that the database was asked to log, a       *)
(* broken promise for one that it was not.                                 *)
OutcomeInv ==
  /\ \A m \in Adds : future[m] = "value" => m \in Tried
  /\ \A m \in Adds : future[m] = "broken" => m \notin Tried
  /\ process \in {"closed", "down"} => \A m \in Adds : future[m] # "pending"

(* An add that waits for its place has an IO thread in its put.            *)
PutInv ==
  \A m \in Adds :
    future[m] = "pending" /\ ~Queued(m) => busy[ThreadOf[ConnectionOf[m]]] = m

StoreInv == StoreTypes /\ QueueInv /\ LogInv /\ OutcomeInv /\ PutInv

(* Every message has a thread.                                             *)
LEMMA Threads ==
  \A m \in Adds :
    ConnectionOf[m] \in Connections /\ ThreadOf[ConnectionOf[m]] \in IOThreads
PROOF
  BY ServerAssumption, AddsAreMessages

LEMMA StoreStarts == Init => StoreInv
PROOF
  <1> SUFFICES ASSUME Init
               PROVE  StoreInv
    OBVIOUS
  <1>1. /\ process = "up" /\ busy = [t \in IOThreads |-> Null] /\ Tried = {}
        /\ future = [m \in Adds |-> "unused"]
        /\ order = <<>> /\ committed = 0 /\ answered = 0
    BY DEF Init, Store!Init, Tried
  <1>2. Len(order) = 0
    BY <1>1
  <1>3. StoreTypes
    BY <1>1 DEF StoreTypes
  <1>4. QueueInv /\ LogInv
    BY <1>1, <1>2 DEF QueueInv, LogInv
  <1>5. OutcomeInv /\ PutInv
    BY <1>1 DEF OutcomeInv, PutInv
  <1> QED BY <1>3, <1>4, <1>5 DEF StoreInv

(* put is called.                                                          *)
LEMMA CallKept ==
  ASSUME StoreInv, NEW m \in Adds, Store!Call(m),
         UNCHANGED <<process, disk>>, process \in {"up", "stopping"},
         busy[ThreadOf[ConnectionOf[m]]] = Null,
         busy' = [busy EXCEPT ![ThreadOf[ConnectionOf[m]]] = m]
  PROVE  StoreInv'
PROOF
  <1>1. /\ future[m] = "unused"
        /\ future' = [future EXCEPT ![m] = "pending"]
        /\ order' = order /\ committed' = committed /\ answered' = answered
        /\ process' = process /\ Tried' = Tried
    BY DEF Store!Call, disk, Tried
  <1>2. StoreTypes /\ QueueInv /\ LogInv /\ OutcomeInv /\ PutInv
    BY DEF StoreInv
  <1>3. StoreTypes'
    BY <1>1, <1>2, Threads DEF StoreTypes
  <1>4. /\ future'[m] = "pending"
        /\ \A n \in Adds \ {m} : future'[n] = future[n]
        /\ \A i \in 1 .. Len(order) : order[i] \in Adds
        /\ Len(order) \in Nat
    BY <1>1, <1>2 DEF StoreTypes
  <1>5. answered \in Nat /\ answered <= Len(order)
    BY <1>2, <1>4 DEF StoreTypes, QueueInv
  <1>6. QueueInv'
    <2>1. /\ \A i \in 1 .. answered : i \in 1 .. Len(order)
          /\ \A i \in answered + 1 .. Len(order) : i \in 1 .. Len(order)
      BY <1>4, <1>5
    <2> QED BY <1>1, <1>2, <1>4, <2>1 DEF QueueInv
  <1>7. LogInv'
    BY <1>1, <1>2 DEF LogInv, Queued
  <1>8. OutcomeInv'
    BY <1>1, <1>2, <1>4 DEF OutcomeInv
  <1>9. PutInv'
    <2>1. \A n \in Adds \ {m} :
            future[n] = "pending" /\ ~Queued(n) =>
              ThreadOf[ConnectionOf[n]] # ThreadOf[ConnectionOf[m]]
      BY <1>2, AddsAreMessages, Zenon DEF PutInv
    <2>2. \A n \in Adds : Queued(n)' <=> Queued(n)
      BY <1>1 DEF Queued
    <2>3. /\ busy'[ThreadOf[ConnectionOf[m]]] = m
          /\ \A t \in IOThreads \ {ThreadOf[ConnectionOf[m]]} :
               busy'[t] = busy[t]
      BY <1>2, Threads DEF StoreTypes
    <2>4. ASSUME NEW n \in Adds, future'[n] = "pending", ~Queued(n)'
          PROVE  busy'[ThreadOf[ConnectionOf[n]]] = n
      <3>1. CASE n = m
        BY <2>3, <3>1
      <3>2. CASE n # m
        BY <1>2, <1>4, <2>1, <2>2, <2>3, <2>4, <3>2, Threads DEF PutInv
      <3> QED BY <3>1, <3>2
    <2> QED BY <2>4 DEF PutInv
  <1> QED BY <1>3, <1>6, <1>7, <1>8, <1>9 DEF StoreInv

(* put has found a place.                                                  *)
LEMMA AcceptKept ==
  ASSUME StoreInv, NEW t \in IOThreads, PutDone(t)
  PROVE  StoreInv'
PROOF
  <1> DEFINE m == busy[t]
  <1>1. /\ process \in {"up", "stopping"} /\ m # Null
        /\ future[m] = "pending"
        /\ \A i \in DOMAIN order : order[i] # m
        /\ order' = Append(order, m)
        /\ busy' = [busy EXCEPT ![t] = Null]
        /\ future' = future /\ committed' = committed /\ answered' = answered
        /\ process' = process /\ Tried' = Tried
    BY DEF PutDone, Store!Accept, disk, Tried
  <1>2. StoreTypes /\ QueueInv /\ LogInv /\ OutcomeInv /\ PutInv
    BY DEF StoreInv
  <1>3. m \in Adds
    BY <1>1, <1>2 DEF StoreTypes
  <1>4. /\ \A n \in IOThreads \ {t} : busy'[n] = busy[n]
        /\ busy' \in [IOThreads -> Adds \cup {Null}]
    BY <1>1, <1>2 DEF StoreTypes
  <1> HIDE DEF m
  <1>5. /\ Len(order') = Len(order) + 1 /\ Len(order) \in Nat
        /\ \A i \in 1 .. Len(order) : order'[i] = order[i] /\ order[i] # m
        /\ order'[Len(order) + 1] = m
        /\ order' \in Seq(Adds)
    BY <1>1, <1>2, <1>3 DEF StoreTypes
  <1>6. StoreTypes'
    BY <1>1, <1>2, <1>4, <1>5 DEF StoreTypes
  <1>7. answered \in Nat /\ committed \in Nat
        /\ answered <= committed /\ committed <= Len(order)
    BY <1>2 DEF StoreTypes, QueueInv
  <1>8. /\ \A i \in 1 .. Len(order) + 1 :
             i \in 1 .. Len(order) \/ i = Len(order) + 1
        /\ \A i \in 1 .. answered : i \in 1 .. Len(order)
        /\ \A i \in answered + 1 .. committed : i \in 1 .. Len(order)
        /\ \A i \in answered + 1 .. Len(order) + 1 :
             \/ i \in answered + 1 .. Len(order) /\ i \in 1 .. Len(order)
             \/ i = Len(order) + 1
        /\ \A i \in committed + 1 .. Len(order) + 1 :
             \/ i \in committed + 1 .. Len(order) /\ i \in 1 .. Len(order)
             \/ i = Len(order) + 1
        /\ committed <= Len(order) + 1
        /\ \A i \in 1 .. Len(order) : i \in 1 .. Len(order) + 1
        /\ Len(order) + 1 \in 1 .. Len(order) + 1
    BY <1>5, <1>7
  <1>9. m \notin Tried
    BY <1>2, <1>5 DEF LogInv, Queued
  <1>10. QueueInv'
    <2>1. ASSUME NEW i \in 1 .. Len(order'), NEW j \in 1 .. Len(order'),
                 order'[i] = order'[j]
          PROVE  i = j
      <3>1. /\ i \in 1 .. Len(order) \/ i = Len(order) + 1
            /\ j \in 1 .. Len(order) \/ j = Len(order) + 1
        BY <1>5, <1>8, <2>1
      <3> QED BY <1>2, <1>5, <2>1, <3>1 DEF QueueInv
    <2>2. \A i \in 1 .. answered' : future'[order'[i]] \notin {"unused", "pending"}
      BY <1>1, <1>2, <1>5, <1>8 DEF QueueInv
    <2>3. \A i \in answered' + 1 .. Len(order') : future'[order'[i]] = "pending"
      BY <1>1, <1>2, <1>5, <1>8 DEF QueueInv, m
    <2>4. answered' <= committed' /\ committed' <= Len(order')
      BY <1>1, <1>5, <1>7, <1>8
    <2> QED BY <2>1, <2>2, <2>3, <2>4 DEF QueueInv
  <1>11. \A n \in Adds : Queued(n)' <=> Queued(n) \/ n = m
    BY <1>5, <1>8 DEF Queued
  <1>12. LogInv'
    <2>1. \A i \in answered' + 1 .. committed' : order'[i] \in Tried'
      BY <1>1, <1>2, <1>5, <1>8 DEF LogInv
    <2>2. \A i \in committed' + 1 .. Len(order') : order'[i] \notin Tried'
      BY <1>1, <1>2, <1>5, <1>8, <1>9 DEF LogInv
    <2>3. \A n \in Tried' : Queued(n)'
      BY <1>1, <1>2, <1>11 DEF LogInv, StoreTypes
    <2> QED BY <2>1, <2>2, <2>3 DEF LogInv
  <1>13. OutcomeInv'
    BY <1>1, <1>2 DEF OutcomeInv
  <1>14. PutInv'
    <2>1. ASSUME NEW n \in Adds, future'[n] = "pending", ~Queued(n)'
          PROVE  busy'[ThreadOf[ConnectionOf[n]]] = n
      <3>1. busy[ThreadOf[ConnectionOf[n]]] = n /\ n # m
        BY <1>1, <1>2, <1>11, <2>1 DEF PutInv
      <3>2. ThreadOf[ConnectionOf[n]] # t
        BY <3>1 DEF m
      <3> QED BY <1>4, <3>1, <3>2, Threads
    <2> QED BY <2>1 DEF PutInv
  <1> QED BY <1>6, <1>10, <1>12, <1>13, <1>14 DEF StoreInv

(* The database is handed the next adds.                                   *)
LEMMA CommitKept ==
  ASSUME StoreInv, Commit
  PROVE  StoreInv'
PROOF
  <1>1. PICK k \in DOMAIN order :
          Store!Commit(k) /\ Tried' = Tried \cup Members(committed + 1, k)
    BY DEF Commit, WriteSucceeds, WriteFails, Tried
  <1>2. /\ committed = answered /\ k \in committed + 1 .. Len(order)
        /\ committed' = k
        /\ future' = future /\ order' = order /\ answered' = answered
        /\ process' = process /\ busy' = busy
    <2>1. UNCHANGED <<process, busy>>
      BY DEF Commit, adds
    <2>2. Len(order) \in Nat /\ committed \in Nat /\ SyncLimit \in Nat
      BY ServerAssumption DEF StoreInv, StoreTypes
    <2> QED BY <1>1, <2>1, <2>2 DEF Store!Commit
  <1>3. StoreTypes /\ QueueInv /\ LogInv /\ OutcomeInv /\ PutInv
    BY DEF StoreInv
  <1>4. /\ Len(order) \in Nat /\ committed \in Nat /\ k \in Nat
        /\ \A i \in 1 .. Len(order) : order[i] \in Adds
    BY <1>2, <1>3 DEF StoreTypes
  <1>5. /\ \A i \in committed + 1 .. k : i \in 1 .. Len(order)
        /\ \A i \in committed + 1 .. k : i \in answered + 1 .. Len(order)
        /\ \A i \in k + 1 .. Len(order) :
             i \in 1 .. Len(order) /\ i \in committed + 1 .. Len(order)
        /\ \A i \in k + 1 .. Len(order) : i \notin committed + 1 .. k
        /\ committed <= k /\ k <= Len(order)
    BY <1>2, <1>4
  <1>6. \A m : m \in Tried' <=>
          m \in Tried \/ \E i \in committed + 1 .. k : order[i] = m
    BY <1>1 DEF Members
  <1> HIDE <1>1
  <1>7. StoreTypes'
    <2>1. Tried' \subseteq Adds
      BY <1>3, <1>4, <1>5, <1>6 DEF StoreTypes
    <2> QED BY <1>2, <1>3, <1>4, <2>1 DEF StoreTypes
  <1>8. QueueInv'
    <2>1. answered' <= committed' /\ committed' <= Len(order')
      BY <1>2, <1>5
    <2> QED BY <1>2, <1>3, <2>1 DEF QueueInv
  <1>9. LogInv'
    <2>1. \A i \in answered' + 1 .. committed' : order'[i] \in Tried'
      BY <1>2, <1>6
    <2>2. ASSUME NEW i \in k + 1 .. Len(order)
          PROVE  order[i] \notin Tried'
      <3>1. order[i] \notin Tried
        BY <1>3, <1>5 DEF LogInv
      <3>2. \A j \in committed + 1 .. k : order[j] # order[i]
        BY <1>3, <1>5 DEF QueueInv
      <3> QED BY <1>6, <3>1, <3>2
    <2>3. \A m \in Tried' : Queued(m)'
      BY <1>2, <1>3, <1>5, <1>6 DEF LogInv, Queued
    <2> QED BY <1>2, <2>1, <2>2, <2>3 DEF LogInv
  <1>10. OutcomeInv'
    <2>1. ASSUME NEW m \in Adds, future[m] = "broken"
          PROVE  m \notin Tried'
      <3>1. m \notin Tried
        BY <1>3, <2>1 DEF OutcomeInv
      <3>2. \A i \in committed + 1 .. k : future[order[i]] = "pending"
        BY <1>3, <1>5 DEF QueueInv
      <3>3. \A i \in committed + 1 .. k : order[i] # m
        BY <2>1, <3>2
      <3> QED BY <1>6, <3>1, <3>3
    <2>2. \A m \in Adds : future[m] = "value" => m \in Tried'
      BY <1>3, <1>6 DEF OutcomeInv
    <2>3. process' \in {"closed", "down"} => \A m \in Adds : future'[m] # "pending"
      BY <1>2, <1>3 DEF OutcomeInv
    <2> QED BY <1>2, <2>1, <2>2, <2>3 DEF OutcomeInv
  <1>11. PutInv'
    BY <1>2, <1>3 DEF PutInv, Queued
  <1> QED BY <1>7, <1>8, <1>9, <1>10, <1>11 DEF StoreInv

(* The next add that the database has gets its value.                      *)
LEMMA AnswerKept ==
  ASSUME StoreInv, Answer
  PROVE  StoreInv'
PROOF
  <1> DEFINE n == answered + 1
             m == order[n]
  <1>1. /\ process \in {"up", "stopping"} /\ answered < committed
        /\ future' = [future EXCEPT ![m] = "value"]
        /\ answered' = n
        /\ order' = order /\ committed' = committed
        /\ process' = process /\ busy' = busy /\ Tried' = Tried
    BY DEF Answer, Store!Answer, adds, disk, Tried
  <1>2. StoreTypes /\ QueueInv /\ LogInv /\ OutcomeInv /\ PutInv
    BY DEF StoreInv
  <1>3. /\ Len(order) \in Nat /\ committed \in Nat /\ answered \in Nat
        /\ answered <= committed /\ committed <= Len(order)
        /\ \A i \in 1 .. Len(order) : order[i] \in Adds
    BY <1>2 DEF StoreTypes, QueueInv
  <1>4. /\ n \in 1 .. Len(order) /\ n \in answered + 1 .. committed
        /\ n \in answered + 1 .. Len(order)
        /\ n \in Nat /\ n <= committed
        /\ \A i \in 1 .. n : i \in 1 .. answered \/ i = n
        /\ \A i \in 1 .. n : i \in 1 .. Len(order)
        /\ \A i \in n + 1 .. Len(order) :
             i \in answered + 1 .. Len(order) /\ i # n /\ i \in 1 .. Len(order)
        /\ \A i \in n + 1 .. committed : i \in answered + 1 .. committed
    BY <1>1, <1>3
  <1>5. m \in Adds /\ m \in Tried /\ future[m] = "pending"
    BY <1>2, <1>3, <1>4 DEF LogInv, QueueInv
  <1> HIDE DEF n
  <1>6. \A i \in 1 .. Len(order) : i # n => order[i] # m
    BY <1>2, <1>4 DEF QueueInv
  <1> HIDE DEF m
  <1>7. /\ future'[m] = "value"
        /\ \A x \in Adds \ {m} : future'[x] = future[x]
        /\ future' \in [Adds -> {"unused", "pending", "value", "broken", "lost"}]
    BY <1>1, <1>2, <1>5 DEF StoreTypes
  <1>8. StoreTypes'
    BY <1>1, <1>2, <1>4, <1>7 DEF StoreTypes
  <1>9. QueueInv'
    <2>1. \A i \in 1 .. n : future'[order[i]] \notin {"unused", "pending"}
      BY <1>2, <1>3, <1>4, <1>7 DEF QueueInv, m
    <2>2. \A i \in n + 1 .. Len(order) : future'[order[i]] = "pending"
      BY <1>2, <1>3, <1>4, <1>6, <1>7 DEF QueueInv
    <2> QED BY <1>1, <1>2, <1>4, <2>1, <2>2 DEF QueueInv
  <1>10. LogInv'
    BY <1>1, <1>2, <1>4 DEF LogInv, Queued
  <1>11. OutcomeInv'
    BY <1>1, <1>2, <1>5, <1>7 DEF OutcomeInv
  <1>12. PutInv'
    BY <1>1, <1>2, <1>7 DEF PutInv, Queued
  <1> QED BY <1>8, <1>9, <1>10, <1>11, <1>12 DEF StoreInv

(* The destructor breaks the promises of the next adds.                    *)
LEMMA GiveUpKept ==
  ASSUME StoreInv, GiveUp
  PROVE  StoreInv'
PROOF
  <1>1. PICK k \in DOMAIN order : k > committed /\ Store!GiveUp(k)
    BY DEF GiveUp
  <1>2. StoreTypes /\ QueueInv /\ LogInv /\ OutcomeInv /\ PutInv
    BY DEF StoreInv
  <1>3. /\ Len(order) \in Nat /\ committed \in Nat
        /\ \A i \in 1 .. Len(order) : order[i] \in Adds
    BY <1>2 DEF StoreTypes
  <1>4. /\ committed = answered /\ k \in committed + 1 .. Len(order)
        /\ committed' = k /\ answered' = k /\ order' = order
        /\ process' = process /\ busy' = busy /\ Tried' = Tried
        /\ process \notin {"closed", "down"}
    <2>1. UNCHANGED <<process, busy, Tried>> /\ process = "stopping"
      BY DEF GiveUp, adds, disk, Tried
    <2> QED BY <1>1, <1>3, <2>1 DEF Store!GiveUp
  <1>5. /\ future' = [m \in Adds |->
                        IF \E i \in committed + 1 .. k : order[i] = m
                          THEN "broken" ELSE future[m]]
    BY <1>1 DEF Store!GiveUp
  <1>6. /\ \A i \in committed + 1 .. k : i \in 1 .. Len(order)
        /\ \A i \in committed + 1 .. k : i \in committed + 1 .. Len(order)
        /\ \A i \in 1 .. k : i \in 1 .. answered \/ i \in committed + 1 .. k
        /\ \A i \in 1 .. k : i \in 1 .. Len(order)
        /\ \A i \in k + 1 .. Len(order) :
             /\ i \in 1 .. Len(order) /\ i \in committed + 1 .. Len(order)
             /\ i \notin committed + 1 .. k
        /\ \A i \in k + 1 .. k : FALSE
        /\ k \in Nat /\ k <= k /\ k <= Len(order)
    BY <1>3, <1>4
  <1> HIDE <1>1
  <1>7. StoreTypes'
    <2>1. future' \in [Adds -> {"unused", "pending", "value", "broken", "lost"}]
      BY <1>2, <1>5 DEF StoreTypes
    <2> QED BY <1>2, <1>4, <1>6, <2>1 DEF StoreTypes
  <1>8. QueueInv'
    <2>1. ASSUME NEW i \in 1 .. k
          PROVE  future'[order[i]] \notin {"unused", "pending"}
      <3>1. CASE i \in 1 .. answered
        BY <1>2, <1>3, <1>5, <1>6, <3>1 DEF QueueInv
      <3>2. CASE i \in committed + 1 .. k
        BY <1>3, <1>5, <1>6, <3>2
      <3> QED BY <1>6, <3>1, <3>2
    <2>2. ASSUME NEW i \in k + 1 .. Len(order)
          PROVE  future'[order[i]] = "pending"
      <3>1. future[order[i]] = "pending"
        BY <1>2, <1>4, <1>6 DEF QueueInv
      <3>2. \A j \in committed + 1 .. k : order[j] # order[i]
        BY <1>2, <1>6 DEF QueueInv
      <3> QED BY <1>3, <1>5, <1>6, <3>1, <3>2
    <2> QED BY <1>2, <1>4, <1>6, <2>1, <2>2 DEF QueueInv
  <1>9. LogInv'
    BY <1>2, <1>4, <1>6 DEF LogInv, Queued
  <1>10. OutcomeInv'
    <2>1. ASSUME NEW m \in Adds, future'[m] = "broken"
          PROVE  m \notin Tried
      <3>1. CASE \E i \in committed + 1 .. k : order[i] = m
        BY <1>2, <1>6, <3>1 DEF LogInv
      <3>2. CASE ~\E i \in committed + 1 .. k : order[i] = m
        BY <1>2, <1>5, <2>1, <3>2 DEF OutcomeInv
      <3> QED BY <3>1, <3>2
    <2>2. ASSUME NEW m \in Adds, future'[m] = "value"
          PROVE  m \in Tried
      BY <1>2, <1>5, <2>2 DEF OutcomeInv
    <2> QED BY <1>4, <2>1, <2>2 DEF OutcomeInv
  <1>11. PutInv'
    <2>1. \A m \in Adds : future'[m] = "pending" => future[m] = "pending"
      BY <1>5
    <2> QED BY <1>2, <1>4, <2>1 DEF PutInv, Queued
  <1> QED BY <1>7, <1>8, <1>9, <1>10, <1>11 DEF StoreInv

(* The store goes away.                                                    *)
LEMMA CloseKept ==
  ASSUME StoreInv, NEW dropped \in SUBSET Adds, Store!Close(dropped),
         process' \in {"closed", "down"},
         busy' \in [IOThreads -> Adds \cup {Null}],
         UNCHANGED disk
  PROVE  StoreInv'
PROOF
  <1>1. /\ \A m \in dropped : future[m] = "pending"
        /\ \A i \in 1 .. committed : order[i] \notin dropped
        /\ future' = [m \in Adds |->
                        IF m \in dropped THEN "broken"
                        ELSE IF future[m] = "pending" THEN "lost" ELSE future[m]]
        /\ committed' = Len(order) /\ answered' = Len(order) /\ order' = order
        /\ Tried' = Tried
    BY DEF Store!Close, disk, Tried
  <1>2. StoreTypes /\ QueueInv /\ LogInv /\ OutcomeInv /\ PutInv
    BY DEF StoreInv
  <1>3. /\ Len(order) \in Nat /\ committed \in Nat /\ answered \in Nat
        /\ answered <= committed /\ committed <= Len(order)
        /\ \A i \in 1 .. Len(order) : order[i] \in Adds
    BY <1>2 DEF StoreTypes, QueueInv
  <1>4. StoreTypes'
    <2>1. future' \in [Adds -> {"unused", "pending", "value", "broken", "lost"}]
      BY <1>1, <1>2 DEF StoreTypes
    <2> QED BY <1>1, <1>2, <1>3, <2>1 DEF StoreTypes
  <1>5. \A m \in Adds : future'[m] # "pending"
    BY <1>1
  <1>6. \A i \in 1 .. Len(order) :
          i \in 1 .. answered \/ i \in answered + 1 .. Len(order)
    BY <1>3
  <1>7. QueueInv'
    <2>1. \A i \in 1 .. Len(order) : future[order[i]] # "unused"
      BY <1>2, <1>6 DEF QueueInv
    <2>2. \A i \in 1 .. Len(order) : future'[order[i]] \notin {"unused", "pending"}
      BY <1>1, <1>3, <2>1
    <2>3. /\ Len(order) <= Len(order)
          /\ \A i \in Len(order) + 1 .. Len(order) : FALSE
      BY <1>3
    <2> QED BY <1>1, <1>2, <2>2, <2>3 DEF QueueInv
  <1>8. LogInv'
    <2>1. \A i \in Len(order) + 1 .. Len(order) : FALSE
      BY <1>3
    <2> QED BY <1>1, <1>2, <2>1 DEF LogInv, Queued
  <1>9. OutcomeInv'
    <2>1. ASSUME NEW m \in dropped
          PROVE  m \notin Tried
      <3>1. \A i \in 1 .. Len(order) :
              i \in 1 .. committed \/ i \in committed + 1 .. Len(order)
        BY <1>3
      <3> QED BY <1>1, <1>2, <3>1 DEF LogInv, Queued
    <2>2. ASSUME NEW m \in Adds, future'[m] = "broken"
          PROVE  m \notin Tried
      BY <1>1, <1>2, <2>1, <2>2 DEF OutcomeInv
    <2>3. ASSUME NEW m \in Adds, future'[m] = "value"
          PROVE  m \in Tried
      BY <1>1, <1>2, <2>3 DEF OutcomeInv
    <2> QED BY <1>1, <1>5, <2>2, <2>3 DEF OutcomeInv
  <1>10. PutInv'
    BY <1>5 DEF PutInv
  <1> QED BY <1>4, <1>7, <1>8, <1>9, <1>10 DEF StoreInv

LEMMA StoreKept == RequestInv /\ StoreInv /\ [Next]_vars => StoreInv'
PROOF
  <1> SUFFICES ASSUME RequestInv, StoreInv, [Next]_vars
               PROVE  StoreInv'
    OBVIOUS
  <1>1. ASSUME UNCHANGED <<busy, store, disk>>,
               \/ UNCHANGED process
               \/ process' \in {"up", "stopping"}
               \/ process = "closed" /\ process' = "down"
        PROVE  StoreInv'
    <2>1. /\ busy' = busy /\ future' = future /\ order' = order
          /\ committed' = committed /\ answered' = answered /\ Tried' = Tried
      BY <1>1 DEF store, disk, Tried
    <2>2. StoreTypes /\ QueueInv /\ LogInv /\ OutcomeInv /\ PutInv
      BY DEF StoreInv
    <2>3. StoreTypes'
      BY <1>1, <2>1, <2>2 DEF StoreTypes
    <2>4. QueueInv' /\ LogInv' /\ PutInv'
      BY <2>1, <2>2 DEF QueueInv, LogInv, PutInv, Queued
    <2>5. OutcomeInv'
      BY <1>1, <2>1, <2>2 DEF OutcomeInv
    <2> QED BY <2>3, <2>4, <2>5 DEF StoreInv
  <1>2. ASSUME NEW c \in Connections, ReadAdd(c)
        PROVE  StoreInv'
    BY <1>2, AddRead, CallKept
  <1>3. ASSUME NEW c \in Connections,
               \/ Connect(c) \/ Receive(c) \/ Leave(c)
               \/ ReadOther(c) \/ RejectFrame(c) \/ DeletePipeline(c)
        PROVE  StoreInv'
    BY <1>1, <1>3 DEF Connect, Receive, Leave, ReadOther, RejectFrame,
                      DeletePipeline, adds
  <1>4. ASSUME NEW m \in Messages, Send(m)
        PROVE  StoreInv'
    BY <1>1, <1>4 DEF Send, adds
  <1>5. ASSUME NEW m \in Adds, Continue(m) \/ ContinueDestroyed(m)
        PROVE  StoreInv'
    BY <1>1, <1>5 DEF Continue, ContinueDestroyed
  <1>6. ASSUME Stop \/ Restart \/ UNCHANGED vars
        PROVE  StoreInv'
    BY <1>1, <1>6 DEF Stop, Restart, vars, adds
  <1>7. CASE CloseStore
    <2>1. PICK dropped \in SUBSET Waiting : Store!Close(dropped)
      BY <1>7 DEF CloseStore
    <2>2. dropped \in SUBSET Adds
      BY DEF Waiting
    <2>3. process' = "closed" /\ UNCHANGED <<busy, disk>>
      BY <1>7 DEF CloseStore, adds
    <2>4. busy' \in [IOThreads -> Adds \cup {Null}]
      BY <2>3 DEF StoreInv, StoreTypes
    <2> QED BY <2>1, <2>2, <2>3, <2>4, CloseKept
  <1>8. CASE Crash \/ End
    <2>1. /\ process' = "down" /\ busy' = [t \in IOThreads |-> Null]
          /\ UNCHANGED disk
      BY <1>8 DEF Crash, End, Down
    <2>2. busy' \in [IOThreads -> Adds \cup {Null}]
      BY <2>1
    <2>3. CASE Crash
      <3>1. Store!Close({})
        BY <2>3 DEF Crash
      <3> QED BY <2>1, <2>2, <3>1, CloseKept
    <2>4. CASE End
      <3>1. process = "closed" /\ UNCHANGED store
        BY <2>4 DEF End
      <3>2. /\ future' = future /\ order' = order /\ committed' = committed
            /\ answered' = answered /\ Tried' = Tried
        BY <2>1, <3>1 DEF store, disk, Tried
      <3>3. StoreTypes /\ QueueInv /\ LogInv /\ OutcomeInv
        BY DEF StoreInv
      <3>4. StoreTypes'
        BY <2>1, <2>2, <3>2, <3>3 DEF StoreTypes
      <3>5. QueueInv' /\ LogInv'
        BY <3>2, <3>3 DEF QueueInv, LogInv, Queued
      <3>6. OutcomeInv' /\ \A m \in Adds : future'[m] # "pending"
        BY <3>1, <3>2, <3>3 DEF OutcomeInv
      <3>7. PutInv'
        BY <3>6 DEF PutInv
      <3> QED BY <3>4, <3>5, <3>6, <3>7 DEF StoreInv
    <2> QED BY <1>8, <2>3, <2>4
  <1> QED BY <1>2, <1>3, <1>4, <1>5, <1>6, <1>7, <1>8, AcceptKept, CommitKept,
             AnswerKept, GiveUpKept DEF Next

-----------------------------------------------------------------------------
(* Replies *)

(* The response to an add.                                                 *)
Reply(m) ==
  [protocolVersion |-> 2, opCode |-> AddEntry, errorCode |-> Error(m),
   ledgerId |-> RequestOf[m].ledgerId, entryId |-> RequestOf[m].entryId]

ReplyWire == [r \in Responses |-> ServerWrite(r)]

ReplyTypes ==
  /\ settled \in SUBSET Adds
  /\ toClient \in [Connections -> Seq(Buffer)]
  /\ replies \in [Connections -> Seq(Responses)]

(* An add whose continuation has run was handed over.                      *)
SettledInv == \A m \in settled : handed[m] # Null

(* The client has read the first responses written to a connection; the    *)
(* rest is on its way.                                                     *)
ReplyStream(c, s) ==
  /\ Len(replies[c]) \in 0 .. Len(s)
  /\ \A i \in 1 .. Len(replies[c]) : replies[c][i] = s[i]
  /\ InTransit(toClient[c], s, Len(replies[c]), ReplyWire)

(* written holds, in order, what was written to each connection: replies   *)
(* to different adds, all of them settled.                                 *)
WrittenInv(written) ==
  /\ \A c \in Connections : ReplyStream(c, written[c])
  /\ \A c \in Connections : \A i \in 1 .. Len(written[c]) :
       \E m \in settled : Complete(m) /\ written[c][i] = Reply(m)
  /\ \A c, d \in Connections :
       \A i \in 1 .. Len(written[c]), j \in 1 .. Len(written[d]) :
         written[c][i] = written[d][j] => c = d /\ i = j

ReplyInv ==
  /\ ReplyTypes
  /\ SettledInv
  /\ \E written \in [Connections -> Seq(Responses)] : WrittenInv(written)

LEMMA ReplyPackets ==
  /\ \A r \in Responses : ReplyWire[r] = ServerWrite(r)
  /\ \A r \in Responses : IsPacket(ReplyWire[r])
PROOF
  <1>1. \A r \in Responses : IsPacket(ServerWrite(r))
    BY ResponseLayout
  <1>2. \A r \in Responses : ReplyWire[r] = ServerWrite(r)
    BY DEF ReplyWire
  <1> QED BY <1>1, <1>2, Zenon

LEMMA RepliesStart == Init => ReplyInv
PROOF
  <1> SUFFICES ASSUME Init
               PROVE  ReplyInv
    OBVIOUS
  <1> DEFINE none == [c \in Connections |-> <<>>]
  <1>1. settled = {} /\ toClient = none /\ replies = none
    BY DEF Init
  <1>2. /\ <<>> \in Seq(Responses) /\ <<>> \in Seq(Buffer)
        /\ 0 \in 0 .. Len(<<>>) /\ Len(<<>>) = 0
        /\ \A i \in 1 .. Len(<<>>) : FALSE
    OBVIOUS
  <1>3. /\ none \in [Connections -> Seq(Responses)]
        /\ none \in [Connections -> Seq(Buffer)]
    BY <1>2
  <1>4. \A c \in Connections :
          none[c] = <<>> /\ toClient[c] = <<>> /\ replies[c] = <<>>
    BY <1>1
  <1>5. ReplyTypes /\ SettledInv
    BY <1>1, <1>3 DEF ReplyTypes, SettledInv
  <1> HIDE DEF none
  <1>6. \A c \in Connections : ReplyStream(c, none[c])
    BY <1>2, <1>4, TransitStarts, Zenon DEF ReplyStream
  <1>7. WrittenInv(none)
    BY <1>2, <1>4, <1>6, Zenon DEF WrittenInv
  <1> QED BY <1>3, <1>5, <1>7 DEF ReplyInv

(* The response to an add that was handed over.                            *)
LEMMA ReplyWritten ==
  ASSUME RequestInv, NEW m \in Adds, handed[m] # Null
  PROVE  Reply(m) \in Responses /\ Written(m) = ReplyWire[Reply(m)]
PROOF
  <1>1. m \in Messages /\ handed[m] = RequestOf[m]
    BY AddsAreMessages DEF RequestInv
  <1>2. RequestOf[m] \in ClientRequests
    BY <1>1, RequestAssumption
  <1>3. RequestOf[m].ledgerId \in Int64s /\ RequestOf[m].entryId \in Int64s
    BY <1>2, RequestFields
  <1>4. 2 \in Octets /\ AddEntry \in Octets /\ Error(m) \in Octets
    BY DEF Octets, AddEntry, Error, IOError, OK
  <1>5. Reply(m) \in Responses
    BY <1>3, <1>4, Zenon DEF Reply, Responses
  <1>6. Written(m) = ServerWrite(Reply(m))
    BY <1>1, Zenon DEF Written, Response, Reply
  <1> QED BY <1>5, <1>6, ReplyPackets

(* Different adds have different responses.                                *)
LEMMA RepliesDiffer ==
  ASSUME NEW m \in Adds, NEW n \in Adds,
         \/ Reply(m) = Reply(n)
         \/ /\ RequestOf[m].ledgerId = RequestOf[n].ledgerId
            /\ RequestOf[m].entryId = RequestOf[n].entryId
  PROVE  m = n
PROOF
  <1>1. /\ Reply(m).ledgerId = RequestOf[m].ledgerId
        /\ Reply(m).entryId = RequestOf[m].entryId
        /\ Reply(n).ledgerId = RequestOf[n].ledgerId
        /\ Reply(n).entryId = RequestOf[n].entryId
    BY DEF Reply
  <1>2. /\ RequestOf[m].ledgerId = RequestOf[n].ledgerId
        /\ RequestOf[m].entryId = RequestOf[n].entryId
    BY <1>1
  <1> QED BY <1>2, IdentifierAssumption

(* An outcome is final, and a request that was handed over stays so.       *)
LEMMA OutcomesStay ==
  ASSUME RequestInv, StoreInv, [Next]_vars
  PROVE  /\ \A m \in Adds : Complete(m) => future'[m] = future[m]
         /\ \A m \in Adds : handed[m] # Null => handed'[m] # Null
PROOF
  <1>1. /\ StoreTypes /\ QueueInv
        /\ future \in [Adds -> {"unused", "pending", "value", "broken", "lost"}]
    BY DEF StoreInv, StoreTypes
  <1>2. ASSUME NEW n \in Messages,
               handed' = [handed EXCEPT ![n] = RequestOf[n]]
        PROVE  \A m \in Adds : handed[m] # Null => handed'[m] # Null
    <2>1. /\ handed \in [Messages -> ClientRequests \cup {Null}]
          /\ \A m \in Messages : handed[m] # Null => handed[m] = RequestOf[m]
      BY DEF RequestInv, RequestTypes
    <2> QED BY <1>2, <2>1, AddsAreMessages
  <1>3. ASSUME NEW c \in Connections, ReadAdd(c)
        PROVE  /\ \A m \in Adds : Complete(m) => future'[m] = future[m]
               /\ \A m \in Adds : handed[m] # Null => handed'[m] # Null
    <2>1. /\ Store!Call(NextMessage(c))
          /\ NextMessage(c) \in Messages
          /\ handed' = [handed EXCEPT ![NextMessage(c)] =
                          RequestOf[NextMessage(c)]]
      BY <1>3, AddRead, AddsAreMessages
    <2>2. \A m \in Adds : Complete(m) => future'[m] = future[m]
      BY <1>1, <2>1 DEF Store!Call, Complete
    <2> QED BY <1>2, <2>1, <2>2
  <1>4. ASSUME NEW c \in Connections, ReadOther(c)
        PROVE  /\ \A m \in Adds : Complete(m) => future'[m] = future[m]
               /\ \A m \in Adds : handed[m] # Null => handed'[m] # Null
    <2>1. /\ TakeFrame(c) /\ WellFormed(Frame(toServer[c]))
          /\ handed' = [handed EXCEPT ![NextMessage(c)] =
                          ServerRead(Frame(toServer[c]))]
          /\ future' = future
      BY <1>4 DEF ReadOther, store
    <2>2. /\ ServerRead(Frame(toServer[c])) = RequestOf[NextMessage(c)]
          /\ NextMessage(c) \in Messages
      BY <2>1, RequestRead, FrameTaken
    <2> QED BY <1>2, <2>1, <2>2
  <1>5. ASSUME UNCHANGED handed, UNCHANGED future
        PROVE  /\ \A m \in Adds : Complete(m) => future'[m] = future[m]
               /\ \A m \in Adds : handed[m] # Null => handed'[m] # Null
    BY <1>5
  <1>6. ASSUME UNCHANGED handed,
               \A m \in Adds : Complete(m) => future'[m] = future[m]
        PROVE  /\ \A m \in Adds : Complete(m) => future'[m] = future[m]
               /\ \A m \in Adds : handed[m] # Null => handed'[m] # Null
    BY <1>6
  <1>7. ASSUME NEW c \in Connections,
               \/ Connect(c) \/ Receive(c) \/ Leave(c)
               \/ RejectFrame(c) \/ DeletePipeline(c)
        PROVE  UNCHANGED handed /\ UNCHANGED future
    BY <1>7 DEF Connect, Receive, Leave, RejectFrame, DeletePipeline, adds, store
  <1>8. ASSUME \/ \E m \in Messages : Send(m)
               \/ \E t \in IOThreads : PutDone(t)
               \/ \E m \in Adds : Continue(m) \/ ContinueDestroyed(m)
               \/ Commit \/ Stop \/ End \/ Restart \/ UNCHANGED vars
        PROVE  UNCHANGED handed /\ UNCHANGED future
    BY <1>8 DEF Send, PutDone, Continue, ContinueDestroyed, Commit, Stop, End,
                Down, Restart, vars, adds, store, Store!Accept, Store!Commit
  <1>9. ASSUME Answer
        PROVE  UNCHANGED handed
               /\ \A m \in Adds : Complete(m) => future'[m] = future[m]
    <2>1. /\ answered < committed /\ UNCHANGED handed
          /\ future' = [future EXCEPT ![order[answered + 1]] = "value"]
      BY <1>9 DEF Answer, Store!Answer, adds
    <2>2. answered + 1 \in answered + 1 .. Len(order)
      BY <1>1, <2>1 DEF StoreTypes, QueueInv
    <2>3. future[order[answered + 1]] = "pending"
      BY <1>1, <2>2 DEF QueueInv
    <2> QED BY <1>1, <2>1, <2>3 DEF Complete
  <1>10. ASSUME GiveUp
         PROVE  UNCHANGED handed
                /\ \A m \in Adds : Complete(m) => future'[m] = future[m]
    <2>1. PICK k \in DOMAIN order : Store!GiveUp(k)
      BY <1>10 DEF GiveUp
    <2>2. UNCHANGED handed
      BY <1>10 DEF GiveUp, adds
    <2>3. /\ committed = answered /\ k \in 1 .. Len(order)
          /\ future' = [m \in Adds |->
                          IF \E i \in committed + 1 .. k : order[i] = m
                            THEN "broken" ELSE future[m]]
      BY <1>1, <2>1 DEF Store!GiveUp, StoreTypes
    <2>4. \A i \in committed + 1 .. k : i \in answered + 1 .. Len(order)
      BY <1>1, <2>3 DEF StoreTypes
    <2>5. \A i \in committed + 1 .. k : future[order[i]] = "pending"
      BY <1>1, <2>4 DEF QueueInv
    <2> QED BY <2>2, <2>3, <2>5 DEF Complete
  <1>11. ASSUME CloseStore \/ Crash
         PROVE  UNCHANGED handed
                /\ \A m \in Adds : Complete(m) => future'[m] = future[m]
    <2>1. UNCHANGED handed
      BY <1>11 DEF CloseStore, Crash, Down, adds
    <2>2. \E dropped \in SUBSET Adds : Store!Close(dropped)
      BY <1>11 DEF CloseStore, Crash, Waiting
    <2> QED BY <2>1, <2>2 DEF Complete, Store!Close
  <1> QED BY <1>3, <1>4, <1>5, <1>6, <1>7, <1>8, <1>9, <1>10, <1>11 DEF Next

(* Nothing is written or read.                                             *)
LEMMA RepliesStay ==
  ASSUME ReplyInv, UNCHANGED <<toClient, replies>>,
         \A m \in Adds : Complete(m) => future'[m] = future[m],
         settled \subseteq settled', settled' \in SUBSET Adds,
         \A m \in settled' : handed'[m] # Null
  PROVE  ReplyInv'
PROOF
  <1>1. toClient' = toClient /\ replies' = replies
    OBVIOUS
  <1>2. ReplyTypes' /\ SettledInv'
    BY <1>1 DEF ReplyInv, ReplyTypes, SettledInv
  <1>3. PICK written \in [Connections -> Seq(Responses)] : WrittenInv(written)
    BY DEF ReplyInv
  <1>4. ASSUME NEW c \in Connections
        PROVE  ReplyStream(c, written[c])'
    BY <1>1, <1>3 DEF WrittenInv, ReplyStream
  <1>5. \A c \in Connections : \A i \in 1 .. Len(written[c]) :
          \E m \in settled : Complete(m) /\ written[c][i] = Reply(m)
    BY <1>3 DEF WrittenInv
  <1>6. \A m \in settled : m \in Adds /\ m \in settled'
    BY DEF ReplyInv, ReplyTypes
  <1>7. \A m \in settled : Complete(m) => Complete(m)' /\ Reply(m)' = Reply(m)
    BY <1>6 DEF Complete, Reply, Error
  <1>8. \A c \in Connections : \A i \in 1 .. Len(written[c]) :
          \E m \in settled' : Complete(m)' /\ written[c][i] = Reply(m)'
    BY <1>5, <1>6, <1>7
  <1>9. WrittenInv(written)'
    BY <1>3, <1>4, <1>8 DEF WrittenInv
  <1> QED BY <1>2, <1>9 DEF ReplyInv

(* What a client reads is the next response that was written to it.        *)
LEMMA NextResponse ==
  ASSUME ReplyInv, NEW written \in [Connections -> Seq(Responses)],
         WrittenInv(written), NEW c \in Connections, Receive(c)
  PROVE  /\ Len(replies[c]) + 1 \in 1 .. Len(written[c])
         /\ ClientRead(Frame(toClient[c])) = written[c][Len(replies[c]) + 1]
         /\ InTransit(AfterFrame(toClient[c]), written[c],
                      Len(replies[c]) + 1, ReplyWire)
PROOF
  <1> DEFINE s == written[c]
             k == Len(replies[c])
  <1>1. FrameReady(toClient[c])
    BY DEF Receive
  <1>2. s \in Seq(Responses) /\ Len(s) \in Nat
    OBVIOUS
  <1>3. k \in 0 .. Len(s) /\ InTransit(toClient[c], s, k, ReplyWire)
    BY DEF WrittenInv, ReplyStream
  <1>4. /\ k + 1 \in 1 .. Len(s)
        /\ Frame(toClient[c]) = Body(ReplyWire[s[k + 1]])
        /\ InTransit(AfterFrame(toClient[c]), s, k + 1, ReplyWire)
    BY <1>1, <1>2, <1>3, ReplyPackets, TransitShrinks
  <1>5. s[k + 1] \in Responses
    BY <1>2, <1>4
  <1>6. ClientRead(Frame(toClient[c])) = s[k + 1]
    BY <1>4, <1>5, ReplyPackets, ResponsesArrive
  <1> QED BY <1>4, <1>6

(* The client reads the next response.                                     *)
LEMMA ReceiveKept ==
  ASSUME ReplyInv, NEW c \in Connections, Receive(c)
  PROVE  ReplyInv'
PROOF
  <1>1. PICK written \in [Connections -> Seq(Responses)] : WrittenInv(written)
    BY DEF ReplyInv
  <1> DEFINE s == written[c]
             k == Len(replies[c])
             r == ClientRead(Frame(toClient[c]))
  <1>2. /\ replies' = [replies EXCEPT ![c] = Append(replies[c], r)]
        /\ toClient' = [toClient EXCEPT ![c] = AfterFrame(toClient[c])]
        /\ settled' = settled /\ future' = future /\ handed' = handed
    BY DEF Receive, adds, store
  <1>3. ReplyTypes /\ SettledInv
    BY DEF ReplyInv
  <1>4. /\ s \in Seq(Responses) /\ replies[c] \in Seq(Responses)
        /\ k \in Nat /\ Len(s) \in Nat
    BY <1>3 DEF ReplyTypes
  <1>5. \A i \in 1 .. k : replies[c][i] = s[i]
    BY <1>1 DEF WrittenInv, ReplyStream
  <1>6. /\ k + 1 \in 1 .. Len(s)
        /\ InTransit(AfterFrame(toClient[c]), s, k + 1, ReplyWire)
    BY <1>1, NextResponse
  <1>7. s[k + 1] \in Responses
    BY <1>4, <1>6
  <1>8. r = s[k + 1]
    BY <1>1, NextResponse
  <1>9. AfterFrame(toClient[c]) \in Seq(Buffer)
    <2>1. Len(s) - (k + 1) \in Nat
      BY <1>4, <1>6
    <2> QED BY <1>6, <2>1, CarriesBuffer DEF InTransit
  <1> HIDE DEF s, r
  <1>10. /\ Append(replies[c], r) \in Seq(Responses)
         /\ Len(Append(replies[c], r)) = k + 1
         /\ \A i \in 1 .. k + 1 : Append(replies[c], r)[i] = s[i]
    <2>1. Append(replies[c], r) \in Seq(Responses)
      BY <1>4, <1>7, <1>8
    <2>2. /\ Len(Append(replies[c], r)) = k + 1
          /\ Append(replies[c], r)[k + 1] = r
          /\ \A i \in 1 .. k : Append(replies[c], r)[i] = replies[c][i]
      BY <1>4, <1>7, <1>8
    <2>3. \A i \in 1 .. k + 1 : i \in 1 .. k \/ i = k + 1
      <3>1. \A n \in Nat : \A i \in 1 .. n + 1 : i \in 1 .. n \/ i = n + 1
        OBVIOUS
      <3> QED BY <1>4, <3>1, Zenon
    <2> QED BY <1>5, <1>8, <2>1, <2>2, <2>3
  <1>11. /\ replies' \in [Connections -> Seq(Responses)]
         /\ replies'[c] = Append(replies[c], r)
         /\ \A d \in Connections \ {c} : replies'[d] = replies[d]
    BY <1>2, <1>3, <1>10 DEF ReplyTypes
  <1>12. /\ toClient' \in [Connections -> Seq(Buffer)]
         /\ toClient'[c] = AfterFrame(toClient[c])
         /\ \A d \in Connections \ {c} : toClient'[d] = toClient[d]
    BY <1>2, <1>3, <1>9 DEF ReplyTypes
  <1>13. ReplyTypes' /\ SettledInv'
    BY <1>2, <1>3, <1>11, <1>12 DEF ReplyTypes, SettledInv
  <1>14. ASSUME NEW d \in Connections
         PROVE  ReplyStream(d, written[d])'
    <2>1. CASE d = c
      <3>1. k + 1 \in 0 .. Len(s)
        BY <1>4, <1>6
      <3>2. Len(replies'[c]) = k + 1
        BY <1>10, <1>11
      <3> HIDE DEF k
      <3>3. \A i \in 1 .. k + 1 : replies'[c][i] = s[i]
        BY <1>10, <1>11
      <3>4. InTransit(toClient'[c], s, k + 1, ReplyWire)
        BY <1>6, <1>12
      <3> QED BY <2>1, <3>1, <3>2, <3>3, <3>4, Zenon DEF ReplyStream, s
    <2>2. CASE d # c
      <3>1. ReplyStream(d, written[d])
        BY <1>1 DEF WrittenInv
      <3>2. replies'[d] = replies[d] /\ toClient'[d] = toClient[d]
        BY <1>11, <1>12, <2>2
      <3> QED BY <3>1, <3>2 DEF ReplyStream
    <2> QED BY <2>1, <2>2
  <1>15. \A m : (Complete(m)' <=> Complete(m)) /\ Reply(m)' = Reply(m)
    BY <1>2 DEF Complete, Reply, Error
  <1>16. \A d \in Connections : \A i \in 1 .. Len(written[d]) :
           \E m \in settled' : Complete(m)' /\ written[d][i] = Reply(m)'
    <2>1. \A d \in Connections : \A i \in 1 .. Len(written[d]) :
            \E m \in settled : Complete(m) /\ written[d][i] = Reply(m)
      BY <1>1 DEF WrittenInv
    <2> QED BY <1>2, <1>15, <2>1
  <1>17. WrittenInv(written)'
    BY <1>1, <1>14, <1>16 DEF WrittenInv
  <1> QED BY <1>13, <1>17 DEF ReplyInv

(* The continuation of an add writes its response.                         *)
LEMMA WriteKept ==
  ASSUME RequestInv, ReplyInv, NEW c \in Connections, NEW m \in Adds,
         m \notin settled, handed[m] # Null, Complete(m),
         WriteTo(c, m), settled' = settled \cup {m},
         UNCHANGED <<replies, handed, future>>
  PROVE  ReplyInv'
PROOF
  <1>1. PICK written \in [Connections -> Seq(Responses)] : WrittenInv(written)
    BY DEF ReplyInv
  <1> DEFINE s == written[c]
             k == Len(replies[c])
             p == ReplyWire[Reply(m)]
             t == Append(s, Reply(m))
  <1>2. /\ Reply(m) \in Responses
        /\ toClient' = [toClient EXCEPT ![c] = toClient[c] \o p]
        /\ replies' = replies /\ handed' = handed /\ future' = future
    BY ReplyWritten DEF WriteTo
  <1>3. ReplyTypes /\ SettledInv
    BY DEF ReplyInv
  <1>4. /\ s \in Seq(Responses) /\ Len(s) \in Nat
        /\ k \in 0 .. Len(s) /\ \A i \in 1 .. k : replies[c][i] = s[i]
        /\ InTransit(toClient[c], s, k, ReplyWire)
    BY <1>1 DEF WrittenInv, ReplyStream
  <1>5. InTransit(toClient[c] \o p, t, k, ReplyWire)
    BY <1>2, <1>4, ReplyPackets, TransitGrows
  <1>6. /\ t \in Seq(Responses) /\ Len(t) = Len(s) + 1
        /\ \A i \in 1 .. Len(s) : t[i] = s[i]
        /\ t[Len(s) + 1] = Reply(m)
        /\ \A i \in 1 .. Len(t) : i \in 1 .. Len(s) \/ i = Len(s) + 1
    <2>1. \A q \in Seq(Responses), x \in Responses :
            /\ Append(q, x) \in Seq(Responses)
            /\ Len(Append(q, x)) = Len(q) + 1
            /\ \A i \in 1 .. Len(q) : Append(q, x)[i] = q[i]
            /\ Append(q, x)[Len(q) + 1] = x
      OBVIOUS
    <2>2. \A n \in Nat : \A i \in 1 .. n + 1 : i \in 1 .. n \/ i = n + 1
      OBVIOUS
    <2> QED BY <1>2, <1>4, <2>1, <2>2, Zenon
  <1>7. toClient[c] \o p \in Seq(Buffer)
    <2>1. p \in Seq(Buffer) /\ toClient[c] \in Seq(Buffer)
      BY <1>2, <1>3, ReplyPackets DEF IsPacket, ReplyTypes
    <2> QED BY <2>1, ConcatProperties
  <1>8. /\ toClient' \in [Connections -> Seq(Buffer)]
        /\ toClient'[c] = toClient[c] \o p
        /\ \A d \in Connections \ {c} : toClient'[d] = toClient[d]
    BY <1>2, <1>3, <1>7 DEF ReplyTypes
  <1>9. ReplyTypes' /\ SettledInv'
    BY <1>2, <1>3, <1>8 DEF ReplyTypes, SettledInv
  <1> HIDE DEF p, t
  <1>10. PICK new \in [Connections -> Seq(Responses)] :
           /\ new[c] = t
           /\ \A d \in Connections \ {c} : new[d] = written[d]
    <2> DEFINE more == [written EXCEPT ![c] = t]
    <2>1. more \in [Connections -> Seq(Responses)]
      BY <1>6
    <2>2. more[c] = t /\ \A d \in Connections \ {c} : more[d] = written[d]
      OBVIOUS
    <2> QED BY <2>1, <2>2
  <1> HIDE DEF s
  <1>11. ASSUME NEW d \in Connections
         PROVE  ReplyStream(d, new[d])'
    <2>1. CASE d = c
      <3>1. k \in 0 .. Len(t) /\ \A i \in 1 .. k : i \in 1 .. Len(s)
        BY <1>4, <1>6
      <3>2. \A i \in 1 .. k : replies[c][i] = t[i]
        BY <1>4, <1>6, <3>1
      <3> QED BY <1>2, <1>5, <1>8, <1>10, <2>1, <3>1, <3>2, Zenon
              DEF ReplyStream
    <2>2. CASE d # c
      <3>1. ReplyStream(d, written[d])
        BY <1>1 DEF WrittenInv
      <3>2. replies'[d] = replies[d] /\ toClient'[d] = toClient[d]
            /\ new[d] = written[d]
        BY <1>2, <1>8, <1>10, <2>2
      <3> QED BY <3>1, <3>2 DEF ReplyStream
    <2> QED BY <2>1, <2>2
  <1>12. \A n : (Complete(n)' <=> Complete(n)) /\ Reply(n)' = Reply(n)
    BY <1>2 DEF Complete, Reply, Error
  <1>13. \A d \in Connections : \A i \in 1 .. Len(written[d]) :
           \E n \in settled : Complete(n) /\ written[d][i] = Reply(n)
    BY <1>1 DEF WrittenInv
  <1>14. ASSUME NEW d \in Connections, NEW i \in 1 .. Len(new[d])
         PROVE  \/ i \in 1 .. Len(written[d]) /\ new[d][i] = written[d][i]
                \/ d = c /\ i = Len(s) + 1 /\ new[d][i] = Reply(m)
    BY <1>6, <1>10, <1>14 DEF s
  <1>15. \A d \in Connections : \A i \in 1 .. Len(new[d]) :
           \E n \in settled' : Complete(n)' /\ new[d][i] = Reply(n)'
    BY <1>12, <1>13, <1>14
  <1>16. \A d \in Connections : \A i \in 1 .. Len(written[d]) :
           written[d][i] # Reply(m)
    <2>1. \A n \in settled : n \in Adds /\ n # m
      BY <1>3 DEF ReplyTypes
    <2> QED BY <1>13, <2>1, RepliesDiffer
  <1>17. ASSUME NEW d \in Connections, NEW e \in Connections,
                NEW i \in 1 .. Len(new[d]), NEW j \in 1 .. Len(new[e]),
                new[d][i] = new[e][j]
         PROVE  d = e /\ i = j
    <2>1. /\ \/ i \in 1 .. Len(written[d]) /\ new[d][i] = written[d][i]
             \/ d = c /\ i = Len(s) + 1 /\ new[d][i] = Reply(m)
          /\ \/ j \in 1 .. Len(written[e]) /\ new[e][j] = written[e][j]
             \/ e = c /\ j = Len(s) + 1 /\ new[e][j] = Reply(m)
      BY <1>14
    <2>2. \A i0 \in 1 .. Len(written[d]), j0 \in 1 .. Len(written[e]) :
            written[d][i0] = written[e][j0] => d = e /\ i0 = j0
      BY <1>1 DEF WrittenInv
    <2> QED BY <1>16, <1>17, <2>1, <2>2
  <1>18. WrittenInv(new)'
    BY <1>11, <1>15, <1>17 DEF WrittenInv
  <1> QED BY <1>9, <1>10, <1>18 DEF ReplyInv

LEMMA RepliesKept == RequestInv /\ StoreInv /\ ReplyInv /\ [Next]_vars => ReplyInv'
PROOF
  <1> SUFFICES ASSUME RequestInv, StoreInv, ReplyInv, [Next]_vars
               PROVE  ReplyInv'
    OBVIOUS
  <1>1. /\ \A m \in Adds : Complete(m) => future'[m] = future[m]
        /\ \A m \in Adds : handed[m] # Null => handed'[m] # Null
    BY OutcomesStay
  <1>2. settled \in SUBSET Adds /\ \A m \in settled : handed[m] # Null
    BY DEF ReplyInv, ReplyTypes, SettledInv
  <1>3. ASSUME UNCHANGED <<settled, toClient, replies>>
        PROVE  ReplyInv'
    <2>1. settled \subseteq settled' /\ settled' \in SUBSET Adds
      BY <1>2, <1>3
    <2>2. \A m \in settled' : handed'[m] # Null
      BY <1>1, <1>2, <1>3
    <2> QED BY <1>1, <1>3, <2>1, <2>2, RepliesStay
  <1>4. ASSUME NEW c \in Connections,
               \/ Connect(c) \/ Leave(c) \/ ReadAdd(c)
               \/ ReadOther(c) \/ RejectFrame(c) \/ DeletePipeline(c)
        PROVE  ReplyInv'
    BY <1>3, <1>4 DEF Connect, Leave, ReadAdd, ReadOther, RejectFrame,
                      DeletePipeline, adds
  <1>5. ASSUME \/ \E m \in Messages : Send(m)
               \/ \E t \in IOThreads : PutDone(t)
               \/ Commit \/ Answer \/ GiveUp \/ Stop \/ CloseStore \/ Restart
               \/ UNCHANGED vars
        PROVE  ReplyInv'
    BY <1>3, <1>5 DEF Send, PutDone, Commit, Answer, GiveUp, Stop, CloseStore,
                      Restart, vars, adds, channels
  <1>6. ASSUME NEW c \in Connections, Receive(c)
        PROVE  ReplyInv'
    BY <1>6, ReceiveKept
  <1>7. ASSUME NEW m \in Adds, CanContinue(m), settled' = settled \cup {m},
               UNCHANGED <<replies, handed, future>>,
               \/ UNCHANGED toClient
               \/ \E c \in Connections : WriteTo(c, m)
        PROVE  ReplyInv'
    <2>1. m \notin settled /\ handed[m] # Null /\ Complete(m)
      BY <1>7 DEF CanContinue
    <2>2. CASE UNCHANGED toClient
      <3>1. settled \subseteq settled' /\ settled' \in SUBSET Adds
        BY <1>2, <1>7
      <3>2. \A n \in settled' : handed'[n] # Null
        BY <1>2, <1>7, <2>1
      <3> QED BY <1>1, <1>7, <2>2, <3>1, <3>2, RepliesStay
    <2>3. CASE \E c \in Connections : WriteTo(c, m)
      BY <1>7, <2>1, <2>3, WriteKept
    <2> QED BY <1>7, <2>2, <2>3
  <1>8. ASSUME NEW m \in Adds, Continue(m)
        PROVE  ReplyInv'
    <2>1. /\ CanContinue(m) /\ WriteTo(ConnectionOf[m], m)
          /\ settled' = settled \cup {m}
          /\ UNCHANGED <<replies, handed, future>>
      BY <1>8 DEF Continue, store
    <2> QED BY <1>7, <2>1, Threads
  <1>9. ASSUME NEW m \in Adds, ContinueDestroyed(m)
        PROVE  ReplyInv'
    <2>1. /\ CanContinue(m) /\ settled' = settled \cup {m}
          /\ UNCHANGED <<replies, handed, future>>
          /\ UNCHANGED toClient \/ \E c \in Connections : WriteTo(c, m)
      BY <1>9 DEF ContinueDestroyed, store
    <2> QED BY <1>7, <2>1
  <1>10. CASE End \/ Crash
    <2>1. /\ settled' = {m \in Adds : handed[m] # Null}
          /\ UNCHANGED <<toClient, replies, handed>>
      BY <1>10 DEF End, Crash, Down
    <2>2. settled \subseteq settled' /\ settled' \in SUBSET Adds
      BY <1>2, <2>1
    <2>3. \A m \in settled' : handed'[m] # Null
      BY <2>1
    <2> QED BY <1>1, <2>1, <2>2, <2>3, RepliesStay
  <1> QED BY <1>4, <1>5, <1>6, <1>8, <1>9, <1>10 DEF Next

-----------------------------------------------------------------------------
(* What the runs check *)

ServerInv == RequestInv /\ StoreInv /\ ReplyInv

(* The invariant holds at the start and every step keeps it.               *)
LEMMA ServerInvHolds == Spec => []ServerInv
PROOF
  <1>1. Init => ServerInv
    BY RequestsStart, StoreStarts, RepliesStart DEF ServerInv
  <1>2. ServerInv /\ [Next]_vars => ServerInv'
    BY RequestsKept, StoreKept, RepliesKept DEF ServerInv
  <1> QED BY <1>1, <1>2, PTL DEF Spec

(* What a client has read was written to it.                               *)
LEMMA ReadWasWritten ==
  ASSUME ReplyInv
  PROVE  \E written \in [Connections -> Seq(Responses)] :
           /\ WrittenInv(written)
           /\ \A c \in Connections : \A i \in DOMAIN replies[c] :
                /\ i \in 1 .. Len(written[c]) /\ i \in 1 .. Len(replies[c])
                /\ replies[c][i] = written[c][i]
                /\ \E m \in settled : Complete(m) /\ replies[c][i] = Reply(m)
PROOF
  <1>1. PICK written \in [Connections -> Seq(Responses)] : WrittenInv(written)
    BY DEF ReplyInv
  <1>2. ASSUME NEW c \in Connections, NEW i \in DOMAIN replies[c]
        PROVE  /\ i \in 1 .. Len(written[c]) /\ i \in 1 .. Len(replies[c])
               /\ replies[c][i] = written[c][i]
               /\ \E m \in settled : Complete(m) /\ replies[c][i] = Reply(m)
    <2>1. ReplyStream(c, written[c])
      BY <1>1 DEF WrittenInv
    <2>2. replies[c] \in Seq(Responses) /\ written[c] \in Seq(Responses)
      BY DEF ReplyInv, ReplyTypes
    <2>3. i \in 1 .. Len(replies[c]) /\ i \in 1 .. Len(written[c])
      BY <1>2, <2>1, <2>2 DEF ReplyStream
    <2>4. replies[c][i] = written[c][i]
      BY <2>1, <2>3 DEF ReplyStream
    <2>5. \E m \in settled : Complete(m) /\ written[c][i] = Reply(m)
      BY <1>1, <2>3 DEF WrittenInv
    <2> QED BY <2>3, <2>4, <2>5
  <1> QED BY <1>1, <1>2

(* The peer of every connection is there or gone.                          *)
ClientTypes == client \in [Connections -> {"there", "gone"}]

(* The server's state has its types, and an add without a place keeps an   *)
(* IO thread in Storage::put.                                              *)
THEOREM ServerStateIsTyped == Spec => []ServerTypeOK
PROOF
  <1>1. ASSUME NEW c \in Connections, connection[c] = "new", ServerInv
        PROVE  toServer[c] = <<>> /\ taken[c] = 0
    <2>1. toServer[c] = <<>> /\ taken[c] \in 0 .. Len(sent[c]) /\ sent[c] = <<>>
      BY <1>1 DEF ServerInv, RequestInv, Link, Stream
    <2> QED BY <2>1
  <1>2. ServerInv /\ ClientTypes => ServerTypeOK
    <2> SUFFICES ASSUME ServerInv, ClientTypes
                 PROVE  ServerTypeOK
      OBVIOUS
    <2>1. StoreTypes /\ RequestTypes /\ ReplyTypes /\ PutInv
      BY DEF ServerInv, StoreInv, RequestInv, ReplyInv
    <2>2. ASSUME NEW c \in Connections
          PROVE  /\ sent[c] \in Seq(Messages)
                 /\ taken[c] \in 0 .. Len(sent[c])
                 /\ toServer[c] \in Seq(0 .. 255 \cup {Unwritten})
                 /\ toClient[c] \in Seq(0 .. 255 \cup {Unwritten})
                 /\ connection[c] = "new" => toServer[c] = <<>> /\ taken[c] = 0
      <3>1. taken[c] \in 0 .. Len(sent[c])
        BY DEF ServerInv, RequestInv, Link
      <3>2. 0 .. 255 \cup {Unwritten} = Buffer
        BY DEF Buffer, Octets
      <3>3. /\ sent[c] \in Seq(Messages) /\ toServer[c] \in Seq(Buffer)
            /\ toClient[c] \in Seq(Buffer)
        BY <2>1 DEF RequestTypes, ReplyTypes
      <3> QED BY <1>1, <3>1, <3>2, <3>3, Zenon
    <2>3. ASSUME NEW m \in Adds, future[m] = "pending",
                 m \notin Members(1, Len(order))
          PROVE  busy[ThreadOf[ConnectionOf[m]]] = m
      BY <2>1, <2>3 DEF PutInv, Queued, Members
    <2>4. /\ process \in {"up", "stopping", "closed", "down"}
          /\ connection \in [Connections -> {"new", "open", "closing", "closed"}]
          /\ busy \in [IOThreads -> Adds \cup {Null}]
          /\ settled \in SUBSET Adds
          /\ logged \in SUBSET Adds /\ writeErrors \in SUBSET Adds
      BY <2>1 DEF StoreTypes, Tried, RequestTypes, ReplyTypes
    <2> QED BY <2>2, <2>3, <2>4, Zenon DEF ServerTypeOK, ClientTypes
  <1>3. Init => ClientTypes
    BY DEF Init, ClientTypes
  <1>4. ClientTypes /\ [Next]_vars => ClientTypes'
    <2> SUFFICES ASSUME ClientTypes, [Next]_vars
                 PROVE  ClientTypes'
      OBVIOUS
    <2>1. ASSUME NEW c \in Connections, Leave(c)
          PROVE  ClientTypes'
      BY <2>1 DEF Leave, ClientTypes
    <2>2. ASSUME NEW c \in Connections,
                 \/ Connect(c) \/ Receive(c) \/ ReadAdd(c)
                 \/ ReadOther(c) \/ RejectFrame(c) \/ DeletePipeline(c)
          PROVE  UNCHANGED client
      BY <2>2 DEF Connect, Receive, ReadAdd, ReadOther, RejectFrame,
                  DeletePipeline
    <2>3. ASSUME \/ \E m \in Messages : Send(m)
                 \/ \E t \in IOThreads : PutDone(t)
                 \/ \E m \in Adds : Continue(m) \/ ContinueDestroyed(m)
                 \/ Commit \/ Answer \/ GiveUp \/ Stop \/ CloseStore \/ Restart
                 \/ End \/ Crash \/ UNCHANGED vars
          PROVE  UNCHANGED client
      BY <2>3 DEF Send, PutDone, Continue, ContinueDestroyed, Commit, Answer,
                  GiveUp, Stop, CloseStore, Restart, End, Crash, Down, vars,
                  channels
    <2> QED BY <2>1, <2>2, <2>3 DEF Next, ClientTypes
  <1> QED BY <1>2, <1>3, <1>4, ServerInvHolds, PTL DEF Spec

(* A client that reads OK has its entry in the log of the database, or the *)
(* Write of its group returned an error that was dropped (Storage.cpp:192);*)
(* for one that reads an error the database has not been asked to log the  *)
(* entry: whatever became of the connection, the threads and the process   *)
(* (BookieHandler.cpp, Storage.cpp).                                       *)
THEOREM RepliesAreTrue == Spec => []RepliesTellOutcome
PROOF
  <1>1. ASSUME StoreInv, ReplyInv, NEW c \in Connections,
               NEW i \in DOMAIN replies[c]
        PROVE  \E m \in Adds :
                 /\ Names(replies[c][i], m)
                 /\ replies[c][i].errorCode = OK => m \in Tried
                 /\ replies[c][i].errorCode # OK => m \notin Tried
    <2>1. PICK m \in settled : Complete(m) /\ replies[c][i] = Reply(m)
      BY <1>1, ReadWasWritten
    <2>2. m \in Adds
      BY <1>1 DEF ReplyInv, ReplyTypes
    <2>3. Names(replies[c][i], m) /\ replies[c][i].errorCode = Error(m)
      BY <2>1 DEF Names, Reply
    <2>4. /\ future[m] = "value" => m \in Tried
          /\ future[m] = "broken" => m \notin Tried
      BY <1>1, <2>2 DEF StoreInv, OutcomeInv
    <2>5. IOError # OK
      BY DEF IOError, OK
    <2>6. /\ Error(m) = OK => m \in Tried
          /\ Error(m) # OK => m \notin Tried
      BY <2>1, <2>4, <2>5 DEF Complete, Error
    <2> QED BY <2>2, <2>3, <2>6
  <1>2. ServerInv => RepliesTellOutcome
    BY <1>1 DEF ServerInv, RepliesTellOutcome, Tried
  <1> QED BY <1>2, ServerInvHolds, PTL

(* No add is answered twice, on its connection or on another.              *)
THEOREM AddsAreAnsweredOnce == Spec => []OneReplyPerAdd
PROOF
  <1> DEFINE Answers(m) ==
        {r \in Connections \X (1 .. Cardinality(Messages)) :
           /\ r[2] <= Len(replies[r[1]])
           /\ Names(replies[r[1]][r[2]], m)}
  <1>1. ASSUME ReplyInv, NEW m \in Adds,
               NEW q \in Answers(m), NEW r \in Answers(m)
        PROVE  q = r
    <2>1. PICK written \in [Connections -> Seq(Responses)] :
            /\ WrittenInv(written)
            /\ \A c \in Connections : \A i \in DOMAIN replies[c] :
                 /\ i \in 1 .. Len(written[c]) /\ i \in 1 .. Len(replies[c])
                 /\ replies[c][i] = written[c][i]
                 /\ \E n \in settled : Complete(n) /\ replies[c][i] = Reply(n)
      BY <1>1, ReadWasWritten
    <2>2. ASSUME NEW x \in Answers(m)
          PROVE  /\ x = <<x[1], x[2]>> /\ x[1] \in Connections
                 /\ x[2] \in 1 .. Len(written[x[1]])
                 /\ written[x[1]][x[2]] = Reply(m)
      <3>1. /\ x \in Connections \X (1 .. Cardinality(Messages))
            /\ x[2] <= Len(replies[x[1]])
            /\ Names(replies[x[1]][x[2]], m)
        OBVIOUS
      <3>2. x = <<x[1], x[2]>> /\ x[1] \in Connections /\ x[2] \in Int /\ x[2] >= 1
        BY <3>1
      <3>3. replies[x[1]] \in Seq(Responses)
        BY <1>1, <3>2 DEF ReplyInv, ReplyTypes
      <3>4. x[2] \in DOMAIN replies[x[1]]
        BY <3>1, <3>2, <3>3
      <3>5. PICK n \in settled : replies[x[1]][x[2]] = Reply(n)
        BY <2>1, <3>2, <3>4
      <3>6. n \in Adds
        BY <1>1 DEF ReplyInv, ReplyTypes
      <3>7. /\ RequestOf[n].ledgerId = RequestOf[m].ledgerId
            /\ RequestOf[n].entryId = RequestOf[m].entryId
        BY <3>1, <3>5 DEF Names, Reply
      <3>8. n = m
        BY <3>6, <3>7, RepliesDiffer
      <3> QED BY <2>1, <3>2, <3>4, <3>5, <3>8
    <2> HIDE DEF Answers
    <2>3. q[1] = r[1] /\ q[2] = r[2]
      <3>1. /\ q[1] \in Connections /\ q[2] \in 1 .. Len(written[q[1]])
            /\ r[1] \in Connections /\ r[2] \in 1 .. Len(written[r[1]])
            /\ written[q[1]][q[2]] = written[r[1]][r[2]]
        BY <2>2
      <3>2. \A c, d \in Connections :
              \A i \in 1 .. Len(written[c]), j \in 1 .. Len(written[d]) :
                written[c][i] = written[d][j] => c = d /\ i = j
        BY <2>1 DEF WrittenInv
      <3> QED BY <3>1, <3>2
    <2> QED BY <2>2, <2>3
  <1>2. ASSUME ReplyInv, NEW m \in Adds
        PROVE  Cardinality(Answers(m)) <= 1
    <2> HIDE DEF Answers
    <2>1. CASE Answers(m) = {}
      BY <2>1, FS_EmptySet
    <2>2. CASE Answers(m) # {}
      <3>1. PICK r : r \in Answers(m)
        BY <2>2
      <3>2. Answers(m) = {r}
        BY <1>1, <1>2, <3>1
      <3>3. Cardinality({r}) = 1
        BY FS_Singleton
      <3> QED BY <3>2, <3>3
    <2> QED BY <2>1, <2>2
  <1>3. ServerInv => OneReplyPerAdd
    BY <1>2 DEF ServerInv, OneReplyPerAdd
  <1> QED BY <1>3, ServerInvHolds, PTL
-----------------------------------------------------------------------------
(* The order of the adds *)

(* A message is sent once. *)
SentOnce(c) ==
  \A i, j \in 1 .. Len(sent[c]) : sent[c][i] = sent[c][j] => i = j

(* An add that the store knows was read from its connection. *)
WasRead(m) ==
  \E i \in 1 .. taken[ConnectionOf[m]] : sent[ConnectionOf[m]][i] = m

(* A put is on the thread of its connection, and no add of the connection  *)
(* that was sent later has a place already.                                *)
PutInTurn(t) ==
  LET c == ConnectionOf[busy[t]]
  IN  /\ ThreadOf[c] = t
      /\ \A i, k \in 1 .. Len(sent[c]) :
           sent[c][i] = busy[t] /\ Queued(sent[c][k]) => k < i

(* The adds of a connection take their places in the order in which they   *)
(* were sent.                                                              *)
PlacesFollow(c) ==
  \A i, j \in 1 .. Len(sent[c]) : \A k, l \in 1 .. Len(order) :
    i < j /\ order[k] = sent[c][i] /\ order[l] = sent[c][j] => k < l

OrderInv ==
  /\ \A c \in Connections : SentOnce(c) /\ PlacesFollow(c)
  /\ \A m \in Adds : future[m] # "unused" => WasRead(m)
  /\ \A t \in IOThreads : busy[t] # Null => PutInTurn(t)

(* Nothing was sent to begin with. *)
LEMMA OrderStarts == Init => OrderInv
PROOF
  <1> SUFFICES ASSUME Init PROVE OrderInv
    OBVIOUS
  <1>1. /\ \A c \in Connections : sent[c] = <<>>
        /\ \A m \in Adds : future[m] = "unused"
        /\ \A t \in IOThreads : busy[t] = Null
        /\ order = <<>>
    BY DEF Init, Store!Init
  <1>2. \A i \in 1 .. Len(<<>>) : FALSE
    OBVIOUS
  <1>3. \A c \in Connections : SentOnce(c) /\ PlacesFollow(c)
    BY <1>1, <1>2 DEF SentOnce, PlacesFollow
  <1> QED BY <1>1, <1>3 DEF OrderInv

(* An add that has a place is known to the store. *)
LEMMA QueuedIsKnown ==
  ASSUME StoreInv, NEW m \in Adds, Queued(m)
  PROVE  future[m] # "unused"
PROOF
  <1>1. PICK i \in 1 .. Len(order) : order[i] = m
    BY DEF Queued
  <1>2. /\ answered \in Nat /\ Len(order) \in Nat
        /\ \A k \in 1 .. answered : future[order[k]] \notin {"unused", "pending"}
        /\ \A k \in answered + 1 .. Len(order) : future[order[k]] = "pending"
    BY DEF StoreInv, StoreTypes, QueueInv
  <1>3. i \in 1 .. answered \/ i \in answered + 1 .. Len(order)
    BY <1>2
  <1> QED BY <1>1, <1>2, <1>3

(* A step that sends nothing and gives no add a place, and that makes no   *)
(* add known.                                                              *)
LEMMA OrderStays ==
  ASSUME RequestInv, OrderInv, UNCHANGED <<sent, order>>,
         \A c \in Connections : taken'[c] = taken[c] \/ taken'[c] = taken[c] + 1,
         \A t \in IOThreads : busy'[t] = busy[t] \/ busy'[t] = Null,
         \A m \in Adds : future'[m] # "unused" => future[m] # "unused"
  PROVE  OrderInv'
PROOF
  <1>1. \A c \in Connections : SentOnce(c)' /\ PlacesFollow(c)'
    BY DEF OrderInv, SentOnce, PlacesFollow
  <1>2. ASSUME NEW m \in Adds, future'[m] # "unused"
        PROVE  WasRead(m)'
    <2> DEFINE c == ConnectionOf[m]
    <2>1. c \in Connections
      BY Threads
    <2>2. taken[c] \in Nat /\ (taken'[c] = taken[c] \/ taken'[c] = taken[c] + 1)
      BY <2>1 DEF RequestInv, RequestTypes
    <2>3. PICK i \in 1 .. taken[c] : sent[c][i] = m
      BY <1>2 DEF OrderInv, WasRead
    <2>4. i \in 1 .. taken'[c]
      BY <2>2
    <2> QED BY <2>3, <2>4 DEF WasRead
  <1>3. ASSUME NEW t \in IOThreads, busy'[t] # Null
        PROVE  PutInTurn(t)'
    <2>1. busy'[t] = busy[t] /\ PutInTurn(t)
      BY <1>3 DEF OrderInv
    <2>2. \A m : Queued(m)' <=> Queued(m)
      BY DEF Queued
    <2> QED BY <2>1, <2>2 DEF PutInTurn
  <1> QED BY <1>1, <1>2, <1>3 DEF OrderInv

(* What is sent is new, and comes last on its connection. *)
LEMMA SendKeepsOrder ==
  ASSUME RequestInv, StoreInv, OrderInv, NEW m \in Messages, Send(m)
  PROVE  OrderInv'
PROOF
  <1> DEFINE c == ConnectionOf[m]
  <1>1. /\ \A i \in DOMAIN sent[c] : sent[c][i] # m
        /\ sent' = [sent EXCEPT ![c] = Append(sent[c], m)]
        /\ taken' = taken /\ busy' = busy /\ order' = order /\ future' = future
    BY DEF Send, adds, store
  <1>2. c \in Connections
    BY ServerAssumption
  <1>3. /\ sent \in [Connections -> Seq(Messages)]
        /\ taken[c] \in 0 .. Len(sent[c])
        /\ \A d \in Connections : \A i \in 1 .. Len(sent[d]) :
             ConnectionOf[sent[d][i]] = d
    BY <1>2 DEF RequestInv, RequestTypes, Link
  <1> DEFINE n == Len(sent[c])
  <1>4. /\ n \in Nat /\ Len(sent'[c]) = n + 1
        /\ \A i \in 1 .. n : sent'[c][i] = sent[c][i] /\ sent[c][i] # m
        /\ sent'[c][n + 1] = m
        /\ \A d \in Connections \ {c} : sent'[d] = sent[d]
    BY <1>1, <1>2, <1>3
  <1>5. ~Queued(m)
    <2> SUFFICES ASSUME Queued(m) PROVE FALSE
      OBVIOUS
    <2>1. m \in Adds
      BY DEF Queued, StoreInv, StoreTypes
    <2>2. future[m] # "unused"
      BY <2>1, QueuedIsKnown
    <2>3. PICK i \in 1 .. taken[c] : sent[c][i] = m
      BY <2>1, <2>2 DEF OrderInv, WasRead
    <2> QED BY <1>3, <1>4, <2>3
  <1>6. \A x : Queued(x)' <=> Queued(x)
    BY <1>1 DEF Queued
  <1> HIDE DEF c
  <1>7. ASSUME NEW d \in Connections
        PROVE  SentOnce(d)' /\ PlacesFollow(d)'
    <2>0. SentOnce(d) /\ PlacesFollow(d)
      BY DEF OrderInv
    <2>1. CASE d # c
      BY <1>1, <1>4, <2>0, <2>1 DEF SentOnce, PlacesFollow
    <2>2. CASE d = c
      <3>1. SentOnce(c)'
        <4> SUFFICES ASSUME NEW i \in 1 .. n + 1, NEW j \in 1 .. n + 1,
                            sent'[c][i] = sent'[c][j]
                     PROVE  i = j
          BY <1>4 DEF SentOnce
        <4>1. \A x, y \in 1 .. n : sent[c][x] = sent[c][y] => x = y
          BY <2>0, <2>2 DEF SentOnce
        <4>2. /\ i = n + 1 \/ i \in 1 .. n
              /\ j = n + 1 \/ j \in 1 .. n
          BY <1>4
        <4>3. CASE i = n + 1
          BY <1>4, <4>2, <4>3
        <4>4. CASE i \in 1 .. n
          BY <1>4, <4>1, <4>2, <4>4
        <4> QED BY <4>2, <4>3, <4>4
      <3>2. PlacesFollow(c)'
        <4> SUFFICES ASSUME NEW i \in 1 .. n + 1, NEW j \in 1 .. n + 1,
                            NEW k \in 1 .. Len(order), NEW l \in 1 .. Len(order),
                            i < j, order[k] = sent'[c][i],
                            order[l] = sent'[c][j]
                     PROVE  k < l
          BY <1>1, <1>4 DEF PlacesFollow
        <4>1. i # n + 1 /\ j # n + 1
          BY <1>4, <1>5 DEF Queued
        <4>2. i \in 1 .. n /\ j \in 1 .. n
          BY <1>4, <4>1
        <4> QED BY <1>4, <2>0, <2>2, <4>2 DEF PlacesFollow
      <3> QED BY <2>2, <3>1, <3>2
    <2> QED BY <2>1, <2>2
  <1>8. ASSUME NEW x \in Adds, future'[x] # "unused"
        PROVE  WasRead(x)'
    <2> DEFINE d == ConnectionOf[x]
    <2>1. d \in Connections
      BY Threads
    <2>2. PICK i \in 1 .. taken[d] : sent[d][i] = x
      BY <1>1, <1>8 DEF OrderInv, WasRead
    <2>3. taken[d] \in 0 .. Len(sent[d])
      BY <2>1 DEF RequestInv, Link
    <2> HIDE DEF d
    <2>4. sent'[d][i] = x
      <3>1. CASE d = c
        BY <1>4, <2>2, <2>3, <3>1
      <3>2. CASE d # c
        BY <1>4, <2>1, <2>2, <3>2
      <3> QED BY <3>1, <3>2
    <2> QED BY <1>1, <2>2, <2>4 DEF WasRead, d
  <1>9. ASSUME NEW t \in IOThreads, busy'[t] # Null
        PROVE  PutInTurn(t)'
    <2> DEFINE d == ConnectionOf[busy[t]]
    <2>1. PutInTurn(t) /\ busy'[t] = busy[t]
      BY <1>1, <1>9 DEF OrderInv
    <2>2. d \in Connections
      <3>1. busy[t] \in Adds
        BY <1>9, <2>1 DEF StoreInv, StoreTypes
      <3> QED BY <3>1, Threads
    <2>3. /\ ThreadOf[d] = t
          /\ \A i, k \in 1 .. Len(sent[d]) :
               sent[d][i] = busy[t] /\ Queued(sent[d][k]) => k < i
      BY <2>1 DEF PutInTurn
    <2> HIDE DEF d
    <2>4. ASSUME NEW i \in 1 .. Len(sent'[d]), NEW k \in 1 .. Len(sent'[d]),
                 sent'[d][i] = busy[t], Queued(sent'[d][k])
          PROVE  k < i
      <3>1. CASE d # c
        BY <1>4, <2>2, <2>3, <2>4, <3>1
      <3>2. CASE d = c
        <4>1. k # n + 1
          BY <1>4, <1>5, <2>4, <3>2
        <4>2. k \in 1 .. n
          BY <1>4, <3>2, <4>1
        <4>3. CASE i = n + 1
          BY <1>4, <4>2, <4>3
        <4>4. CASE i # n + 1
          <5>1. i \in 1 .. n
            BY <1>4, <3>2, <4>4
          <5> QED BY <1>4, <2>3, <2>4, <3>2, <4>2, <5>1
        <4> QED BY <4>3, <4>4
      <3> QED BY <3>1, <3>2
    <2> QED BY <1>6, <2>1, <2>3, <2>4 DEF PutInTurn, d
  <1> QED BY <1>7, <1>8, <1>9 DEF OrderInv

(* An add is read behind all that have a place. *)
LEMMA ReadKeepsOrder ==
  ASSUME RequestInv, StoreInv, OrderInv, NEW c \in Connections, ReadAdd(c)
  PROVE  OrderInv'
PROOF
  <1> DEFINE m == NextMessage(c)
             p == taken[c] + 1
             u == ThreadOf[c]
  <1>1. /\ m \in Adds /\ ConnectionOf[m] = c
        /\ busy' = [busy EXCEPT ![u] = m]
        /\ future[m] = "unused"
        /\ future' = [future EXCEPT ![m] = "pending"]
        /\ order' = order
    BY AddRead DEF Store!Call
  <1>2. /\ TakeFrame(c) /\ sent' = sent
        /\ taken' = [taken EXCEPT ![c] = p]
    BY DEF ReadAdd, TakeFrame
  <1>3. p \in 1 .. Len(sent[c]) /\ m = sent[c][p]
    BY <1>2, FrameTaken DEF NextMessage
  <1>4. /\ taken \in [Connections -> Nat]
        /\ \A d \in Connections : taken[d] \in 0 .. Len(sent[d])
        /\ \A i \in 1 .. Len(sent[c]) : ConnectionOf[sent[c][i]] = c
    BY DEF RequestInv, RequestTypes, Link
  <1>5. u \in IOThreads
    BY ServerAssumption
  <1>6. /\ busy \in [IOThreads -> Adds \cup {Null}]
        /\ future \in [Adds -> {"unused", "pending", "value", "broken", "lost"}]
        /\ \A i \in 1 .. Len(order) : order[i] \in Adds
    BY DEF StoreInv, StoreTypes
  <1>a. taken'[c] = p /\ \A d \in Connections \ {c} : taken'[d] = taken[d]
    BY <1>2, <1>4
  <1> HIDE DEF m
  <1>7. \A d \in Connections : SentOnce(d)' /\ PlacesFollow(d)'
    BY <1>1, <1>2 DEF OrderInv, SentOnce, PlacesFollow
  <1>8. ASSUME NEW x \in Adds, future'[x] # "unused"
        PROVE  WasRead(x)'
    <2>1. CASE x = m
      <3>1. p \in 1 .. taken'[c]
        BY <1>3, <1>a
      <3> QED BY <1>1, <1>2, <1>3, <2>1, <3>1 DEF WasRead
    <2>2. CASE x # m
      <3> DEFINE d == ConnectionOf[x]
      <3>1. future[x] # "unused"
        BY <1>1, <1>6, <1>8, <2>2
      <3>2. PICK i \in 1 .. taken[d] : sent[d][i] = x
        BY <3>1 DEF OrderInv, WasRead
      <3>3. d \in Connections
        BY Threads
      <3> HIDE DEF d
      <3>4. i \in 1 .. taken'[d]
        BY <1>4, <1>a, <3>2, <3>3
      <3> QED BY <1>2, <3>2, <3>4 DEF WasRead, d
    <2> QED BY <2>1, <2>2
  <1>b. \A x : Queued(x)' <=> Queued(x)
    BY <1>1 DEF Queued
  <1>9. ASSUME NEW t \in IOThreads, busy'[t] # Null
        PROVE  PutInTurn(t)'
    <2>1. CASE t # u
      <3>1. busy'[t] = busy[t]
        BY <1>1, <1>6, <2>1
      <3>2. PutInTurn(t)
        BY <1>9, <3>1 DEF OrderInv
      <3> QED BY <1>2, <1>b, <3>1, <3>2 DEF PutInTurn
    <2>2. CASE t = u
      <3>1. busy'[t] = m
        BY <1>1, <1>5, <1>6, <2>2
      <3>2. ASSUME NEW i \in 1 .. Len(sent[c]), NEW k \in 1 .. Len(sent[c]),
                   sent[c][i] = m, Queued(sent[c][k])
            PROVE  k < i
        <4>1. \A x, y \in 1 .. Len(sent[c]) : sent[c][x] = sent[c][y] => x = y
          BY DEF OrderInv, SentOnce
        <4>2. i = p
          BY <1>3, <3>2, <4>1
        <4>3. sent[c][k] \in Adds
          BY <1>6, <3>2 DEF Queued
        <4>4. future[sent[c][k]] # "unused" /\ ConnectionOf[sent[c][k]] = c
          BY <1>4, <3>2, <4>3, QueuedIsKnown
        <4>5. PICK x \in 1 .. taken[c] : sent[c][x] = sent[c][k]
          BY <4>3, <4>4 DEF OrderInv, WasRead
        <4>6. x = k
          <5>1. x \in 1 .. Len(sent[c])
            BY <1>4
          <5> QED BY <4>1, <4>5, <5>1
        <4> QED BY <1>4, <4>2, <4>5, <4>6
      <3> QED BY <1>1, <1>2, <1>b, <2>2, <3>1, <3>2 DEF PutInTurn
    <2> QED BY <2>1, <2>2
  <1> QED BY <1>7, <1>8, <1>9 DEF OrderInv

(* A place is taken behind all others, and by the add whose turn it is.    *)
LEMMA PutKeepsOrder ==
  ASSUME RequestInv, StoreInv, OrderInv, NEW t \in IOThreads, PutDone(t)
  PROVE  OrderInv'
PROOF
  <1> DEFINE m == busy[t]
             n == Len(order)
  <1>1. /\ m # Null
        /\ order' = Append(order, m)
        /\ busy' = [busy EXCEPT ![t] = Null]
        /\ future' = future /\ sent' = sent /\ taken' = taken
    BY DEF PutDone, Store!Accept, channels
  <1>2. /\ busy \in [IOThreads -> Adds \cup {Null}]
        /\ order \in Seq(Adds)
    BY DEF StoreInv, StoreTypes
  <1>3. /\ n \in Nat /\ Len(order') = n + 1
        /\ \A i \in 1 .. n : order'[i] = order[i]
        /\ order'[n + 1] = m
    BY <1>1, <1>2
  <1>4. m \in Adds
    BY <1>1, <1>2
  <1>5. /\ ThreadOf[ConnectionOf[m]] = t
        /\ \A i, k \in 1 .. Len(sent[ConnectionOf[m]]) :
             sent[ConnectionOf[m]][i] = m /\ Queued(sent[ConnectionOf[m]][k])
               => k < i
    BY <1>1 DEF OrderInv, PutInTurn
  <1>6. \A d \in Connections : \A i \in 1 .. Len(sent[d]) :
          ConnectionOf[sent[d][i]] = d
    BY DEF RequestInv, Link
  <1>7. \A x : Queued(x)' => Queued(x) \/ x = m
    <2> SUFFICES ASSUME NEW x, NEW i \in 1 .. n + 1, order'[i] = x
                 PROVE  Queued(x) \/ x = m
      BY <1>3 DEF Queued
    <2> QED BY <1>3 DEF Queued
  <1>a. \A s \in IOThreads : busy'[s] # Null => s # t /\ busy'[s] = busy[s]
    BY <1>1, <1>2
  <1> HIDE DEF m
  <1>8. ASSUME NEW d \in Connections
        PROVE  SentOnce(d)' /\ PlacesFollow(d)'
    <2>0. SentOnce(d) /\ PlacesFollow(d)
      BY DEF OrderInv
    <2>1. SentOnce(d)'
      BY <1>1, <2>0 DEF SentOnce
    <2>2. ASSUME NEW i \in 1 .. Len(sent[d]), NEW j \in 1 .. Len(sent[d]),
                 NEW k \in 1 .. n + 1, NEW l \in 1 .. n + 1,
                 i < j, order'[k] = sent[d][i], order'[l] = sent[d][j]
          PROVE  k < l
      <3>1. CASE l = n + 1 /\ k # n + 1
        BY <1>3, <3>1
      <3>2. CASE l = n + 1 /\ k = n + 1
        <4>1. sent[d][i] = sent[d][j]
          BY <2>2, <3>2
        <4>2. i = j
          BY <2>0, <4>1 DEF SentOnce
        <4> QED BY <2>2, <4>2
      <3>3. CASE l # n + 1 /\ k = n + 1
        <4>1. l \in 1 .. n
          BY <1>3, <3>3
        <4>2. sent[d][i] = m /\ Queued(sent[d][j])
          BY <1>3, <2>2, <3>3, <4>1 DEF Queued
        <4>3. ConnectionOf[m] = d
          BY <1>6, <4>2
        <4>4. j < i
          BY <1>5, <4>2, <4>3
        <4> QED BY <2>2, <4>4
      <3>4. CASE l # n + 1 /\ k # n + 1
        <4>1. k \in 1 .. n /\ l \in 1 .. n
          BY <1>3, <3>4
        <4>2. order[k] = sent[d][i] /\ order[l] = sent[d][j]
          BY <1>3, <2>2, <4>1
        <4> QED BY <2>0, <2>2, <4>1, <4>2 DEF PlacesFollow
      <3> QED BY <3>1, <3>2, <3>3, <3>4
    <2>3. PlacesFollow(d)'
      BY <1>1, <1>3, <2>2 DEF PlacesFollow
    <2> QED BY <2>1, <2>3
  <1>9. ASSUME NEW s \in IOThreads, busy'[s] # Null
        PROVE  PutInTurn(s)'
    <2> DEFINE x == busy[s]
               d == ConnectionOf[x]
    <2>1. s # t /\ busy'[s] = x /\ PutInTurn(s)
      BY <1>9, <1>a DEF OrderInv
    <2>2. x \in Adds /\ d \in Connections
      BY <1>2, <1>9, <2>1, Threads
    <2>3. /\ ThreadOf[d] = s
          /\ \A i, k \in 1 .. Len(sent[d]) :
               sent[d][i] = x /\ Queued(sent[d][k]) => k < i
      BY <2>1 DEF PutInTurn
    <2>4. ASSUME NEW y, Queued(y)',
                 NEW i \in 1 .. Len(sent[d]), NEW k \in 1 .. Len(sent[d]),
                 sent[d][i] = x, sent[d][k] = y
          PROVE  k < i
      <3>1. y # m
        <4> SUFFICES ASSUME y = m PROVE FALSE
          OBVIOUS
        <4>1. ConnectionOf[m] = d
          BY <1>6, <2>2, <2>4
        <4> QED BY <1>5, <2>1, <2>3, <4>1
      <3>2. Queued(y)
        BY <1>7, <2>4, <3>1
      <3> QED BY <2>3, <2>4, <3>2
    <2> HIDE DEF d, x
    <2>5. PutInTurn(s)' <=>
            /\ ThreadOf[ConnectionOf[busy'[s]]] = s
            /\ \A i, k \in 1 .. Len(sent'[ConnectionOf[busy'[s]]]) :
                 /\ sent'[ConnectionOf[busy'[s]]][i] = busy'[s]
                 /\ Queued(sent[ConnectionOf[busy[s]]][k])'
                 => k < i
      BY DEF PutInTurn
    <2> QED BY <1>1, <2>1, <2>3, <2>4, <2>5 DEF d
  <1>10. ASSUME NEW x \in Adds, future'[x] # "unused"
         PROVE  WasRead(x)'
    BY <1>1, <1>10 DEF OrderInv, WasRead
  <1> QED BY <1>8, <1>9, <1>10 DEF OrderInv

(* Every step keeps the order. *)
LEMMA OrderKept ==
  ASSUME RequestInv, StoreInv, OrderInv, [Next]_vars
  PROVE  OrderInv'
PROOF
  <1> DEFINE Known == \A m \in Adds : future'[m] # "unused" => future[m] # "unused"
  <1>1. /\ future \in [Adds -> {"unused", "pending", "value", "broken", "lost"}]
        /\ busy \in [IOThreads -> Adds \cup {Null}]
        /\ taken \in [Connections -> Nat]
    BY DEF StoreInv, StoreTypes, RequestInv, RequestTypes
  <1>2. ASSUME UNCHANGED <<sent, taken, busy, order>>, Known
        PROVE  OrderInv'
    BY <1>2, OrderStays
  <1>3. ASSUME NEW c \in Connections,
               Connect(c) \/ Receive(c) \/ Leave(c) \/ DeletePipeline(c)
        PROVE  OrderInv'
    BY <1>2, <1>3
       DEF Connect, Receive, Leave, DeletePipeline, adds, store
  <1>4. ASSUME NEW c \in Connections, ReadOther(c) \/ RejectFrame(c)
        PROVE  OrderInv'
    <2>1. /\ taken' = [taken EXCEPT ![c] = @ + 1]
          /\ UNCHANGED <<sent, busy, order, future>>
      BY <1>4 DEF ReadOther, RejectFrame, TakeFrame, adds, store
    <2>2. \A d \in Connections : taken'[d] = taken[d] \/ taken'[d] = taken[d] + 1
      BY <1>1, <2>1
    <2> QED BY <2>1, <2>2, OrderStays
  <1>5. ASSUME NEW c \in Connections, ReadAdd(c)
        PROVE  OrderInv'
    BY <1>5, ReadKeepsOrder
  <1>6. ASSUME NEW m \in Messages, Send(m)
        PROVE  OrderInv'
    BY <1>6, SendKeepsOrder
  <1>7. ASSUME NEW t \in IOThreads, PutDone(t)
        PROVE  OrderInv'
    BY <1>7, PutKeepsOrder
  <1>8. ASSUME NEW m \in Adds, Continue(m) \/ ContinueDestroyed(m)
        PROVE  OrderInv'
    BY <1>2, <1>8 DEF Continue, ContinueDestroyed, store
  <1>9. CASE Commit
    BY <1>2, <1>9 DEF Commit, Store!Commit, channels, adds
  <1>10. CASE Answer
    <2>1. /\ answered < committed
          /\ future' = [future EXCEPT ![order[answered + 1]] = "value"]
          /\ UNCHANGED <<sent, taken, busy, order>>
      BY <1>10 DEF Answer, Store!Answer, channels, adds
    <2>2. future[order[answered + 1]] = "pending"
      <3>1. /\ answered \in Nat /\ committed \in Nat /\ Len(order) \in Nat
            /\ committed <= Len(order)
            /\ \A i \in answered + 1 .. Len(order) : future[order[i]] = "pending"
        BY DEF StoreInv, StoreTypes, QueueInv
      <3>2. answered + 1 \in answered + 1 .. Len(order)
        BY <2>1, <3>1
      <3> QED BY <3>1, <3>2
    <2>3. Known
      BY <1>1, <2>1, <2>2
    <2> QED BY <1>2, <2>1, <2>3
  <1>11. CASE GiveUp
    <2>1. PICK k \in DOMAIN order : k > committed /\ Store!GiveUp(k)
      BY <1>11 DEF GiveUp
    <2>2. /\ UNCHANGED <<sent, taken, busy, order>>
          /\ future' = [r \in Adds |->
                          IF \E i \in committed + 1 .. k : order[i] = r
                            THEN "broken" ELSE future[r]]
      BY <1>11, <2>1 DEF GiveUp, Store!GiveUp, channels, adds
    <2>3. ASSUME NEW m \in Adds, future'[m] # "unused"
          PROVE  future[m] # "unused"
      <3>1. CASE \E i \in committed + 1 .. k : order[i] = m
        <4>1. PICK i \in committed + 1 .. k : order[i] = m
          BY <3>1
        <4>2. /\ committed \in Nat /\ Len(order) \in Nat /\ k \in 1 .. Len(order)
          BY DEF StoreInv, StoreTypes
        <4>3. i \in 1 .. Len(order)
          BY <4>2
        <4>4. Queued(m)
          BY <4>1, <4>3 DEF Queued
        <4> QED BY <4>4, QueuedIsKnown
      <3>2. CASE ~ \E i \in committed + 1 .. k : order[i] = m
        BY <2>2, <2>3, <3>2
      <3> QED BY <3>1, <3>2
    <2> QED BY <1>2, <2>2, <2>3
  <1>12. CASE Stop \/ Restart \/ UNCHANGED vars
    BY <1>2, <1>12 DEF Stop, Restart, vars, channels, adds, store
  <1>13. ASSUME NEW dropped \in SUBSET Adds, Store!Close(dropped)
         PROVE  order' = order /\ Known
    BY <1>1, <1>13 DEF Store!Close
  <1>14. CASE CloseStore
    <2>1. PICK dropped \in SUBSET Waiting : Store!Close(dropped)
      BY <1>14 DEF CloseStore
    <2>2. dropped \in SUBSET Adds
      BY DEF Waiting
    <2>3. order' = order /\ Known
      BY <1>13, <2>1, <2>2
    <2> QED BY <1>2, <1>14, <2>3 DEF CloseStore, channels, adds
  <1>15. CASE End \/ Crash
    <2>1. /\ UNCHANGED <<sent, taken>>
          /\ busy' = [t \in IOThreads |-> Null]
      BY <1>15 DEF End, Crash, Down
    <2>2. order' = order /\ Known
      <3>1. CASE End
        BY <3>1 DEF End, store
      <3>2. CASE Crash
        <4>1. Store!Close({}) /\ {} \in SUBSET Adds
          BY <3>2 DEF Crash
        <4> QED BY <1>13, <4>1
      <3> QED BY <1>15, <3>1, <3>2
    <2> QED BY <2>1, <2>2, OrderStays
  <1> QED BY <1>3, <1>4, <1>5, <1>6, <1>7, <1>8, <1>9, <1>10, <1>11, <1>12,
             <1>14, <1>15 DEF Next

(* The place of an entry of the log is its place in the order.             *)
LEMMA Places ==
  ASSUME StoreInv, NEW m \in logged
  PROVE  /\ Place[m] \in 1 .. Len(order) /\ order[Place[m]] = m
         /\ m \in Adds
         /\ Place[m] <= committed
         /\ \A i \in 1 .. Len(order) : order[i] = m => i = Place[m]
PROOF
  <1>1. /\ order \in Seq(Adds) /\ Tried \subseteq Adds /\ committed \in Nat
        /\ m \in Tried
        /\ \A i, j \in 1 .. Len(order) : order[i] = order[j] => i = j
        /\ \A i \in committed + 1 .. Len(order) : order[i] \notin Tried
        /\ Queued(m)
    BY DEF StoreInv, StoreTypes, QueueInv, LogInv, Tried
  <1>2. Place[m] = CHOOSE i \in DOMAIN order : order[i] = m
    BY DEF Place
  <1>3. Place[m] \in DOMAIN order /\ order[Place[m]] = m
    BY <1>1, <1>2 DEF Queued
  <1>4. Place[m] \in 1 .. Len(order) /\ Len(order) \in Nat
    BY <1>1, <1>3
  <1>5. Place[m] <= committed
    <2> SUFFICES ASSUME ~(Place[m] <= committed) PROVE FALSE
      OBVIOUS
    <2>1. Place[m] \in committed + 1 .. Len(order)
      BY <1>1, <1>4
    <2> QED BY <1>1, <1>3, <2>1
  <1> QED BY <1>1, <1>3, <1>4, <1>5

(* The order is kept along with the rest of the invariant.                 *)
LEMMA OrderHolds == Spec => [](ServerInv /\ OrderInv)
PROOF
  <1>1. Init => OrderInv
    BY OrderStarts
  <1>2. ServerInv /\ OrderInv /\ [Next]_vars => OrderInv'
    BY OrderKept DEF ServerInv
  <1> QED BY <1>1, <1>2, ServerInvHolds, PTL DEF Spec

(* The entries of a connection are in the log in the order in which they   *)
(* were sent, whichever of them were dropped: an IO thread waits in put    *)
(* until the entry has its place in the queue (Storage.cpp:133) and reads  *)
(* the next frame after that.                                              *)
THEOREM LogFollowsConnections == Spec => []LoggedAsSent
PROOF
  <1>1. ServerInv /\ OrderInv => LoggedAsSent
    <2> SUFFICES ASSUME StoreInv, RequestInv, OrderInv, NEW c \in Connections,
                        NEW i \in DOMAIN sent[c], NEW j \in DOMAIN sent[c],
                        i < j, sent[c][i] \in logged, sent[c][j] \in logged
                 PROVE  Place[sent[c][i]] < Place[sent[c][j]]
      BY DEF ServerInv, LoggedAsSent
    <2>1. i \in 1 .. Len(sent[c]) /\ j \in 1 .. Len(sent[c])
      BY DEF RequestInv, RequestTypes
    <2>2. /\ Place[sent[c][i]] \in 1 .. Len(order)
          /\ order[Place[sent[c][i]]] = sent[c][i]
          /\ Place[sent[c][j]] \in 1 .. Len(order)
          /\ order[Place[sent[c][j]]] = sent[c][j]
      BY Places
    <2>3. PlacesFollow(c)
      BY DEF OrderInv
    <2> HIDE DEF Place
    <2> QED BY <2>1, <2>2, <2>3, Zenon DEF PlacesFollow
  <1> QED BY <1>1, OrderHolds, PTL

-----------------------------------------------------------------------------
(* The service *)

(* A response that a client has read is that of one add, and names no      *)
(* other.                                                                  *)
LEMMA ReplyNames ==
  ASSUME NEW n \in Adds, NEW m \in Adds
  PROVE  /\ Names(Reply(n), m) <=> m = n
         /\ Reply(n).errorCode = Error(n)
PROOF
  <1>1. /\ Reply(n).opCode = AddEntry /\ Reply(n).errorCode = Error(n)
        /\ Reply(n).ledgerId = RequestOf[n].ledgerId
        /\ Reply(n).entryId = RequestOf[n].entryId
    BY DEF Reply
  <1> QED BY <1>1, IdentifierAssumption DEF Names

(* What was told of an add is what its future holds.                       *)
LEMMA ToldIsOutcome ==
  ASSUME ReplyInv, NEW m \in Adds, NEW errorCodes, Told(m, errorCodes)
  PROVE  Complete(m) /\ Error(m) \in errorCodes
PROOF
  <1>1. PICK c \in Connections : \E i \in DOMAIN replies[c] :
          Names(replies[c][i], m) /\ replies[c][i].errorCode \in errorCodes
    BY DEF Told
  <1>2. PICK i \in DOMAIN replies[c] :
          Names(replies[c][i], m) /\ replies[c][i].errorCode \in errorCodes
    BY <1>1
  <1>3. PICK n \in settled : Complete(n) /\ replies[c][i] = Reply(n)
    BY ReadWasWritten
  <1>4. n \in Adds
    BY DEF ReplyInv, ReplyTypes
  <1> QED BY <1>2, <1>3, <1>4, ReplyNames

(* What the store knows was asked for.                                     *)
LEMMA KnownIsAsked ==
  ASSUME RequestInv, OrderInv, NEW m \in Adds, future[m] # "unused"
  PROVE  m \in Asked
PROOF
  <1> DEFINE c == ConnectionOf[m]
  <1>1. c \in Connections
    BY Threads
  <1>2. PICK i \in 1 .. taken[c] : sent[c][i] = m
    BY DEF OrderInv, WasRead
  <1>3. taken[c] \in 0 .. Len(sent[c]) /\ sent[c] \in Seq(Messages)
    BY <1>1 DEF RequestInv, RequestTypes, Link
  <1>4. i \in DOMAIN sent[c]
    BY <1>3
  <1> QED BY <1>2, <1>4 DEF Asked

(* A step that sends nothing, logs nothing and lets no client read.        *)
LEMMA ServiceRests ==
  ASSUME UNCHANGED <<sent, order, disk, replies>>
  PROVE  UNCHANGED Service!serviceVars
PROOF
  <1>1. Asked' = Asked /\ writeErrors' = writeErrors
    BY DEF Asked, disk
  <1>2. Place' = Place
    BY DEF Place, disk
  <1>3. Outcome' = Outcome
    BY DEF Outcome, Told
  <1> QED BY <1>1, <1>2, <1>3 DEF Service!serviceVars

(* An add that is sent is asked for.                                       *)
LEMMA SendAsks ==
  ASSUME RequestInv, NEW m \in Messages, Send(m)
  PROVE  \/ UNCHANGED Service!serviceVars
         \/ m \in Adds /\ Service!Ask(m)
PROOF
  <1> DEFINE c == ConnectionOf[m]
             n == Len(sent[c])
  <1>1. /\ \A i \in DOMAIN sent[c] : sent[c][i] # m
        /\ sent' = [sent EXCEPT ![c] = Append(sent[c], m)]
        /\ UNCHANGED <<order, logged, writeErrors, replies>>
    BY DEF Send, adds, store, disk
  <1>2. c \in Connections
    BY ServerAssumption
  <1>3. sent \in [Connections -> Seq(Messages)]
    BY DEF RequestInv, RequestTypes
  <1>4. /\ n \in Nat /\ DOMAIN sent[c] = 1 .. n /\ DOMAIN sent'[c] = 1 .. n + 1
        /\ \A i \in 1 .. n : sent'[c][i] = sent[c][i]
        /\ sent'[c][n + 1] = m
        /\ \A d \in Connections \ {c} : sent'[d] = sent[d]
    BY <1>1, <1>2, <1>3
  <1>5. Place' = Place /\ Outcome' = Outcome
    <2>1. Place' = Place
      BY <1>1 DEF Place
    <2>2. Outcome' = Outcome
      BY <1>1 DEF Outcome, Told
    <2> QED BY <2>1, <2>2
  <1> HIDE DEF n
  <1>6. ASSUME NEW x \in Adds, x # m
        PROVE  x \in Asked' <=> x \in Asked
    <2> DEFINE d == ConnectionOf[x]
    <2>1. d \in Connections
      BY Threads
    <2>2. /\ x \in Asked <=> \E i \in DOMAIN sent[d] : sent[d][i] = x
          /\ x \in Asked' <=> \E i \in DOMAIN sent'[d] : sent'[d][i] = x
      BY DEF Asked
    <2> HIDE DEF c, d
    <2>3. CASE d # c
      BY <1>4, <2>1, <2>2, <2>3
    <2>4. CASE d = c
      <3>1. \A i \in 1 .. n + 1 : i \in 1 .. n \/ i = n + 1
        BY <1>4
      <3>2. \A i \in 1 .. n : i \in 1 .. n + 1
        BY <1>4
      <3> QED BY <1>4, <1>6, <2>2, <2>4, <3>1, <3>2
    <2> QED BY <2>3, <2>4
  <1>7. Asked \subseteq Adds /\ Asked' \subseteq Adds
    BY DEF Asked
  <1>8. CASE m \notin Adds
    <2>1. Asked' = Asked
      BY <1>6, <1>7, <1>8
    <2> QED BY <1>1, <1>5, <2>1 DEF Service!serviceVars
  <1>9. CASE m \in Adds
    <2>1. m \notin Asked
      BY <1>1 DEF Asked
    <2>2. m \in Asked'
      <3>1. n + 1 \in DOMAIN sent'[c]
        BY <1>4
      <3> QED BY <1>4, <1>9, <3>1 DEF Asked
    <2>3. Asked' = Asked \cup {m}
      BY <1>6, <1>7, <1>9, <2>2
    <2> QED BY <1>1, <1>5, <1>9, <2>1, <2>3 DEF Service!Ask
  <1> QED BY <1>8, <1>9

(* The entry of a place keeps it.                                          *)
LEMMA PlacesStay ==
  ASSUME StoreInv, StoreInv', NEW m \in logged, m \in logged',
         Len(order') \in Nat, Len(order) <= Len(order'),
         \A i \in 1 .. Len(order) : order'[i] = order[i]
  PROVE  Place'[m] = Place[m]
PROOF
  <1>1. Place[m] \in 1 .. Len(order) /\ order[Place[m]] = m
    BY Places
  <1>2. /\ order' \in Seq(Adds)
        /\ \A i, j \in 1 .. Len(order') : order'[i] = order'[j] => i = j
    BY DEF StoreInv, StoreTypes, QueueInv
  <1>3. Place'[m] = CHOOSE i \in DOMAIN order' : order'[i] = m
    BY DEF Place
  <1> HIDE DEF Place
  <1>4. Place[m] \in 1 .. Len(order') /\ order'[Place[m]] = m
    <2>1. Len(order) \in Nat
      BY DEF StoreInv, StoreTypes
    <2> QED BY <1>1, <2>1
  <1> QED BY <1>2, <1>3, <1>4

(* A batch that the database logs goes behind all that it has, and so does *)
(* one whose Write fails, if it gets there.                                *)
LEMMA CommitLogs ==
  ASSUME ServerInv, OrderInv, Commit
  PROVE  \E group \in SUBSET Adds : Service!Log(group) \/ Service!Fail(group)
PROOF
  <1>0. StoreInv /\ RequestInv /\ ReplyInv
    BY DEF ServerInv
  <1>1. PICK k \in DOMAIN order :
          /\ Store!Commit(k)
          /\ \/ WriteSucceeds(Members(committed + 1, k))
             \/ WriteFails(Members(committed + 1, k))
    BY DEF Commit
  <1> DEFINE group == Members(committed + 1, k)
  <1>2. /\ committed = answered /\ k \in 1 .. Len(order)
        /\ order' = order /\ sent' = sent /\ replies' = replies
        /\ order \in Seq(Adds) /\ committed \in Nat /\ Tried \in SUBSET Adds
        /\ \A i \in answered + 1 .. Len(order) : future[order[i]] = "pending"
        /\ \A i \in committed + 1 .. Len(order) : order[i] \notin Tried
        /\ \A i, j \in 1 .. Len(order) : order[i] = order[j] => i = j
    BY <1>0, <1>1 DEF Commit, Store!Commit, channels, StoreInv, StoreTypes,
                      QueueInv, LogInv
  <1>3. ASSUME NEW m \in group
        PROVE  \E i \in 1 .. Len(order) : order[i] = m /\ i > committed
    <2>1. PICK i \in committed + 1 .. k : order[i] = m
      BY DEF Members
    <2>2. i \in 1 .. Len(order) /\ i > committed
      BY <1>2
    <2> QED BY <2>1, <2>2
  <1>4. \/ WriteSucceeds(group)
        \/ WriteFails(group)
    BY <1>1
  <1> HIDE DEF group
  <1>5. ASSUME NEW m \in group
        PROVE  /\ m \in Adds /\ m \in Asked /\ m \notin Tried
               /\ Outcome[m] = "nothing"
    <2>1. PICK i \in 1 .. Len(order) : order[i] = m /\ i > committed
      BY <1>3
    <2>2. m \in Adds /\ future[m] = "pending" /\ m \notin Tried
      <3>1. i \in answered + 1 .. Len(order) /\ i \in committed + 1 .. Len(order)
        BY <1>2, <2>1
      <3> QED BY <1>2, <2>1, <3>1
    <2>3. m \in Asked
      BY <1>0, <2>2, KnownIsAsked
    <2>4. ~Complete(m)
      BY <2>2 DEF Complete
    <2>5. \A codes : ~Told(m, codes)
      BY <1>0, <2>2, <2>4, ToldIsOutcome
    <2>6. Outcome[m] = "nothing"
      BY <2>2, <2>5 DEF Outcome
    <2> QED BY <2>2, <2>3, <2>6
  <1>6. DOMAIN Place = logged /\ DOMAIN Place' = logged'
    BY DEF Place
  <1>7. ASSUME NEW m \in logged
        PROVE  Place[m] <= committed /\ Place[m] \in Nat
    <2>1. Place[m] <= committed /\ Place[m] \in 1 .. Len(order)
      BY <1>0, Places
    <2>2. Len(order) \in Nat
      BY <1>2
    <2> QED BY <2>1, <2>2
  <1>8. ASSUME NEW m \in logged, logged \subseteq logged'
        PROVE  Place'[m] = Place[m]
    BY <1>2, <1>8 DEF Place
  <1>9. ASSUME NEW m \in group, m \in logged'
        PROVE  /\ Place'[m] \in 1 .. Len(order) /\ Place'[m] > committed
               /\ order[Place'[m]] = m
    <2>1. PICK i \in 1 .. Len(order) : order[i] = m /\ i > committed
      BY <1>3
    <2>2. Place'[m] = CHOOSE j \in DOMAIN order : order[j] = m
      BY <1>2, <1>9 DEF Place
    <2> HIDE DEF Place
    <2>3. DOMAIN order = 1 .. Len(order)
      BY <1>2
    <2>4. Place'[m] = i
      BY <1>2, <2>1, <2>2, <2>3
    <2> QED BY <2>1, <2>4
  <1>10. Asked' = Asked /\ Outcome' = Outcome
    BY <1>2 DEF Asked, Outcome, Told
  <1>11. logged' = logged => Place' = Place
    BY <1>2 DEF Place
  <1> HIDE DEF Place, Asked, Outcome
  <1>12. Service!Open(group)
    BY <1>5, <1>6 DEF Service!Open, Service!Tried, Service!InLog, Tried
  <1>13. ASSUME logged' = logged \cup group
         PROVE  Service!GoesBehind(group)
    <2>1. ASSUME NEW m \in group
          PROVE  /\ Place'[m] \in Nat
                 /\ \A n \in logged : Place[n] < Place'[m]
                 /\ \A n \in group : Place'[n] = Place'[m] => n = m
      <3>1. Place'[m] \in Nat /\ Place'[m] > committed /\ committed \in Nat
        BY <1>2, <1>9, <1>13
      <3>2. \A n \in logged : Place[n] < Place'[m]
        BY <1>7, <3>1
      <3>3. \A n \in group : order[Place'[n]] = n /\ order[Place'[m]] = m
        BY <1>9, <1>13
      <3> QED BY <3>1, <3>2, <3>3
    <2>2. \A m \in logged : Place'[m] = Place[m]
      BY <1>8, <1>13
    <2> QED BY <1>6, <1>13, <2>1, <2>2, Zenon DEF Service!GoesBehind
  <1>14. CASE WriteSucceeds(group)
    <2>1. logged' = logged \cup group /\ writeErrors' = writeErrors
      BY <1>14 DEF WriteSucceeds
    <2>2. Service!Log(group)
      BY <1>10, <1>12, <1>13, <2>1 DEF Service!Log
    <2> QED BY <1>5, <2>2
  <1>15. CASE WriteFails(group)
    <2>1. /\ logged' = logged \/ logged' = logged \cup group
          /\ writeErrors' = writeErrors \cup group
      BY <1>15 DEF WriteFails
    <2>2. Service!Fail(group)
      BY <1>10, <1>11, <1>12, <1>13, <2>1 DEF Service!Fail
    <2> QED BY <1>5, <2>2
  <1> QED BY <1>4, <1>14, <1>15

(* An add that takes a place in the queue leaves the log as it is.         *)
LEMMA PutLogsNothing ==
  ASSUME ServerInv, ServerInv', NEW t \in IOThreads, PutDone(t)
  PROVE  UNCHANGED Service!serviceVars
PROOF
  <1>0. StoreInv /\ StoreInv'
    BY DEF ServerInv
  <1>1. /\ order' = Append(order, busy[t])
        /\ logged' = logged /\ writeErrors' = writeErrors
        /\ sent' = sent /\ replies' = replies
    BY DEF PutDone, Store!Accept, channels, disk
  <1>2. order \in Seq(Adds)
    BY <1>0 DEF StoreInv, StoreTypes
  <1>3. /\ Len(order') \in Nat /\ Len(order) <= Len(order')
        /\ \A i \in 1 .. Len(order) : order'[i] = order[i]
    BY <1>1, <1>2
  <1>4. \A m \in logged : Place'[m] = Place[m]
    BY <1>0, <1>1, <1>3, PlacesStay
  <1>5. Place' = Place
    <2>1. /\ Place = [m \in logged |-> Place[m]]
          /\ Place' = [m \in logged |-> Place'[m]]
      BY <1>1 DEF Place
    <2> HIDE DEF Place
    <2> QED BY <1>4, <2>1
  <1>6. Asked' = Asked /\ Outcome' = Outcome
    BY <1>1 DEF Asked, Outcome, Told
  <1> QED BY <1>1, <1>5, <1>6 DEF Service!serviceVars

(* A response that a client reads acknowledges an entry that the database  *)
(* was asked to log, or refuses one that it was not, for the first time.   *)
LEMMA ReceiveTells ==
  ASSUME ServerInv, OrderInv, NEW c \in Connections, Receive(c)
  PROVE  \E n \in Adds : Service!Acknowledge(n) \/ Service!Refuse(n)
PROOF
  <1>0. StoreInv /\ RequestInv /\ ReplyInv
    BY DEF ServerInv
  <1>1. PICK written \in [Connections -> Seq(Responses)] :
          /\ WrittenInv(written)
          /\ \A d \in Connections : \A i \in DOMAIN replies[d] :
               /\ i \in 1 .. Len(written[d]) /\ i \in 1 .. Len(replies[d])
               /\ replies[d][i] = written[d][i]
               /\ \E m \in settled : Complete(m) /\ replies[d][i] = Reply(m)
    BY <1>0, ReadWasWritten
  <1> DEFINE k == Len(replies[c])
  <1>2. /\ k + 1 \in 1 .. Len(written[c])
        /\ ClientRead(Frame(toClient[c])) = written[c][k + 1]
    BY <1>0, <1>1, NextResponse
  <1>3. PICK n \in settled : Complete(n) /\ written[c][k + 1] = Reply(n)
    BY <1>1, <1>2 DEF WrittenInv
  <1>4. n \in Adds /\ replies \in [Connections -> Seq(Responses)]
    BY <1>0 DEF ReplyInv, ReplyTypes
  <1>5. /\ replies' = [replies EXCEPT ![c] = Append(replies[c], Reply(n))]
        /\ UNCHANGED <<sent, order, logged, writeErrors>>
    BY <1>2, <1>3 DEF Receive, store, disk
  <1>6. /\ k \in Nat /\ DOMAIN replies[c] = 1 .. k
        /\ DOMAIN replies'[c] = 1 .. k + 1
        /\ \A i \in 1 .. k : replies'[c][i] = replies[c][i]
        /\ replies'[c][k + 1] = Reply(n)
        /\ \A d \in Connections \ {c} : replies'[d] = replies[d]
    BY <1>4, <1>5
  <1> HIDE DEF k
  <1>7. ASSUME NEW codes
        PROVE  ~Told(n, codes)
    <2> SUFFICES ASSUME NEW d \in Connections, NEW i \in DOMAIN replies[d],
                        Names(replies[d][i], n)
                 PROVE  FALSE
      BY DEF Told
    <2>1. PICK m \in settled : replies[d][i] = Reply(m)
      BY <1>1
    <2>2. m \in Adds
      BY <1>0 DEF ReplyInv, ReplyTypes
    <2>3. n = m
      BY <1>4, <2>1, <2>2, ReplyNames
    <2>4. i \in 1 .. Len(written[d]) /\ written[d][i] = written[c][k + 1]
      BY <1>1, <1>3, <2>1, <2>3
    <2>5. d = c /\ i = k + 1
      BY <1>1, <1>2, <2>4 DEF WrittenInv
    <2> QED BY <1>6, <2>5
  <1>8. ASSUME NEW m \in Adds, NEW codes
        PROVE  Told(m, codes)' <=> Told(m, codes) \/ (m = n /\ Error(n) \in codes)
    <2>1. Told(m, codes)' <=>
            \E d \in Connections : \E i \in DOMAIN replies'[d] :
              Names(replies'[d][i], m) /\ replies'[d][i].errorCode \in codes
      BY DEF Told, Names
    <2>2. Names(Reply(n), m) <=> m = n
      BY <1>4, ReplyNames
    <2>3. Reply(n).errorCode = Error(n)
      BY <1>4, ReplyNames
    <2>4. ASSUME m = n, Error(n) \in codes
          PROVE  Told(m, codes)'
      <3>1. k + 1 \in DOMAIN replies'[c]
        BY <1>6
      <3> QED BY <1>6, <2>1, <2>2, <2>3, <2>4, <3>1
    <2>5. ASSUME Told(m, codes)
          PROVE  Told(m, codes)'
      <3>1. PICK d \in Connections : \E i \in DOMAIN replies[d] :
              Names(replies[d][i], m) /\ replies[d][i].errorCode \in codes
        BY <2>5 DEF Told
      <3>2. PICK i \in DOMAIN replies[d] :
              Names(replies[d][i], m) /\ replies[d][i].errorCode \in codes
        BY <3>1
      <3>3. i \in DOMAIN replies'[d] /\ replies'[d][i] = replies[d][i]
        BY <1>6
      <3> QED BY <2>1, <3>2, <3>3
    <2>6. ASSUME Told(m, codes)', ~Told(m, codes)
          PROVE  m = n /\ Error(n) \in codes
      <3>1. PICK d \in Connections : \E i \in DOMAIN replies'[d] :
              Names(replies'[d][i], m) /\ replies'[d][i].errorCode \in codes
        BY <2>1, <2>6
      <3>2. PICK i \in DOMAIN replies'[d] :
              Names(replies'[d][i], m) /\ replies'[d][i].errorCode \in codes
        BY <3>1
      <3>3. i \notin DOMAIN replies[d] \/ replies'[d][i] # replies[d][i]
        BY <2>6, <3>2 DEF Told
      <3>4. d = c /\ i = k + 1
        BY <1>6, <3>3
      <3> QED BY <1>6, <2>2, <2>3, <3>2, <3>4
    <2> QED BY <2>4, <2>5, <2>6
  <1>9. Asked' = Asked /\ Place' = Place
    BY <1>5 DEF Asked, Place
  <1>10. n \in Asked
    <2>1. future[n] # "unused"
      BY <1>3 DEF Complete
    <2> QED BY <1>0, <1>4, <2>1, KnownIsAsked
  <1>11. /\ future[n] = "value" => n \in Tried
         /\ future[n] = "broken" => n \notin Tried
    BY <1>0, <1>4 DEF StoreInv, OutcomeInv
  <1>12. IOError # OK
    BY DEF IOError, OK
  <1>13. Service!Tried(n) <=> n \in Tried
    BY DEF Place, Tried, Service!Tried, Service!InLog
  <1> DEFINE new == IF Error(n) = OK THEN "ok" ELSE "error"
  <1>14. Error(n) \in {OK, IOError}
    BY DEF Error
  <1>15. Outcome' = [Outcome EXCEPT ![n] = new] /\ Outcome[n] = "nothing"
    <2>1. Outcome[n] = "nothing"
      BY <1>4, <1>7 DEF Outcome
    <2>2. ASSUME NEW m \in Adds
          PROVE  Outcome'[m] = IF m = n THEN new ELSE Outcome[m]
      <3>1. /\ Outcome[m] = IF Told(m, {OK}) THEN "ok"
                            ELSE IF Told(m, {IOError}) THEN "error" ELSE "nothing"
            /\ Outcome'[m] = IF Told(m, {OK})' THEN "ok"
                             ELSE IF Told(m, {IOError})' THEN "error"
                             ELSE "nothing"
        BY DEF Outcome
      <3>2. /\ Told(m, {OK})' <=> Told(m, {OK}) \/ (m = n /\ Error(n) \in {OK})
            /\ Told(m, {IOError})' <=>
                 Told(m, {IOError}) \/ (m = n /\ Error(n) \in {IOError})
        BY <1>8
      <3>3. ~Told(n, {OK}) /\ ~Told(n, {IOError})
        BY <1>7
      <3> HIDE DEF Outcome
      <3>4. CASE m = n
        BY <1>12, <1>14, <3>1, <3>2, <3>3, <3>4
      <3>5. CASE m # n
        BY <3>1, <3>2, <3>5
      <3> QED BY <3>4, <3>5
    <2>3. /\ Outcome = [m \in Adds |-> Outcome[m]]
          /\ Outcome' = [m \in Adds |-> Outcome'[m]]
      BY DEF Outcome
    <2> HIDE DEF Outcome, new
    <2> QED BY <1>4, <2>1, <2>2, <2>3
  <1> HIDE DEF Asked, Place, Outcome
  <1>16. CASE Error(n) = OK
    <2>1. n \in Tried
      BY <1>3, <1>11, <1>12, <1>16 DEF Complete, Error
    <2>2. Service!Acknowledge(n)
      BY <1>5, <1>9, <1>10, <1>13, <1>15, <1>16, <2>1 DEF Service!Acknowledge
    <2> QED BY <1>4, <2>2
  <1>17. CASE Error(n) # OK
    <2>1. n \notin Tried
      BY <1>3, <1>11, <1>17 DEF Complete, Error
    <2>2. Service!Refuse(n)
      BY <1>5, <1>9, <1>10, <1>13, <1>15, <1>17, <2>1 DEF Service!Refuse
    <2> QED BY <1>4, <2>2
  <1> QED BY <1>16, <1>17

(* Every step of the server is a step of the service, or none.             *)
LEMMA StepsServe ==
  ASSUME ServerInv, ServerInv', OrderInv, [Next]_vars
  PROVE  [Service!Next]_(Service!serviceVars)
PROOF
  <1>1. ASSUME NEW c \in Connections,
               \/ Connect(c) \/ Leave(c) \/ ReadAdd(c) \/ ReadOther(c)
               \/ RejectFrame(c) \/ DeletePipeline(c)
        PROVE  UNCHANGED <<sent, order, disk, replies>>
    BY <1>1 DEF Connect, Leave, ReadAdd, ReadOther, RejectFrame,
                DeletePipeline, Store!Call, store
  <1>2. ASSUME NEW m \in Adds, Continue(m) \/ ContinueDestroyed(m)
        PROVE  UNCHANGED <<sent, order, disk, replies>>
    BY <1>2 DEF Continue, ContinueDestroyed, store
  <1>3. ASSUME \/ Answer \/ GiveUp \/ Stop \/ CloseStore \/ End \/ Crash
               \/ Restart \/ UNCHANGED vars
        PROVE  UNCHANGED <<sent, order, disk, replies>>
    BY <1>3 DEF Answer, Store!Answer, GiveUp, Store!GiveUp, Stop, CloseStore,
                Store!Close, End, Crash, Down, Restart, vars, channels, store
  <1>4. ASSUME NEW c \in Connections, Receive(c)
        PROVE  Service!Next
    BY <1>4, ReceiveTells DEF Service!Next
  <1>5. ASSUME NEW m \in Messages, Send(m)
        PROVE  [Service!Next]_(Service!serviceVars)
    BY <1>5, SendAsks DEF Service!Next, ServerInv
  <1>6. ASSUME NEW t \in IOThreads, PutDone(t)
        PROVE  UNCHANGED Service!serviceVars
    BY <1>6, PutLogsNothing
  <1>7. CASE Commit
    BY <1>7, CommitLogs DEF Service!Next
  <1> QED BY <1>1, <1>2, <1>3, <1>4, <1>5, <1>6, <1>7, ServiceRests DEF Next

(* The server implements the service, whatever the connections, the        *)
(* threads and the requests, and through every crash and restart of the    *)
(* process.  What the service says of an acknowledged entry leaves out     *)
(* those whose Write returned an error (Storage.cpp:192).                  *)
THEOREM BookieServesAdds == Spec => ServesAdds
PROOF
  <1>1. Init => Service!Init
    <2> SUFFICES ASSUME Init PROVE Service!Init
      OBVIOUS
    <2>1. /\ sent = [c \in Connections |-> <<>>]
          /\ logged = {} /\ writeErrors = {}
          /\ replies = [c \in Connections |-> <<>>]
      BY DEF Init
    <2>2. \A i \in DOMAIN <<>> : FALSE
      OBVIOUS
    <2>3. Asked = {}
      BY <2>1, <2>2, Threads DEF Asked
    <2>4. Place = [m \in {} |-> 0]
      BY <2>1 DEF Place
    <2>5. \A m \in Adds : \A codes : ~Told(m, codes)
      BY <2>1, <2>2 DEF Told
    <2>6. Outcome = [m \in Adds |-> "nothing"]
      BY <2>5 DEF Outcome
    <2> QED BY <2>1, <2>3, <2>4, <2>6 DEF Service!Init
  <1>2. /\ ServerInv /\ OrderInv /\ (ServerInv /\ OrderInv)' /\ [Next]_vars
        => [Service!Next]_(Service!serviceVars)
    BY StepsServe
  <1> QED BY <1>1, <1>2, OrderHolds, PTL DEF Spec, ServesAdds, Service!Spec
=============================================================================
