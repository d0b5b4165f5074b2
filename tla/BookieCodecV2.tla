--------------------------- MODULE BookieCodecV2 ---------------------------
(***************************************************************************)
(* BookieCodecV2.cpp and the frames around it, byte by byte: four bytes    *)
(* that announce the length of a frame, then the frame.  An int64_t is the *)
(* sequence of its eight bytes as writeBE puts them; an int8_t is kept as  *)
(* its byte.  A byte of a buffer that nobody writes is Unwritten.          *)
(***************************************************************************)
EXTENDS Naturals, Sequences

CONSTANT Unwritten

(* BookieOperation, BookieError and BookieConstant. *)
AddEntry == 1
ReadEntry == 2
Auth == 3
OK == 0
IOError == 101
MasterKeyLength == 20
MaxFrameSize == 5242880

(* The bytes of the fields, and the requests a client can put in a frame:  *)
(* adds, and reads.  The length, the header, the key and the identifiers   *)
(* of an add leave this much for its data; of the flags fromInt reads one  *)
(* byte.                                                                   *)
Octets == 0 .. 255
Int64s == [1 .. 8 -> Octets]

ClientRequests ==
  {request \in [protocolVersion : Octets, opCode : {AddEntry, ReadEntry},
                flags : Octets, ledgerId : Int64s, entryId : Int64s,
                data : Seq(Octets)] :
     /\ Len(request.data) + 44 <= MaxFrameSize
     /\ request.opCode = ReadEntry => request.data = <<>>}

Blank(n) == [i \in 1 .. n |-> Unwritten]

Int32(n) ==
  <<(n \div 16777216) % 256, (n \div 65536) % 256, (n \div 256) % 256, n % 256>>

-----------------------------------------------------------------------------
(* PacketHeader: toInt has sixteen bits of flags, fromInt reads eight. *)

ToInt(version, opCode, flags) ==
  <<version, opCode, (flags \div 256) % 256, flags % 256>>

FromInt(bytes) ==
  [version |-> bytes[1], opCode |-> bytes[2], flags |-> bytes[4]]

IsFencing(flags) == flags % 2 = 1

-----------------------------------------------------------------------------
(* LengthFieldBasedFrameDecoder(4, MaxFrameSize); no frame of the model is *)
(* near the maximum.                                                       *)

Announced(stream) ==
  16777216 * stream[1] + 65536 * stream[2] + 256 * stream[3] + stream[4]

FrameReady(stream) == Len(stream) >= 4 /\ Len(stream) >= 4 + Announced(stream)

Frame(stream) == SubSeq(stream, 5, 4 + Announced(stream))

AfterFrame(stream) == SubSeq(stream, 5 + Announced(stream), Len(stream))

Int64At(bytes, i) == SubSeq(bytes, i, i + 7)

-----------------------------------------------------------------------------
(* The server's side. *)

MutantShortMasterKey(opCode, flags) == IF opCode = AddEntry THEN 16 ELSE 0

(* What is skipped between the header and the ledger of an add. *)
MasterKey(opCode, flags) == IF opCode = AddEntry THEN MasterKeyLength ELSE 0

(* What has to follow the header. *)
Expected(opCode, flags) ==
  CASE opCode = AddEntry -> MasterKeyLength + 16
    [] opCode = ReadEntry -> 16 + IF IsFencing(flags) THEN MasterKeyLength ELSE 0
    [] OTHER -> 0

(* read closes the connection for any other frame. *)
WellFormed(frame) ==
  /\ Len(frame) >= 4
  /\ LET hdr == FromInt(frame)
     IN  Len(frame) - 4 >= Expected(hdr.opCode, hdr.flags)

(* The fields of a Request that read leaves alone have no value. *)
ServerRead(frame) ==
  LET hdr   == FromInt(frame)
      ids   == 5 + MasterKey(hdr.opCode, hdr.flags)
      named == hdr.opCode \in {AddEntry, ReadEntry}
  IN  [protocolVersion |-> hdr.version,
       opCode   |-> hdr.opCode,
       flags    |-> hdr.flags,
       ledgerId |-> IF named THEN Int64At(frame, ids) ELSE Blank(8),
       entryId  |-> IF named THEN Int64At(frame, ids + 8) ELSE Blank(8),
       data     |-> IF hdr.opCode = AddEntry
                      THEN SubSeq(frame, ids + 16, Len(frame)) ELSE <<>>]

(* A buffer for the length field and a frame of 28 bytes, of which the     *)
(* header, the error code and the two identifiers are written.             *)
ServerWrite(response) ==
  Int32(28)
    \o ToInt(response.protocolVersion, response.opCode, 0)
    \o Int32(response.errorCode)
    \o response.ledgerId
    \o response.entryId
    \o Blank(4)

-----------------------------------------------------------------------------
(* The client's side, which only adds; ReadFrame follows BookieProtocol.h. *)

ClientWrite(request) ==
  Int32(4 + MasterKeyLength + 16 + Len(request.data))
    \o ToInt(request.protocolVersion, request.opCode, request.flags)
    \o Blank(MasterKeyLength)
    \o request.ledgerId
    \o request.entryId
    \o request.data

ReadFrame(request) ==
  LET key == IF IsFencing(request.flags) THEN MasterKeyLength ELSE 0
  IN  Int32(20 + key)
        \o ToInt(request.protocolVersion, request.opCode, request.flags)
        \o request.ledgerId
        \o request.entryId
        \o Blank(key)

(* errorCode is an int8_t again. *)
ClientRead(frame) ==
  LET hdr == FromInt(frame)
  IN  [protocolVersion |-> hdr.version,
       opCode    |-> hdr.opCode,
       errorCode |-> frame[8],
       ledgerId  |-> Int64At(frame, 9),
       entryId   |-> Int64At(frame, 17)]
=============================================================================
