------------------------- MODULE Transfer_proofs -------------------------
(***************************************************************************)
(* Proofs about the file layer under a transfer, for every size of the     *)
(* buffers and blocks, every size of files and chunks, and every trouble.  *)
(*                                                                         *)
(* The invariant ShapeInv says where the current bytes are: a file that is *)
(* read has them in the buffer that is not the current one, a file that is *)
(* written in the current one, and the packet under way has the other.  It *)
(* is inductive only together with the position of the caller, which a     *)
(* seek must not take below 0, and with what the call under way and the    *)
(* stage of the transfer say of each other.                                *)
(***************************************************************************)
EXTENDS Transfer, SequenceTheorems, TLAPS

(* Bytes that a packet which has returned brought along, and the position of
   the caller in the file that follows from it. *)
Brought == IF Returned /\ Res1 > 0 THEN Res1 ELSE 0
Position == filePos - Brought - af_BytesLeft + af_SeekOffset

-----------------------------------------------------------------------------
(* The shape of the state *)

FileTypes ==
  /\ disk \in Seq(Int) /\ filePos \in 0..Len(disk)
  /\ af_ReadMode \in BOOLEAN /\ trouble \in Troubles \cup {{}}
BufferTypes ==
  /\ mem \in [Addresses -> Int]
  /\ af_Offset \in Nat /\ af_BytesLeft \in Nat
  /\ af_CurrentBuf \in {0, 1} /\ af_SeekOffset \in 0..(BlockSize - 1)
PacketTypes ==
  af_Packet \in [at : {"none", "handler", "port"}, arg2 : {0, 1}, res1 : -1..BufferSize]
CallTypes ==
  call \in Calls /\ numBytes \in Int /\ buffer \in Seq(Int) /\ result \in Int
TransferTypes ==
  /\ stage \in {"closed", "open", "read", "write", "closing"}
  /\ start \in Nat /\ sent \in Seq(Int) /\ received \in Nat
  /\ reply \in {"pending", "226", "426", "none"} /\ abor \in BOOLEAN
Types == FileTypes /\ BufferTypes /\ PacketTypes /\ CallTypes /\ TransferTypes

(* A file that is read: the current bytes are in the buffer that is not the
   current one, the packet has the other; a seek that still skips bytes has none. *)
ReadShape ==
  /\ Buffers(1 - af_CurrentBuf) <= af_Offset
  /\ af_Offset + af_BytesLeft <= Buffers(1 - af_CurrentBuf) + BufferSize
  /\ af_SeekOffset # 0 => af_BytesLeft = 0 /\ af_Offset = Buffers(1 - af_CurrentBuf)
  /\ ~Returned => af_Packet.arg2 = af_CurrentBuf
  /\ Position >= 0

(* A file that is written. *)
WriteShape ==
  /\ Buffers(af_CurrentBuf) <= af_Offset
  /\ af_Offset + af_BytesLeft = Buffers(af_CurrentBuf) + BufferSize
  /\ af_SeekOffset = 0
  /\ ~Returned => af_Packet.arg2 = 1 - af_CurrentBuf
  /\ filePos = Len(disk)

Shape == IF af_ReadMode THEN ReadShape ELSE WriteShape

(* What the call under way and the stage of the transfer say of each other. *)
ReadCall ==
  call = "ReadAsync" =>
    /\ stage = "read" /\ af_ReadMode /\ numBytes > 0
    /\ af_SeekOffset # 0 => buffer = <<>>
    /\ Len(buffer) <= Position
WriteCall ==
  call = "WriteAsync" => stage = "write" /\ ~af_ReadMode /\ numBytes = Len(buffer)
SeekCall ==
  call \in Seeks =>
    /\ stage = "open" /\ af_ReadMode /\ af_SeekOffset = 0
    /\ IF call = "SeekAsync_MODE_START" THEN numBytes >= 0 ELSE Position + numBytes >= 0
CloseCall == call = "CloseAsync" => stage = "closing"
CallOfStage ==
  /\ stage = "closed" => call = "none"
  /\ stage = "read" => af_ReadMode
  /\ stage = "write" => ~af_ReadMode
ChunkRead ==
  stage = "read" /\ call = "none" /\ result > 0 =>
    af_SeekOffset = 0 /\ result <= Position /\ result = Len(buffer)

Calling ==
  ReadCall /\ WriteCall /\ SeekCall /\ CloseCall /\ CallOfStage /\ ChunkRead
ShapeInv == Types /\ Shape /\ Calling

-----------------------------------------------------------------------------
(* The helpers *)

LEMMA Sizes ==
  BlockSize \in Nat \ {0} /\ BufferSize \in Nat \ {0} /\ BufferSize % BlockSize = 0
BY AsyncAssumption DEF AsyncAssumption

LEMMA Rounding ==
  ASSUME NEW t \in Nat, NEW b \in Nat \ {0}
  PROVE  (t \div b) * b \in Nat /\ t - (t \div b) * b \in 0..(b - 1)
OBVIOUS

LEMMA Divides ==
  ASSUME NEW n \in Nat \ {0}, NEW b \in Nat \ {0}, n % b = 0
  PROVE  b <= n
OBVIOUS

LEMMA BlockInBuffer == BlockSize <= BufferSize
BY Sizes, Divides

LEMMA RoundTargetProperties ==
  ASSUME NEW t \in Nat
  PROVE  RoundTarget(t) \in Nat /\ t - RoundTarget(t) \in 0..(BlockSize - 1)
BY Sizes, Rounding DEF RoundTarget

LEMMA BytesProperties ==
  ASSUME mem \in [Addresses -> Int], NEW at \in Nat, NEW n \in Nat,
         at + n <= 2 * BufferSize
  PROVE  /\ Bytes(at, n) \in Seq(Int) /\ Len(Bytes(at, n)) = n
         /\ \A i \in 1..n : Bytes(at, n)[i] = mem[at + i - 1]
<1>1. \A i \in 1..n : at + i - 1 \in Addresses
  BY Sizes DEF Addresses
<1>2. \A i \in 1..n : mem[at + i - 1] \in Int
  BY <1>1
<1> QED  BY <1>2 DEF Bytes

LEMMA FilledProperties ==
  ASSUME mem \in [Addresses -> Int], NEW at \in Nat, NEW s \in Seq(Int)
  PROVE  /\ Filled(at, s) \in [Addresses -> Int]
         /\ \A a \in Addresses :
              Filled(at, s)[a] = IF at <= a /\ a < at + Len(s) THEN s[a - at + 1] ELSE mem[a]
<1>1. \A a \in Addresses : at <= a /\ a < at + Len(s) => s[a - at + 1] \in Int
  BY DEF Addresses
<1> QED  BY <1>1 DEF Filled

(* What is written at the end of the file is put behind it. *)
LEMMA WrittenProperties ==
  ASSUME disk \in Seq(Int), filePos = Len(disk), NEW s \in Seq(Int)
  PROVE  /\ Written(s) \in Seq(Int) /\ Len(Written(s)) = Len(disk) + Len(s)
         /\ \A i \in 1..(Len(disk) + Len(s)) :
              Written(s)[i] = IF i <= Len(disk) THEN disk[i] ELSE s[i - Len(disk)]
<1>1. SubSeq(disk, 1, filePos) = disk
  BY SubSeqFull
<1>2. SubSeq(disk, filePos + Len(s) + 1, Len(disk)) = <<>>
  OBVIOUS
<1>3. /\ disk \o s \in Seq(Int) /\ Len(disk \o s) = Len(disk) + Len(s)
      /\ \A i \in 1..(Len(disk) + Len(s)) :
           (disk \o s)[i] = IF i <= Len(disk) THEN disk[i] ELSE s[i - Len(disk)]
  BY ConcatProperties, ZenonT(30)
<1>4. (disk \o s) \o <<>> = disk \o s
  BY <1>3, ConcatEmptySeq, ZenonT(30)
<1> QED  BY <1>1, <1>2, <1>3, <1>4 DEF Written

LEMMA BetweenProperties ==
  ASSUME NEW a \in Nat, NEW b \in Nat, a <= b
  PROVE  /\ Between(a, b) \in Seq(Int) /\ Len(Between(a, b)) = b - a
         /\ \A i \in 1..(b - a) : Between(a, b)[i] = a + i - 1
BY DEF Between

USE DEF Returned, Res1, Failed

(* The packet: what each way to change it leaves of it. *)
Packets == [at : {"none", "handler", "port"}, arg2 : {0, 1}, res1 : -1..BufferSize]

LEMMA PacketFields ==
  ASSUME NEW p \in Packets
  PROVE  /\ p.at \in {"none", "handler", "port"} /\ p.arg2 \in {0, 1}
         /\ p.res1 \in Int /\ p.res1 >= -1 /\ p.res1 <= BufferSize
BY Sizes DEF Packets

LEMMA SentPacket ==
  ASSUME af_Packet \in Packets, NEW b \in {0, 1}
  PROVE  /\ Sent(b) \in Packets /\ Sent(b).at = "handler" /\ Sent(b).arg2 = b
         /\ Sent(b).res1 = Res1
BY DEF Packets, Sent

LEMMA MarkedPacket ==
  ASSUME af_Packet \in Packets, NEW a \in {"none", "handler", "port"}
  PROVE  LET p == [af_Packet EXCEPT !.at = a]
         IN  p \in Packets /\ p.at = a /\ p.arg2 = af_Packet.arg2 /\ p.res1 = Res1
BY DEF Packets

LEMMA AnsweredPacket ==
  ASSUME af_Packet \in Packets, NEW a \in {"none", "handler", "port"},
         NEW r \in -1..BufferSize
  PROVE  LET p == [af_Packet EXCEPT !.at = a, !.res1 = r]
         IN  p \in Packets /\ p.at = a /\ p.arg2 = af_Packet.arg2 /\ p.res1 = r
BY DEF Packets

LEMMA PositionIsInt ==
  ASSUME Types
  PROVE  /\ Position \in Int /\ Brought \in 0..BufferSize /\ Res1 \in -1..BufferSize
         /\ Position = filePos - Brought - af_BytesLeft + af_SeekOffset
<1>1. af_Packet.res1 \in -1..BufferSize
  BY DEF Types, PacketTypes
<1>2. Brought \in 0..BufferSize
  BY <1>1, Sizes DEF Brought
<1>3. filePos \in Int /\ af_BytesLeft \in Int /\ af_SeekOffset \in Int
  BY DEF Types, FileTypes, BufferTypes
<1> QED  BY <1>1, <1>2, <1>3, Sizes DEF Position

LEMMA Numbers ==
  ASSUME Types
  PROVE  /\ filePos \in Nat /\ Len(disk) \in Nat /\ filePos <= Len(disk)
         /\ af_Offset \in Nat /\ af_BytesLeft \in Nat /\ af_SeekOffset \in Nat
         /\ af_CurrentBuf \in {0, 1} /\ Res1 \in Int /\ numBytes \in Int
BY PositionIsInt, Sizes DEF Types, FileTypes, BufferTypes, CallTypes

-----------------------------------------------------------------------------
(* The shape is an invariant *)

LEMMA BuffersAt ==
  /\ Buffers(0) = 0 /\ Buffers(1) = BufferSize
  /\ \A b \in {0, 1} : Buffers(b) \in Nat /\ Buffers(b) + BufferSize <= 2 * BufferSize
BY Sizes DEF Buffers

LEMMA ShapeInit == Init => ShapeInv
<1> SUFFICES ASSUME Init PROVE ShapeInv
  OBVIOUS
<1>0. <<>> \in Seq(Int) /\ Len(<<>>) = 0
  OBVIOUS
<1>1. FileTypes
  <2>1. disk = <<>> /\ filePos = 0 /\ af_ReadMode = FALSE /\ trouble = {}
    BY DEF Init
  <2>2. disk \in Seq(Int) /\ filePos \in 0..Len(disk)
    BY <1>0, <2>1
  <2> QED  BY <2>1, <2>2 DEF FileTypes
<1>2. CallTypes
  <2>1. call = "none" /\ numBytes = 0 /\ buffer = <<>> /\ result = 0
    BY DEF Init
  <2> QED  BY <1>0, <2>1 DEF CallTypes, Calls
<1>3. TransferTypes
  <2>1. /\ stage = "closed" /\ start = 0 /\ sent = <<>> /\ received = 0
        /\ reply = "none" /\ abor = FALSE
    BY DEF Init
  <2> QED  BY <1>0, <2>1 DEF TransferTypes
<1>4. /\ mem = [a \in Addresses |-> NoByte]
      /\ af_Offset = 0 /\ af_BytesLeft = BufferSize /\ af_CurrentBuf = 0
      /\ af_SeekOffset = 0
  BY DEF Init
<1>5. BufferTypes
  BY <1>4, Sizes DEF BufferTypes, NoByte
<1>6. af_Packet = [at |-> "none", arg2 |-> 0, res1 |-> 0] /\ 0 \in -1..BufferSize
  BY Sizes DEF Init
<1>7. PacketTypes
  BY <1>6 DEF PacketTypes
<1>8. WriteShape /\ ~af_ReadMode
  BY <1>0, <1>4, <1>6, Sizes, BuffersAt DEF Init, WriteShape
<1>9. Calling
  BY DEF Init, Calling, ReadCall, WriteCall, SeekCall, CloseCall, CallOfStage, ChunkRead, Seeks
<1> QED  BY <1>1, <1>2, <1>3, <1>5, <1>7, <1>8, <1>9 DEF ShapeInv, Types, Shape

(* A step of the file system, or its packet sent again: the call goes on. *)
LEMMA CallingGoesOn ==
  ASSUME ShapeInv, UNCHANGED <<call, numBytes, buffer, result, stage>>,
         UNCHANGED <<af_SeekOffset, af_ReadMode>>, af_ReadMode => Position' = Position
  PROVE  Calling'
<1> USE DEF ShapeInv, Calling
<1>1. ReadCall' /\ WriteCall'
  BY DEF ReadCall, WriteCall
<1>2. SeekCall' /\ CloseCall'
  BY DEF SeekCall, CloseCall, Seeks
<1>3. CallOfStage' /\ ChunkRead'
  BY DEF CallOfStage, ChunkRead
<1> QED  BY <1>1, <1>2, <1>3

LEMMA ShapeHandlerReads ==
  ASSUME ShapeInv, HandlerReads, TransferSame
  PROVE  ShapeInv'
<1> DEFINE n == Smaller(BufferSize, Len(disk) - filePos)
           s == SubSeq(disk, filePos + 1, filePos + n)
<1>0. Types /\ ReadShape /\ af_ReadMode
  BY DEF ShapeInv, Shape, HandlerReads
<1>1. n \in 0..BufferSize /\ filePos + n \in 0..Len(disk) /\ n \in -1..BufferSize
  BY <1>0, Sizes DEF Types, FileTypes, Smaller
<1>2. s \in Seq(Int)
  BY <1>0, <1>1 DEF Types, FileTypes
<1>3. /\ mem' = Filled(Buffers(af_Packet.arg2), s) /\ filePos' = filePos + n
      /\ af_Packet' = [af_Packet EXCEPT !.at = "port", !.res1 = n]
      /\ af_Packet.at = "handler"
      /\ UNCHANGED <<disk, af_Offset, af_BytesLeft, af_CurrentBuf, af_SeekOffset>>
      /\ UNCHANGED <<af_ReadMode, trouble, call, numBytes, buffer, result>>
      /\ UNCHANGED <<stage, start, sent, received, reply, abor>>
  BY DEF HandlerReads, TransferSame, transferVars, opened
<1> HIDE DEF n, s
<1>4. /\ af_Packet' \in Packets /\ af_Packet'.at = "port" /\ af_Packet'.res1 = n
      /\ af_Packet'.arg2 = af_Packet.arg2
  BY <1>0, <1>1, <1>3, AnsweredPacket DEF Types, PacketTypes, Packets
<1>5. mem' \in [Addresses -> Int]
  <2>1. af_Packet.arg2 \in {0, 1}
    BY <1>0, PacketFields DEF Types, PacketTypes, Packets
  <2> QED  BY <1>0, <1>2, <1>3, <2>1, FilledProperties, BuffersAt DEF Types, BufferTypes
<1>6. Types'
  BY <1>0, <1>1, <1>3, <1>4, <1>5
  DEF Types, FileTypes, BufferTypes, PacketTypes, Packets, CallTypes, TransferTypes
<1>7. Position' = Position
  BY <1>0, <1>1, <1>3, <1>4 DEF Types, FileTypes, BufferTypes, Position, Brought
<1>8. ReadShape'
  BY <1>0, <1>3, <1>4, <1>7 DEF ReadShape
<1>9. Calling'
  BY <1>3, <1>7, CallingGoesOn
<1> QED  BY <1>0, <1>3, <1>6, <1>8, <1>9 DEF ShapeInv, Shape

(* A call returns to a stage that does not look at what it has read. *)
LEMMA CallingReturns ==
  ASSUME ShapeInv, call' = "none", UNCHANGED <<stage, af_ReadMode>>,
         stage \notin {"closed", "read"}
  PROVE  Calling'
BY DEF ShapeInv, Calling, ReadCall, WriteCall, SeekCall, CloseCall, CallOfStage, ChunkRead, Seeks

(* Everything but the fields named in a step stays as it is. *)
LEMMA TransferTypesStay ==
  ASSUME Types, TransferSame
  PROVE  TransferTypes' /\ UNCHANGED <<stage, start, sent, received, reply, abor>>
BY DEF Types, TransferTypes, TransferSame, transferVars

LEMMA ShapeHandlerWrites ==
  ASSUME ShapeInv, HandlerWrites, TransferSame
  PROVE  ShapeInv'
<1> DEFINE s == Bytes(Buffers(af_Packet.arg2), BufferSize)
<1>0. Types /\ WriteShape /\ ~af_ReadMode
  BY DEF ShapeInv, Shape, HandlerWrites
<1>1. af_Packet.arg2 \in {0, 1} /\ BufferSize \in -1..BufferSize
  BY <1>0, PacketFields, Sizes DEF Types, PacketTypes, Packets
<1>2. s \in Seq(Int) /\ Len(s) = BufferSize
  BY <1>0, <1>1, BytesProperties, BuffersAt, Sizes DEF Types, BufferTypes
<1>3. /\ disk' = Written(s) /\ filePos' = filePos + BufferSize
      /\ af_Packet' = [af_Packet EXCEPT !.at = "port", !.res1 = BufferSize]
      /\ UNCHANGED <<mem, af_Offset, af_BytesLeft, af_CurrentBuf, af_SeekOffset>>
      /\ UNCHANGED <<af_ReadMode, trouble, call, numBytes, buffer, result>>
  BY DEF HandlerWrites, buffers, opened
<1> HIDE DEF s
<1>4. disk' \in Seq(Int) /\ Len(disk') = filePos'
  BY <1>0, <1>2, <1>3, WrittenProperties DEF Types, FileTypes, WriteShape
<1>5. /\ af_Packet' \in Packets /\ af_Packet'.at = "port"
  BY <1>0, <1>1, <1>3, AnsweredPacket DEF Types, PacketTypes, Packets
<1>6. FileTypes' /\ BufferTypes' /\ PacketTypes' /\ CallTypes'
  <2>1. FileTypes'
    BY <1>0, <1>3, <1>4 DEF Types, FileTypes
  <2>2. BufferTypes' /\ CallTypes'
    BY <1>0, <1>3 DEF Types, BufferTypes, CallTypes
  <2>3. PacketTypes'
    BY <1>5 DEF PacketTypes, Packets
  <2> QED  BY <2>1, <2>2, <2>3
<1>7. WriteShape'
  BY <1>0, <1>3, <1>4, <1>5 DEF WriteShape
<1>8. Calling'
  BY <1>0, <1>3, CallingGoesOn, TransferTypesStay
<1> QED  BY <1>0, <1>3, <1>6, <1>7, <1>8, TransferTypesStay DEF ShapeInv, Types, Shape

(* Where the packet is and what it brought is all that changes. *)
LEMMA ShapePacket ==
  ASSUME ShapeInv, TransferSame, af_Packet' \in Packets,
         UNCHANGED <<file, buffers, opened, call, numBytes, buffer, result>>,
         Brought' = Brought,
         af_Packet'.at = "handler" =>
           af_Packet'.arg2 = (IF af_ReadMode THEN af_CurrentBuf ELSE 1 - af_CurrentBuf)
  PROVE  ShapeInv'
<1>0. Types /\ Shape
  BY DEF ShapeInv
<1>1. /\ UNCHANGED <<disk, filePos, af_ReadMode, trouble>>
      /\ UNCHANGED <<mem, af_Offset, af_BytesLeft, af_CurrentBuf, af_SeekOffset>>
      /\ UNCHANGED <<call, numBytes, buffer, result>>
  BY DEF file, buffers, opened
<1>2. FileTypes' /\ BufferTypes' /\ PacketTypes' /\ CallTypes'
  BY <1>0, <1>1 DEF Types, FileTypes, BufferTypes, PacketTypes, Packets, CallTypes
<1>3. Position' = Position
  BY <1>1 DEF Position
<1>4. Shape'
  BY <1>0, <1>1, <1>3 DEF Shape, ReadShape, WriteShape
<1>5. Calling'
  BY <1>1, <1>3, CallingGoesOn, TransferTypesStay, <1>0
<1> QED  BY <1>0, <1>2, <1>4, <1>5, TransferTypesStay DEF ShapeInv, Types

LEMMA ShapeHandlerFails ==
  ASSUME ShapeInv, HandlerFails, TransferSame
  PROVE  ShapeInv'
<1>1. -1 \in -1..BufferSize /\ af_Packet \in Packets
  BY Sizes DEF ShapeInv, Types, PacketTypes, Packets
<1>2. af_Packet' \in Packets /\ af_Packet'.at = "port" /\ af_Packet'.res1 = -1
  BY <1>1, AnsweredPacket DEF HandlerFails
<1>3. Brought' = 0 /\ Brought = 0
  BY <1>2 DEF HandlerFails, Brought
<1> QED  BY <1>2, <1>3, ShapePacket DEF HandlerFails

LEMMA ShapeWaitPacketRetries ==
  ASSUME ShapeInv, WaitPacketRetries, TransferSame
  PROVE  ShapeInv'
<1>1. af_Packet \in Packets /\ af_CurrentBuf \in {0, 1}
  BY DEF ShapeInv, Types, PacketTypes, BufferTypes, Packets
<1>2. PendingBuffer \in {0, 1}
  BY <1>1 DEF PendingBuffer
<1>3. /\ af_Packet' \in Packets /\ af_Packet'.at = "handler"
      /\ af_Packet'.arg2 = PendingBuffer
  BY <1>1, <1>2, SentPacket DEF WaitPacketRetries
<1>4. Brought' = 0 /\ Brought = 0
  BY <1>3 DEF WaitPacketRetries, Brought
<1> QED  BY <1>3, <1>4, ShapePacket DEF WaitPacketRetries, PendingBuffer

(* The rounds of ReadAsync(): what is left in the current buffer is copied. *)
LEMMA CopiedBytes ==
  ASSUME Types, ReadShape, NEW n \in 0..af_BytesLeft
  PROVE  LET b == buffer \o Bytes(af_Offset, n)
         IN  /\ b \in Seq(Int) /\ Len(b) = Len(buffer) + n
             /\ \A i \in 1..(Len(buffer) + n) :
                  b[i] = IF i <= Len(buffer) THEN buffer[i]
                         ELSE mem[af_Offset + (i - Len(buffer)) - 1]
<1>1. n \in Nat /\ af_Offset \in Nat /\ af_Offset + n <= 2 * BufferSize
  BY BuffersAt, Sizes DEF Types, BufferTypes, ReadShape
<1>2. /\ Bytes(af_Offset, n) \in Seq(Int) /\ Len(Bytes(af_Offset, n)) = n
      /\ \A i \in 1..n : Bytes(af_Offset, n)[i] = mem[af_Offset + i - 1]
  BY <1>1, BytesProperties DEF Types, BufferTypes
<1>3. buffer \in Seq(Int) /\ Len(buffer) \in Nat
  BY DEF Types, CallTypes
<1> DEFINE t == Bytes(af_Offset, n)
           b == buffer \o t
<1> HIDE DEF t
<1>4. /\ b \in Seq(Int) /\ Len(b) = Len(buffer) + Len(t)
      /\ \A i \in 1..(Len(buffer) + Len(t)) :
           b[i] = IF i <= Len(buffer) THEN buffer[i] ELSE t[i - Len(buffer)]
  BY <1>2, <1>3, ConcatProperties, ZenonT(30) DEF t
<1> HIDE DEF b
<1>5. Len(t) = n /\ \A i \in 1..n : t[i] = mem[af_Offset + i - 1]
  BY <1>2 DEF t
<1>6. \A i \in 1..(Len(buffer) + n) :
        b[i] = IF i <= Len(buffer) THEN buffer[i] ELSE mem[af_Offset + (i - Len(buffer)) - 1]
  <2>1. \A i \in 1..(Len(buffer) + n) : ~(i <= Len(buffer)) => i - Len(buffer) \in 1..n
    BY <1>1, <1>3
  <2> QED  BY <1>4, <1>5, <2>1
<1> QED  BY <1>4, <1>5, <1>6 DEF b, t

LEMMA ShapeRefill ==
  ASSUME ShapeInv, Refill, TransferSame
  PROVE  ShapeInv'
<1> DEFINE skip == Smaller(af_SeekOffset, Res1)
<1>0. Types /\ ReadShape /\ af_ReadMode /\ ReadCall /\ call = "ReadAsync"
  BY DEF ShapeInv, Shape, Calling, ReadCall, Refill
<1>1. /\ buffer' = buffer \o Bytes(af_Offset, af_BytesLeft)
      /\ numBytes' = numBytes - af_BytesLeft /\ numBytes > af_BytesLeft
      /\ af_Packet.at # "handler" /\ Res1 > 0
      /\ af_Packet' = Sent(1 - af_CurrentBuf)
      /\ af_Offset' = Buffers(af_CurrentBuf) + skip /\ af_BytesLeft' = Res1 - skip
      /\ af_CurrentBuf' = 1 - af_CurrentBuf /\ af_SeekOffset' = 0
      /\ UNCHANGED <<disk, filePos, mem, af_ReadMode, trouble, call, result>>
  BY DEF Refill, Goes, file, opened
<1>2. /\ af_CurrentBuf \in {0, 1} /\ af_CurrentBuf' \in {0, 1}
      /\ 1 - af_CurrentBuf' = af_CurrentBuf
      /\ af_Packet \in Packets /\ Res1 \in 1..BufferSize
  BY <1>0, <1>1, PacketFields DEF Types, BufferTypes, PacketTypes, Packets
<1>3. skip \in 0..Res1 /\ skip <= af_SeekOffset
  BY <1>0, <1>2, Sizes DEF Smaller, Types, BufferTypes
<1>4. /\ af_Packet' \in Packets /\ af_Packet'.at = "handler"
      /\ af_Packet'.arg2 = af_CurrentBuf'
  BY <1>1, <1>2, SentPacket
<1>5. buffer' \in Seq(Int) /\ Len(buffer') = Len(buffer) + af_BytesLeft
  BY <1>0, <1>1, CopiedBytes DEF Types, BufferTypes
<1> HIDE DEF skip
<1>6. FileTypes' /\ BufferTypes' /\ PacketTypes' /\ CallTypes'
  <2>1. Buffers(af_CurrentBuf) \in Nat
    BY <1>2, BuffersAt
  <2>2. af_BytesLeft' \in Nat /\ af_Offset' \in Nat
    BY <1>1, <1>2, <1>3, <2>1
  <2>3. FileTypes' /\ PacketTypes'
    BY <1>0, <1>1, <1>4 DEF Types, FileTypes, PacketTypes, Packets
  <2>4. CallTypes'
    BY <1>0, <1>1, <1>5 DEF Types, CallTypes, BufferTypes
  <2>5. BufferTypes'
    BY <1>0, <1>1, <1>2, <2>2, Sizes DEF Types, BufferTypes
  <2> QED  BY <1>0, <2>3, <2>4, <2>5 DEF Types
<1>7. Position' = filePos - Res1 + skip /\ Position' >= 0
  <2>1. Position = filePos - Res1 - af_BytesLeft + af_SeekOffset /\ Position >= 0
    BY <1>0, <1>1 DEF ReadShape, Position, Brought
  <2>2. Position' = filePos - (Res1 - skip)
    <3>1. Brought' = 0
      BY <1>4 DEF Brought
    <3>2. filePos \in Int /\ Res1 \in Int /\ skip \in Int
      BY <1>0, <1>2, <1>3, Numbers
    <3> QED  BY <1>1, <3>1, <3>2 DEF Position
  <2>3. skip = af_SeekOffset \/ skip = Res1
    BY DEF skip, Smaller
  <2>4. skip = af_SeekOffset => Position' >= Position
    BY <2>1, <2>2, <1>0, <1>2, <1>3 DEF Types, FileTypes, BufferTypes
  <2>5. skip = Res1 => Position' = filePos
    BY <2>2, <1>0, <1>2, <1>3 DEF Types, FileTypes, BufferTypes
  <2>6. Position' \in Int
    BY <2>2, <1>0, <1>2, <1>3 DEF Types, FileTypes
  <2>7. Position' >= 0
    BY <2>1, <2>3, <2>4, <2>5, <2>6, <1>0, PositionIsInt DEF Types, FileTypes
  <2>8. filePos \in Int /\ Res1 \in Int /\ skip \in Int
    BY <1>0, <1>2, <1>3, Numbers
  <2> QED  BY <2>2, <2>7, <2>8
<1>8. ReadShape'
  <2>0. Buffers(af_CurrentBuf) \in Nat
    BY <1>2, BuffersAt
  <2>1. af_Offset' + af_BytesLeft' = Buffers(af_CurrentBuf) + Res1
    <3>1. skip \in Int /\ Res1 \in Int /\ Buffers(af_CurrentBuf) \in Int
      BY <1>2, <1>3, <2>0
    <3> QED  BY <1>1, <3>1
  <2>2. Buffers(af_CurrentBuf) <= af_Offset'
    BY <1>1, <1>2, <1>3, <2>0
  <2>3. Buffers(af_CurrentBuf) + Res1 <= Buffers(af_CurrentBuf) + BufferSize
    BY <1>2, <2>0, Sizes
  <2> QED  BY <1>1, <1>2, <1>4, <1>7, <2>1, <2>2, <2>3 DEF ReadShape
<1>9. Len(buffer') <= Position'
  <2>1. af_SeekOffset = 0 => Position = filePos - Res1 - af_BytesLeft /\ skip = 0
    BY <1>0, <1>1, <1>2, <1>3 DEF Types, FileTypes, BufferTypes, Position, Brought
  <2>2. af_SeekOffset # 0 => af_BytesLeft = 0 /\ Len(buffer) = 0
    BY <1>0 DEF ReadShape, ReadCall
  <2>3. Len(buffer) <= Position
    BY <1>0 DEF ReadCall
  <2>4. af_SeekOffset # 0 => Len(buffer') = 0
    BY <2>2, <1>5
  <2>5. af_SeekOffset = 0 => Position' = Position + af_BytesLeft
    BY <2>1, <1>0, <1>2, <1>3, <1>7 DEF Types, FileTypes, BufferTypes
  <2>6. Len(buffer) \in Nat /\ Position' \in Int
    BY <1>0, <1>2, <1>3, <1>7 DEF Types, CallTypes, FileTypes
  <2> QED  BY <2>3, <2>4, <2>5, <2>6, <1>0, <1>5, <1>7, PositionIsInt DEF Types, BufferTypes
<1>10. Calling'
  <2>1. stage = "read" /\ stage' = "read"
    BY <1>0, TransferTypesStay DEF ReadCall
  <2>2. numBytes' > 0
    BY <1>0, <1>1 DEF Types, BufferTypes, CallTypes
  <2> QED  BY <1>0, <1>1, <1>9, <2>1, <2>2
           DEF Calling, ReadCall, WriteCall, SeekCall, CloseCall, CallOfStage, ChunkRead, Seeks
<1> QED  BY <1>0, <1>1, <1>6, <1>8, <1>10, TransferTypesStay DEF ShapeInv, Types, Shape

LEMMA ShapeReadStops ==
  ASSUME ShapeInv, ReadStops, TransferSame
  PROVE  ShapeInv'
<1>0. Types /\ ReadShape /\ af_ReadMode /\ ReadCall /\ call = "ReadAsync"
  BY DEF ShapeInv, Shape, Calling, ReadCall, ReadStops
<1>1. /\ buffer' = buffer \o Bytes(af_Offset, af_BytesLeft)
      /\ numBytes' = numBytes - af_BytesLeft
      /\ af_Packet.at # "handler" /\ Res1 <= 0
      /\ af_Packet' = [af_Packet EXCEPT !.at = "none"] /\ af_BytesLeft' = 0
      /\ call' = "none" /\ result' = IF Res1 = 0 THEN Len(buffer') ELSE -1
      /\ UNCHANGED <<disk, filePos, mem, af_Offset, af_CurrentBuf, af_SeekOffset>>
      /\ UNCHANGED <<af_ReadMode, trouble>>
  BY DEF ReadStops, Return, file, opened, Taken
<1>2. af_Packet \in Packets
  BY <1>0 DEF Types, PacketTypes, Packets
<1>3. af_Packet' \in Packets /\ af_Packet'.at = "none" /\ af_Packet'.res1 = Res1
  BY <1>1, <1>2, MarkedPacket
<1>4. buffer' \in Seq(Int) /\ Len(buffer') = Len(buffer) + af_BytesLeft
  BY <1>0, <1>1, CopiedBytes DEF Types, BufferTypes
<1>5. FileTypes' /\ BufferTypes' /\ PacketTypes'
  BY <1>0, <1>1, <1>3 DEF Types, FileTypes, BufferTypes, PacketTypes, Packets
<1>6. CallTypes'
  BY <1>0, <1>1, <1>4 DEF Types, CallTypes, BufferTypes, Calls
<1>7. Position' = Position + af_BytesLeft
  <2>0. Res1 \in Int /\ ~(Res1 > 0)
    BY <1>0, <1>1, Numbers
  <2>1. Brought = 0 /\ Brought' = 0
    BY <1>3, <2>0 DEF Brought
  <2>2. filePos \in Int /\ af_BytesLeft \in Int /\ af_SeekOffset \in Int
    BY <1>0, Numbers
  <2>3. Position = filePos - 0 - af_BytesLeft + af_SeekOffset
    BY <2>1 DEF Position
  <2>4. Position' = filePos - 0 - 0 + af_SeekOffset
    BY <1>1, <2>1 DEF Position
  <2> QED  BY <2>2, <2>3, <2>4
<1>8. ReadShape'
  <2>1. Buffers(1 - af_CurrentBuf) \in Nat
    BY <1>0, BuffersAt DEF Types, BufferTypes
  <2>2. Position' >= 0
    BY <1>0, <1>7, PositionIsInt DEF ReadShape, Types, BufferTypes
  <2>3. af_Offset + 0 <= Buffers(1 - af_CurrentBuf) + BufferSize
    BY <1>0, <2>1, Sizes DEF ReadShape, Types, BufferTypes
  <2> QED  BY <1>0, <1>1, <1>3, <2>1, <2>2, <2>3, Sizes DEF ReadShape, Types, BufferTypes
<1>9. af_SeekOffset # 0 => Len(buffer') = 0
  BY <1>0, <1>4 DEF ReadShape, ReadCall
<1>10. Len(buffer') <= Position'
  BY <1>0, <1>4, <1>7, PositionIsInt DEF ReadCall, Types, CallTypes, BufferTypes
<1>11. Calling'
  <2>1. stage = "read" /\ stage' = "read"
    BY <1>0, TransferTypesStay DEF ReadCall
  <2>2. result' > 0 => result' = Len(buffer')
    BY <1>1
  <2> QED  BY <1>0, <1>1, <1>9, <1>10, <2>1, <2>2
           DEF Calling, ReadCall, WriteCall, SeekCall, CloseCall, CallOfStage, ChunkRead, Seeks
<1> QED  BY <1>0, <1>1, <1>5, <1>6, <1>8, <1>11, TransferTypesStay DEF ShapeInv, Types, Shape

LEMMA ShapeReadServed ==
  ASSUME ShapeInv, ReadServed, TransferSame
  PROVE  ShapeInv'
<1>0. Types /\ ReadShape /\ af_ReadMode /\ ReadCall /\ call = "ReadAsync"
  BY DEF ShapeInv, Shape, Calling, ReadCall, ReadServed
<1>1. /\ buffer' = buffer \o Bytes(af_Offset, numBytes)
      /\ numBytes <= af_BytesLeft
      /\ af_BytesLeft' = af_BytesLeft - numBytes /\ af_Offset' = af_Offset + numBytes
      /\ call' = "none" /\ result' = Len(buffer')
      /\ UNCHANGED <<disk, filePos, mem, af_CurrentBuf, af_SeekOffset, af_Packet, numBytes>>
      /\ UNCHANGED <<af_ReadMode, trouble>>
  BY DEF ReadServed, Return, file, opened
<1>2. numBytes \in 1..af_BytesLeft /\ numBytes \in 0..af_BytesLeft
  BY <1>0, <1>1 DEF ReadCall, Types, CallTypes, BufferTypes
<1>3. buffer' \in Seq(Int) /\ Len(buffer') = Len(buffer) + numBytes
  BY <1>0, <1>1, <1>2, CopiedBytes
<1>4. af_SeekOffset = 0
  BY <1>0, <1>2 DEF ReadShape, Types, BufferTypes
<1>5. FileTypes' /\ BufferTypes' /\ PacketTypes'
  BY <1>0, <1>1, <1>2 DEF Types, FileTypes, BufferTypes, PacketTypes, Packets
<1>6. CallTypes'
  BY <1>0, <1>1, <1>3 DEF Types, CallTypes, Calls
<1>7. Position' = Position + numBytes
  BY <1>0, <1>1, <1>2, PacketFields
  DEF Types, FileTypes, BufferTypes, PacketTypes, Packets, Position, Brought
<1>8. ReadShape'
  <2>1. Buffers(1 - af_CurrentBuf) \in Nat
    BY <1>0, BuffersAt DEF Types, BufferTypes
  <2>2. Position' >= 0
    BY <1>0, <1>2, <1>7, PositionIsInt DEF ReadShape, Types, BufferTypes
  <2> QED  BY <1>0, <1>1, <1>2, <1>4, <2>1, <2>2, Sizes DEF ReadShape, Types, BufferTypes
<1>9. Len(buffer') <= Position'
  BY <1>0, <1>2, <1>3, <1>7, PositionIsInt DEF ReadCall, Types, CallTypes, BufferTypes
<1>10. Calling'
  <2>1. stage = "read" /\ stage' = "read"
    BY <1>0, TransferTypesStay DEF ReadCall
  <2> QED  BY <1>0, <1>1, <1>4, <1>9, <2>1
           DEF Calling, ReadCall, WriteCall, SeekCall, CloseCall, CallOfStage, ChunkRead, Seeks
<1> QED  BY <1>0, <1>1, <1>5, <1>6, <1>8, <1>10, TransferTypesStay DEF ShapeInv, Types, Shape

(* The rounds of WriteAsync(). *)
LEMMA ShapeFlush ==
  ASSUME ShapeInv, Flush, TransferSame
  PROVE  ShapeInv'
<1> DEFINE s == SubSeq(buffer, 1, af_BytesLeft)
<1>0. /\ Types /\ WriteShape /\ ~af_ReadMode /\ stage = "write"
      /\ numBytes = Len(buffer)
  BY DEF ShapeInv, Shape, Calling, WriteCall, Flush
<1>1. /\ mem' = Filled(af_Offset, s) /\ numBytes > af_BytesLeft
      /\ af_Packet.at # "handler"
      /\ UNCHANGED <<disk, filePos, af_SeekOffset, af_ReadMode, trouble>>
  BY DEF Flush, file, opened
<1>2. s \in Seq(Int) /\ Len(s) = af_BytesLeft
  BY <1>0, <1>1 DEF Types, CallTypes, BufferTypes
<1>3. mem' \in [Addresses -> Int]
  BY <1>0, <1>1, <1>2, FilledProperties DEF Types, BufferTypes
<1>4. af_Packet \in Packets /\ af_CurrentBuf \in {0, 1}
  BY <1>0 DEF Types, PacketTypes, Packets, BufferTypes
<1>5. CASE Res1 < 0
  <2>1. /\ af_Packet' = [af_Packet EXCEPT !.at = "none"] /\ call' = "none" /\ result' = -1
        /\ UNCHANGED <<af_Offset, af_BytesLeft, af_CurrentBuf, numBytes, buffer>>
    BY <1>5 DEF Flush, Taken, Return
  <2>2. af_Packet' \in Packets /\ af_Packet'.at = "none"
    BY <1>4, <2>1, MarkedPacket
  <2>3. Types'
    BY <1>0, <1>1, <1>3, <2>1, <2>2, TransferTypesStay
    DEF Types, FileTypes, BufferTypes, PacketTypes, Packets, CallTypes, Calls
  <2>4. WriteShape'
    BY <1>0, <1>1, <2>1, <2>2 DEF WriteShape
  <2>5. Calling'
    BY <1>0, <1>1, <2>1, CallingReturns, TransferTypesStay
  <2> QED  BY <1>0, <1>1, <2>3, <2>4, <2>5 DEF ShapeInv, Shape
<1>6. CASE ~(Res1 < 0)
  <2>1. /\ buffer' = SubSeq(buffer, af_BytesLeft + 1, Len(buffer))
        /\ numBytes' = numBytes - af_BytesLeft
        /\ af_Packet' = Sent(af_CurrentBuf)
        /\ af_CurrentBuf' = 1 - af_CurrentBuf
        /\ af_Offset' = Buffers(1 - af_CurrentBuf) /\ af_BytesLeft' = BufferSize
        /\ UNCHANGED <<call, result>>
    BY <1>6 DEF Flush, Goes
  <2>2. /\ af_Packet' \in Packets /\ af_Packet'.at = "handler"
        /\ af_Packet'.arg2 = af_CurrentBuf
    BY <1>4, <2>1, SentPacket
  <2>3. buffer' \in Seq(Int) /\ Len(buffer') = numBytes' /\ numBytes' \in Int
    BY <1>0, <1>1, <2>1 DEF Types, CallTypes, BufferTypes
  <2>4. Types'
    <3>1. Buffers(1 - af_CurrentBuf) \in Nat
      BY <1>4, BuffersAt
    <3>2. BufferTypes'
      <4>1. mem' \in [Addresses -> Int] /\ af_SeekOffset' \in 0..(BlockSize - 1)
        BY <1>0, <1>1, <1>3 DEF Types, BufferTypes
      <4>2. af_Offset' \in Nat /\ af_BytesLeft' \in Nat /\ af_CurrentBuf' \in {0, 1}
        BY <1>4, <2>1, <3>1, Sizes
      <4> QED  BY <4>1, <4>2 DEF BufferTypes
    <3>3. FileTypes' /\ PacketTypes' /\ CallTypes'
      BY <1>0, <1>1, <2>1, <2>2, <2>3
      DEF Types, FileTypes, PacketTypes, Packets, CallTypes
    <3> QED  BY <1>0, <3>2, <3>3, TransferTypesStay DEF Types
  <2>5. WriteShape'
    <3>1. Buffers(1 - af_CurrentBuf) \in Nat /\ 1 - (1 - af_CurrentBuf) = af_CurrentBuf
      BY <1>4, BuffersAt
    <3>2. /\ Buffers(af_CurrentBuf') <= af_Offset'
          /\ af_Offset' + af_BytesLeft' = Buffers(af_CurrentBuf') + BufferSize
      BY <2>1, <3>1, Sizes
    <3>3. /\ af_SeekOffset' = 0 /\ filePos' = Len(disk)'
          /\ af_Packet'.arg2 = 1 - af_CurrentBuf'
      BY <1>0, <1>1, <2>1, <2>2, <3>1 DEF WriteShape
    <3> QED  BY <3>2, <3>3 DEF WriteShape
  <2>6. Calling'
    <3>1. call' = "WriteAsync" /\ stage' = "write"
      BY <1>0, <2>1, TransferTypesStay DEF Flush
    <3> QED  BY <1>0, <1>1, <2>3, <3>1
             DEF Calling, ReadCall, WriteCall, SeekCall, CloseCall, CallOfStage, ChunkRead, Seeks
  <2> QED  BY <1>0, <1>1, <2>4, <2>5, <2>6 DEF ShapeInv, Shape
<1> QED  BY <1>5, <1>6

LEMMA ShapeWriteServed ==
  ASSUME ShapeInv, WriteServed, TransferSame
  PROVE  ShapeInv'
<1>0. /\ Types /\ WriteShape /\ ~af_ReadMode /\ stage = "write"
      /\ numBytes = Len(buffer)
  BY DEF ShapeInv, Shape, Calling, WriteCall, WriteServed
<1>1. /\ mem' = Filled(af_Offset, buffer) /\ numBytes <= af_BytesLeft
      /\ af_BytesLeft' = af_BytesLeft - numBytes /\ af_Offset' = af_Offset + numBytes
      /\ call' = "none" /\ result' = numBytes
      /\ UNCHANGED <<disk, filePos, af_CurrentBuf, af_SeekOffset, af_Packet, numBytes, buffer>>
      /\ UNCHANGED <<af_ReadMode, trouble>>
  BY DEF WriteServed, Return, file, opened
<1>2. numBytes \in 0..af_BytesLeft
  BY <1>0, <1>1 DEF Types, CallTypes, BufferTypes
<1>3. mem' \in [Addresses -> Int]
  BY <1>0, <1>1, FilledProperties DEF Types, BufferTypes, CallTypes
<1>4. BufferTypes'
  BY <1>0, <1>1, <1>2, <1>3 DEF Types, BufferTypes
<1>5. FileTypes' /\ PacketTypes' /\ CallTypes'
  BY <1>0, <1>1 DEF Types, FileTypes, PacketTypes, CallTypes, Calls
<1>6. WriteShape'
  <2>1. Buffers(af_CurrentBuf) \in Nat
    BY <1>0, BuffersAt DEF Types, BufferTypes
  <2>2. /\ Buffers(af_CurrentBuf) <= af_Offset'
        /\ af_Offset' + af_BytesLeft' = Buffers(af_CurrentBuf) + BufferSize
    <3>1. /\ Buffers(af_CurrentBuf) <= af_Offset
          /\ af_Offset + af_BytesLeft = Buffers(af_CurrentBuf) + BufferSize
      BY <1>0 DEF WriteShape
    <3>2. af_Offset \in Nat /\ af_BytesLeft \in Nat /\ numBytes \in 0..af_BytesLeft
      BY <1>0, <1>2, Numbers
    <3> QED  BY <1>1, <2>1, <3>1, <3>2, Sizes
  <2> QED  BY <1>0, <1>1, <2>2 DEF WriteShape
<1>7. Calling'
  BY <1>0, <1>1, CallingReturns, TransferTypesStay
<1> QED  BY <1>0, <1>1, <1>4, <1>5, <1>6, <1>7, TransferTypesStay DEF ShapeInv, Types, Shape

LEMMA ShapeClose ==
  ASSUME ShapeInv, Close, TransferSame
  PROVE  ShapeInv'
<1> DEFINE part == Bytes(Buffers(af_CurrentBuf), BufferSize - af_BytesLeft)
<1>0. Types /\ Shape /\ stage = "closing"
  BY DEF ShapeInv, Calling, CloseCall, Close
<1>1. /\ af_Packet' = [af_Packet EXCEPT !.at = "none"] /\ af_Packet.at # "handler"
      /\ UNCHANGED <<mem, af_Offset, af_BytesLeft, af_CurrentBuf, af_SeekOffset>>
      /\ UNCHANGED <<af_ReadMode, trouble, numBytes, buffer>>
      /\ call' = "none"
  BY DEF Close, Taken, Return, buffers, opened
<1>2. af_Packet \in Packets /\ Res1 \in Int
  BY <1>0, PacketFields DEF Types, PacketTypes, Packets
<1>3. af_Packet' \in Packets /\ af_Packet'.at = "none" /\ af_Packet'.res1 = Res1
  BY <1>1, <1>2, MarkedPacket
<1>4. Calling'
  BY <1>0, <1>1, CallingReturns, TransferTypesStay
<1>5. BufferTypes' /\ PacketTypes' /\ TransferTypes'
  BY <1>0, <1>1, <1>3, TransferTypesStay DEF Types, BufferTypes, PacketTypes, Packets
<1>6. FileTypes' /\ CallTypes' /\ Shape'
  <2>1. CASE UNCHANGED <<disk, filePos>> /\ result' \in Int
    <3>1. Position' = Position
      BY <1>1, <1>3, <2>1 DEF Position, Brought
    <3>2. Shape'
      BY <1>0, <1>1, <1>3, <2>1, <3>1 DEF Shape, ReadShape, WriteShape
    <3> QED  BY <1>0, <1>1, <2>1, <3>2 DEF Types, FileTypes, CallTypes, Calls
  <2>2. CASE /\ ~af_ReadMode /\ af_BytesLeft < BufferSize
             /\ disk' = Written(part) /\ filePos' = filePos + Len(part)
             /\ result' = Len(part)
    <3>1. af_BytesLeft \in Nat /\ BufferSize - af_BytesLeft \in Nat
      BY <1>0, <2>2, Sizes DEF Types, BufferTypes
    <3>2. /\ Buffers(af_CurrentBuf) \in Nat
          /\ Buffers(af_CurrentBuf) + (BufferSize - af_BytesLeft) <= 2 * BufferSize
      BY <1>0, <3>1, BuffersAt, Sizes DEF Types, BufferTypes
    <3>3. part \in Seq(Int) /\ Len(part) = BufferSize - af_BytesLeft
      BY <1>0, <3>1, <3>2, BytesProperties DEF Types, BufferTypes
    <3> HIDE DEF part
    <3>4. disk' \in Seq(Int) /\ Len(disk') = filePos'
      BY <1>0, <2>2, <3>3, WrittenProperties DEF Types, FileTypes, Shape, WriteShape
    <3>5. WriteShape'
      BY <1>0, <1>1, <1>3, <2>2, <3>4 DEF Shape, WriteShape
    <3>6. FileTypes'
      BY <1>0, <1>1, <3>4 DEF Types, FileTypes
    <3>7. CallTypes'
      BY <1>0, <1>1, <2>2, <3>1, <3>3 DEF Types, CallTypes, Calls
    <3> QED  BY <1>1, <2>2, <3>5, <3>6, <3>7 DEF Shape
  <2> QED  BY <1>2, <2>1, <2>2 DEF Close, Return, file
<1> QED  BY <1>4, <1>5, <1>6 DEF ShapeInv, Types

(* SeekAsync() in each of its cases leaves the position at its target. *)
LEMMA CurrentIsPosition ==
  ASSUME ShapeInv, call \in Seeks, Returned, Res1 >= 0
  PROVE  /\ Current = Position /\ Position \in Nat
         /\ Position = filePos - Res1 - af_BytesLeft /\ af_SeekOffset = 0
         /\ Position <= Len(disk)
<1>1. Types /\ ReadShape /\ af_SeekOffset = 0
  BY DEF ShapeInv, Shape, Calling, SeekCall
<1>2. Position \in Nat
  BY <1>1, PositionIsInt DEF ReadShape
<1>3. /\ filePos \in 0..Len(disk) /\ af_BytesLeft \in Nat /\ Len(disk) \in Nat
      /\ Res1 \in Int
  BY <1>1, PositionIsInt DEF Types, FileTypes, BufferTypes
<1>4. Brought = Res1
  BY <1>3 DEF Brought
<1>5. Position = filePos - Res1 - af_BytesLeft
  BY <1>1, <1>3, <1>4 DEF Position
<1>6. Current = Position
  BY <1>1, <1>3, <1>5 DEF Current
<1> QED  BY <1>1, <1>2, <1>3, <1>5, <1>6

SeekTarget == IF call = "SeekAsync_MODE_START" THEN numBytes ELSE Current + numBytes

LEMMA SeekTargetIsNat ==
  ASSUME ShapeInv, call \in Seeks, Returned, Res1 >= 0
  PROVE  SeekTarget \in Nat
<1>1. Current = Position /\ Position \in Nat
  BY CurrentIsPosition
<1>2. numBytes \in Int
  BY DEF ShapeInv, Types, CallTypes
<1>3. IF call = "SeekAsync_MODE_START" THEN numBytes >= 0 ELSE Position + numBytes >= 0
  BY DEF ShapeInv, Calling, SeekCall
<1>4. CASE call = "SeekAsync_MODE_START"
  BY <1>2, <1>3, <1>4 DEF SeekTarget
<1>5. CASE call # "SeekAsync_MODE_START"
  <2>1. SeekTarget = Position + numBytes /\ Position + numBytes >= 0
    BY <1>1, <1>3, <1>5 DEF SeekTarget
  <2> QED  BY <1>1, <1>2, <2>1
<1> QED  BY <1>4, <1>5

(* The three ways that lead to the target. *)
SeekLeads ==
  /\ Position' = SeekTarget
  /\ 0 <= af_BytesLeft' /\ Buffers(1 - af_CurrentBuf') <= af_Offset'
  /\ af_Offset' + af_BytesLeft' <= Buffers(1 - af_CurrentBuf') + BufferSize

LEMMA SeekElsewhereLeads ==
  ASSUME ShapeInv, call \in Seeks, Returned, Res1 >= 0, SeekElsewhere(SeekTarget),
         RoundTarget(SeekTarget) <= Len(disk)
  PROVE  /\ SeekLeads
         /\ filePos' = RoundTarget(SeekTarget) /\ filePos' \in Nat
         /\ af_SeekOffset' \in 0..(BlockSize - 1)
         /\ af_BytesLeft' = 0 /\ af_CurrentBuf' = 0 /\ af_Offset' = Buffers(1)
         /\ af_Packet' \in Packets /\ af_Packet'.at = "handler" /\ af_Packet'.arg2 = 0
         /\ call' = "none" /\ result' = Position
<1>1. SeekTarget \in Nat /\ Current = Position
  BY SeekTargetIsNat, CurrentIsPosition
<1>2. Len(disk) \in Nat /\ af_Packet \in Packets
  BY DEF ShapeInv, Types, FileTypes, PacketTypes, Packets
<1> DEFINE r == RoundTarget(SeekTarget)
<1>3. r \in Nat /\ SeekTarget - r \in 0..(BlockSize - 1)
  BY <1>1, RoundTargetProperties
<1>4. ~(r > Len(disk))
  BY <1>2, <1>3
<1>5. /\ filePos' = r /\ af_Packet' = Sent(0) /\ af_SeekOffset' = SeekTarget - r
      /\ af_BytesLeft' = 0 /\ af_CurrentBuf' = 0 /\ af_Offset' = Buffers(1)
      /\ call' = "none" /\ result' = Position
  BY <1>1, <1>4 DEF SeekElsewhere, Return
<1> HIDE DEF r
<1>6. af_Packet' \in Packets /\ af_Packet'.at = "handler" /\ af_Packet'.arg2 = 0
  BY <1>2, <1>5, SentPacket
<1>7. Position' = SeekTarget
  BY <1>1, <1>3, <1>5, <1>6, Sizes DEF Position, Brought
<1>8. SeekLeads
  BY <1>5, <1>7, BuffersAt, Sizes DEF SeekLeads
<1> QED  BY <1>3, <1>5, <1>6, <1>8 DEF r

LEMMA SeekInBufferLeads ==
  ASSUME ShapeInv, call \in Seeks, Returned, Res1 >= 0, SeekTarget >= MinBuf,
         SeekTarget < Position \/ SeekTarget - Position <= af_BytesLeft,
         SeekInBuffer(SeekTarget - Current)
  PROVE  /\ SeekLeads
         /\ af_Offset' = af_Offset + (SeekTarget - Position)
         /\ af_Offset' + af_BytesLeft' = af_Offset + af_BytesLeft
         /\ af_Offset' \in Nat /\ af_BytesLeft' \in Nat
         /\ UNCHANGED <<filePos, af_CurrentBuf, af_SeekOffset>>
         /\ af_Packet' \in Packets /\ af_Packet'.at = "port"
         /\ af_Packet'.res1 = Res1
         /\ call' = "none" /\ result' = Position
<1>1. SeekTarget \in Nat /\ Current = Position /\ Position \in Nat
  BY SeekTargetIsNat, CurrentIsPosition
<1>2. Types /\ ReadShape /\ af_Packet \in Packets
  BY DEF ShapeInv, Types, PacketTypes, Packets, Shape, Calling, SeekCall
<1>3. /\ af_Packet' = [af_Packet EXCEPT !.at = "port"]
      /\ af_BytesLeft' = af_BytesLeft - (SeekTarget - Position)
      /\ af_Offset' = af_Offset + (SeekTarget - Position)
      /\ UNCHANGED <<filePos, af_CurrentBuf, af_SeekOffset>>
      /\ call' = "none" /\ result' = Position
  BY <1>1 DEF SeekInBuffer, Return
<1>4. /\ af_Packet' \in Packets /\ af_Packet'.at = "port"
      /\ af_Packet'.res1 = Res1
  BY <1>2, <1>3, MarkedPacket
<1>5. Brought' = Brought
  BY <1>4 DEF Brought
<1>6. Position' = SeekTarget
  <2>1. /\ filePos \in Int /\ Brought \in Int /\ af_BytesLeft \in Int
        /\ af_SeekOffset \in Int /\ SeekTarget \in Int
    BY <1>1, <1>2, PositionIsInt DEF Types, BufferTypes, FileTypes
  <2> QED  BY <1>3, <1>5, <2>1 DEF Position
<1>7. Buffers(1 - af_CurrentBuf) \in Nat
  BY <1>2, BuffersAt DEF Types, BufferTypes
<1>8. SeekTarget >= Position - (af_Offset - Buffers(1 - af_CurrentBuf))
  BY <1>1 DEF MinBuf
<1>9. SeekLeads
  BY <1>1, <1>2, <1>3, <1>6, <1>7, <1>8, Sizes DEF SeekLeads, ReadShape, Types, BufferTypes
<1>10. af_Offset' \in Nat /\ af_BytesLeft' \in Nat
  BY <1>1, <1>2, <1>3, <1>7, <1>9 DEF SeekLeads, Types, BufferTypes
<1> QED  BY <1>1, <1>2, <1>3, <1>4, <1>9, <1>10 DEF Types, BufferTypes

LEMMA SeekAheadLeads ==
  ASSUME ShapeInv, call \in Seeks, Returned, Res1 >= 0, SeekTarget < MaxBuf,
         SeekTarget - Position > af_BytesLeft,
         SeekAhead(SeekTarget - Current)
  PROVE  /\ SeekLeads
         /\ af_CurrentBuf' = 1 - af_CurrentBuf /\ af_SeekOffset' = 0
         /\ af_Offset' + af_BytesLeft' = Buffers(af_CurrentBuf) + Res1
         /\ af_Offset' \in Nat /\ af_BytesLeft' \in Nat
         /\ af_Packet' \in Packets /\ af_Packet'.at = "handler"
         /\ af_Packet'.arg2 = af_CurrentBuf'
         /\ UNCHANGED filePos
         /\ call' = "none" /\ result' = Position
<1> DEFINE ahead == SeekTarget - Position - af_BytesLeft
<1>1. /\ SeekTarget \in Nat /\ Current = Position /\ Position \in Nat
      /\ Position = filePos - Res1 - af_BytesLeft /\ af_SeekOffset = 0
  BY SeekTargetIsNat, CurrentIsPosition
<1>2. Types /\ ReadShape /\ af_Packet \in Packets /\ Res1 \in 0..BufferSize
  <2>1. Types /\ ReadShape /\ af_Packet \in Packets
    BY DEF ShapeInv, Types, PacketTypes, Packets, Shape, Calling, SeekCall
  <2> QED  BY <2>1, PacketFields, Sizes
<1>3. ahead \in 0..Res1
  BY <1>1, <1>2 DEF MaxBuf, Types, BufferTypes
<1>4. /\ af_Packet' = Sent(1 - af_CurrentBuf)
      /\ af_Offset' = Buffers(af_CurrentBuf) + ahead /\ af_BytesLeft' = Res1 - ahead
      /\ af_SeekOffset' = 0 /\ af_CurrentBuf' = 1 - af_CurrentBuf
      /\ UNCHANGED filePos /\ call' = "none" /\ result' = Position
  BY <1>1, <1>2 DEF SeekAhead, Return, Types, BufferTypes
<1>5. /\ af_CurrentBuf \in {0, 1} /\ 1 - af_CurrentBuf \in {0, 1}
      /\ Buffers(af_CurrentBuf) \in Nat
  BY <1>2, BuffersAt DEF Types, BufferTypes
<1>6. /\ af_Packet' \in Packets /\ af_Packet'.at = "handler"
      /\ af_Packet'.arg2 = af_CurrentBuf'
  BY <1>2, <1>4, <1>5, SentPacket
<1>7. Position' = filePos - (Res1 - ahead)
  <2>1. Brought' = 0
    BY <1>6 DEF Brought
  <2>2. filePos \in Int /\ Res1 \in Int /\ ahead \in Int
    BY <1>2, <1>3 DEF Types, FileTypes
  <2> QED  BY <1>4, <2>1, <2>2 DEF Position
<1>8. Position' = SeekTarget
  <2>1. filePos \in Int /\ af_BytesLeft \in Int /\ Res1 \in Int
    BY <1>2 DEF Types, FileTypes, BufferTypes
  <2> QED  BY <1>1, <1>7, <2>1
<1> HIDE DEF ahead
<1>9. /\ af_Offset' + af_BytesLeft' = Buffers(af_CurrentBuf) + Res1
      /\ af_Offset' \in Nat /\ af_BytesLeft' \in Nat
  BY <1>2, <1>3, <1>4, <1>5
<1>10. 1 - af_CurrentBuf' = af_CurrentBuf
  BY <1>4, <1>5
<1>11. SeekLeads
  BY <1>2, <1>3, <1>4, <1>5, <1>8, <1>9, <1>10, Sizes DEF SeekLeads
<1> QED  BY <1>4, <1>6, <1>9, <1>11

(* Which of them a step takes. *)
LEMMA SeekCases ==
  ASSUME ShapeInv, SeekAsync
  PROVE  \/ /\ Res1 < 0 /\ af_Packet' = Taken /\ Return(Failed)
            /\ UNCHANGED <<filePos, af_Offset, af_BytesLeft, af_CurrentBuf, af_SeekOffset>>
         \/ /\ Res1 >= 0 /\ RoundTarget(SeekTarget) > Len(disk) /\ SeekElsewhere(SeekTarget)
         \/ /\ Res1 >= 0 /\ RoundTarget(SeekTarget) <= Len(disk)
            /\ SeekElsewhere(SeekTarget)
         \/ /\ Res1 >= 0 /\ SeekTarget >= MinBuf
            /\ SeekTarget < Position \/ SeekTarget - Position <= af_BytesLeft
            /\ SeekInBuffer(SeekTarget - Current)
         \/ /\ Res1 >= 0 /\ SeekTarget < MaxBuf /\ SeekTarget - Position > af_BytesLeft
            /\ SeekAhead(SeekTarget - Current)
<1>1. call \in Seeks /\ Returned /\ Res1 \in Int
  BY PacketFields DEF SeekAsync, ShapeInv, Types, PacketTypes, Packets
<1>2. CASE Res1 < 0
  BY <1>2 DEF SeekAsync
<1>3. CASE Res1 >= 0
  <2>1. /\ SeekTarget \in Nat /\ Current = Position /\ Position \in Nat
        /\ af_BytesLeft \in Nat /\ af_Offset \in Nat /\ Len(disk) \in Nat
    BY <1>1, <1>3, SeekTargetIsNat, CurrentIsPosition DEF ShapeInv, Types, BufferTypes, FileTypes
  <2>2. MinBuf \in Int /\ MaxBuf \in Int /\ RoundTarget(SeekTarget) \in Nat
    <3>1. Buffers(1 - af_CurrentBuf) \in Nat
      BY BuffersAt DEF ShapeInv, Types, BufferTypes
    <3>2. RoundTarget(SeekTarget) \in Nat
      BY <2>1, RoundTargetProperties
    <3> QED  BY <1>1, <2>1, <3>1, <3>2 DEF MinBuf, MaxBuf
  <2>3. IF SeekTarget < MinBuf \/ SeekTarget >= MaxBuf THEN SeekElsewhere(SeekTarget)
        ELSE IF SeekTarget < Current \/ SeekTarget - Current <= af_BytesLeft
        THEN SeekInBuffer(SeekTarget - Current)
        ELSE SeekAhead(SeekTarget - Current)
    <3>1. ~(Res1 < 0)
      BY <1>1, <1>3
    <3> QED  BY <3>1, Zenon DEF SeekAsync, SeekTarget
  <2>4. CASE SeekTarget < MinBuf \/ SeekTarget >= MaxBuf
    BY <1>3, <2>1, <2>2, <2>3, <2>4
  <2>5. CASE ~(SeekTarget < MinBuf \/ SeekTarget >= MaxBuf)
    BY <1>3, <2>1, <2>2, <2>3, <2>5
  <2> QED  BY <2>4, <2>5
<1> QED  BY <1>1, <1>2, <1>3

LEMMA ShapeSeekAsync ==
  ASSUME ShapeInv, SeekAsync, TransferSame
  PROVE  ShapeInv'
<1>0. /\ Types /\ ReadShape /\ af_ReadMode /\ stage = "open" /\ af_SeekOffset = 0
      /\ call \in Seeks /\ Returned
  BY DEF ShapeInv, Shape, Calling, SeekCall, SeekAsync
<1>1. UNCHANGED <<disk, mem, af_ReadMode, trouble, numBytes, buffer>>
  BY DEF SeekAsync, opened
<1>2. af_Packet \in Packets /\ 0 \in 0..(BlockSize - 1)
  BY <1>0, Sizes DEF Types, PacketTypes, Packets
<1>3. SUFFICES /\ call' = "none" /\ result' \in Int /\ filePos' \in 0..Len(disk)
               /\ BufferTypes' /\ af_Packet' \in Packets /\ ReadShape'
  <2> SUFFICES ASSUME /\ call' = "none" /\ result' \in Int /\ filePos' \in 0..Len(disk)
                      /\ BufferTypes' /\ af_Packet' \in Packets /\ ReadShape'
               PROVE  ShapeInv'
    OBVIOUS
  <2>1. Calling'
    BY <1>0, <1>1, CallingReturns, TransferTypesStay
  <2>2. FileTypes' /\ CallTypes' /\ PacketTypes'
    BY <1>0, <1>1 DEF Types, FileTypes, CallTypes, Calls, PacketTypes, Packets
  <2> QED  BY <1>0, <1>1, <2>1, <2>2, TransferTypesStay DEF ShapeInv, Types, Shape
<1>4. CASE /\ Res1 < 0 /\ af_Packet' = Taken /\ Return(Failed)
           /\ UNCHANGED <<filePos, af_Offset, af_BytesLeft, af_CurrentBuf, af_SeekOffset>>
  <2>1. af_Packet' \in Packets /\ af_Packet'.at = "none" /\ af_Packet'.res1 = Res1
    BY <1>2, <1>4, MarkedPacket DEF Taken
  <2>2. Position' = Position
    BY <1>0, <1>4, <2>1 DEF Position, Brought
  <2> QED  BY <1>0, <1>1, <1>4, <2>1, <2>2
           DEF Return, Types, FileTypes, BufferTypes, ReadShape
<1>5. CASE Res1 >= 0 /\ RoundTarget(SeekTarget) > Len(disk) /\ SeekElsewhere(SeekTarget)
  <2>1. /\ af_Packet' = Broken /\ af_BytesLeft' = 0 /\ call' = "none" /\ result' = -1
        /\ UNCHANGED <<filePos, af_Offset, af_CurrentBuf, af_SeekOffset>>
    BY <1>5 DEF SeekElsewhere, Return
  <2>2. af_Packet' \in Packets /\ af_Packet'.at = "none" /\ af_Packet'.res1 = -1
    <3>1. -1 \in -1..BufferSize
      BY Sizes
    <3> QED  BY <1>2, <2>1, <3>1, AnsweredPacket DEF Broken
  <2>3. Position' = filePos
    BY <1>0, <2>1, <2>2 DEF Position, Brought, Types, FileTypes
  <2>4. Buffers(1 - af_CurrentBuf) \in Nat
    BY <1>0, BuffersAt DEF Types, BufferTypes
  <2> QED  BY <1>0, <1>1, <2>1, <2>2, <2>3, <2>4, Sizes
           DEF Types, FileTypes, BufferTypes, ReadShape
<1>6. CASE Res1 >= 0 /\ RoundTarget(SeekTarget) <= Len(disk) /\ SeekElsewhere(SeekTarget)
  <2>1. SeekTarget \in Nat /\ Position \in Int
    BY <1>0, <1>6, SeekTargetIsNat, PositionIsInt
  <2>2. /\ SeekLeads
        /\ filePos' = RoundTarget(SeekTarget) /\ filePos' \in Nat
        /\ af_SeekOffset' \in 0..(BlockSize - 1)
        /\ af_BytesLeft' = 0 /\ af_CurrentBuf' = 0 /\ af_Offset' = Buffers(1)
        /\ af_Packet' \in Packets /\ af_Packet'.at = "handler" /\ af_Packet'.arg2 = 0
        /\ call' = "none" /\ result' = Position
    BY <1>0, <1>6, SeekElsewhereLeads
  <2>3. filePos' \in 0..Len(disk) /\ result' \in Int
    BY <1>0, <1>6, <2>1, <2>2 DEF Types, FileTypes
  <2>4. BufferTypes'
    BY <1>0, <1>1, <2>2, BuffersAt, Sizes DEF Types, BufferTypes
  <2>5. ReadShape'
    BY <2>1, <2>2 DEF SeekLeads, ReadShape
  <2> QED  BY <2>2, <2>3, <2>4, <2>5
<1>7. CASE /\ Res1 >= 0 /\ SeekTarget >= MinBuf
           /\ SeekTarget < Position \/ SeekTarget - Position <= af_BytesLeft
           /\ SeekInBuffer(SeekTarget - Current)
  <2>1. SeekTarget \in Nat /\ Position \in Int
    BY <1>0, <1>7, SeekTargetIsNat, PositionIsInt
  <2>2. /\ SeekLeads
        /\ UNCHANGED <<filePos, af_CurrentBuf, af_SeekOffset>>
        /\ af_Offset' + af_BytesLeft' = af_Offset + af_BytesLeft
        /\ af_Offset' \in Nat /\ af_BytesLeft' \in Nat
        /\ af_Packet' \in Packets /\ af_Packet'.at = "port"
        /\ call' = "none" /\ result' = Position
    BY <1>0, <1>7, SeekInBufferLeads
  <2>4. BufferTypes'
    BY <1>0, <1>1, <2>2 DEF Types, BufferTypes
  <2>5. ReadShape'
    BY <1>0, <2>1, <2>2 DEF SeekLeads, ReadShape
  <2> QED  BY <1>0, <2>1, <2>2, <2>4, <2>5 DEF Types, FileTypes
<1>8. CASE /\ Res1 >= 0 /\ SeekTarget < MaxBuf /\ SeekTarget - Position > af_BytesLeft
           /\ SeekAhead(SeekTarget - Current)
  <2>1. SeekTarget \in Nat /\ Position \in Int
    BY <1>0, <1>8, SeekTargetIsNat, PositionIsInt
  <2>2. /\ SeekLeads
        /\ af_CurrentBuf' = 1 - af_CurrentBuf /\ af_SeekOffset' = 0
        /\ af_Offset' \in Nat /\ af_BytesLeft' \in Nat
        /\ af_Packet' \in Packets /\ af_Packet'.at = "handler"
        /\ af_Packet'.arg2 = af_CurrentBuf'
        /\ UNCHANGED filePos
        /\ call' = "none" /\ result' = Position
    BY <1>0, <1>8, SeekAheadLeads
  <2>4. BufferTypes'
    BY <1>0, <1>1, <1>2, <2>2 DEF Types, BufferTypes
  <2>5. ReadShape'
    BY <2>1, <2>2 DEF SeekLeads, ReadShape
  <2> QED  BY <1>0, <2>1, <2>2, <2>4, <2>5 DEF Types, FileTypes
<1> QED  BY <1>4, <1>5, <1>6, <1>7, <1>8, SeekCases

(* The server's own steps leave the file and its buffers to the calls. *)
LEMMA FileStays ==
  ASSUME Types, Shape, OthersOfCall
  PROVE  /\ FileTypes' /\ BufferTypes' /\ PacketTypes' /\ Shape' /\ Position' = Position
         /\ UNCHANGED <<disk, filePos, mem, af_Offset, af_BytesLeft, af_CurrentBuf>>
         /\ UNCHANGED <<af_SeekOffset, af_ReadMode, trouble, af_Packet, result>>
<1>1. /\ UNCHANGED <<disk, filePos, mem, af_Offset, af_BytesLeft, af_CurrentBuf>>
      /\ UNCHANGED <<af_SeekOffset, af_ReadMode, trouble, af_Packet, result>>
  BY DEF OthersOfCall, file, buffers, opened
<1>2. Position' = Position
  BY <1>1 DEF Position, Brought
<1>3. Shape'
  BY <1>1, <1>2 DEF Shape, ReadShape, WriteShape
<1> QED  BY <1>1, <1>2, <1>3 DEF Types, FileTypes, BufferTypes, PacketTypes

(* A transfer that ends: the file is closed. *)
LEMMA ShapeFreeData ==
  ASSUME ShapeInv, OthersOfCall, UNCHANGED <<start, sent, received>>,
         NEW r \in {"pending", "226", "426", "none"}, FreeData(r), abor' \in BOOLEAN
  PROVE  ShapeInv'
<1>0. Types /\ Shape
  BY DEF ShapeInv
<1>1. /\ call' = "CloseAsync" /\ numBytes' = 0 /\ buffer' = buffer
      /\ stage' = "closing" /\ reply' = r
  BY DEF FreeData, Begin
<1>2. CallTypes' /\ TransferTypes'
  BY <1>0, <1>1, FileStays DEF Types, CallTypes, TransferTypes, Calls
<1>3. Calling'
  BY <1>1 DEF Calling, ReadCall, WriteCall, SeekCall, CloseCall, CallOfStage, ChunkRead, Seeks
<1> QED  BY <1>0, <1>2, <1>3, FileStays DEF ShapeInv, Types

LEMMA ShapeDoFile ==
  ASSUME ShapeInv, DoFile
  PROVE  ShapeInv'
<1>0. Types
  BY DEF ShapeInv
<1>1. PICK size \in 0..MaxSize, reading \in BOOLEAN :
        /\ OpenAsync(FileOf(size), reading) /\ received' = size
        /\ IF reading
           THEN \E offset \in 0..(MaxSize + BlockSize) :
                  /\ start' = offset /\ numBytes' = offset
                  /\ call' = IF offset = 0 THEN "none" ELSE "SeekAsync_MODE_START"
           ELSE start' = size /\ call' = "none" /\ numBytes' = 0
  BY DEF DoFile
<1>2. size \in Nat /\ FileOf(size) \in Seq(Int) /\ Len(FileOf(size)) = size
  BY TransferAssumption DEF TransferAssumption, FileOf
<1>3. /\ stage' = "open" /\ sent' = <<>> /\ reply' = "pending" /\ abor' = FALSE
      /\ disk' = FileOf(size) /\ af_ReadMode' = reading /\ trouble' \in Troubles
      /\ mem' = [a \in Addresses |-> NoByte] /\ af_CurrentBuf' = 0 /\ af_SeekOffset' = 0
      /\ buffer' = <<>> /\ result' = 0
  BY <1>1 DEF DoFile, OpenAsync
<1>4. mem' \in [Addresses -> Int] /\ <<>> \in Seq(Int) /\ Len(<<>>) = 0
  BY <1>3 DEF NoByte
<1>5. /\ start' \in Nat /\ numBytes' \in Nat
      /\ call' \in {"none", "SeekAsync_MODE_START"}
      /\ ~reading => call' = "none"
  BY <1>1, <1>2, TransferAssumption, Sizes DEF TransferAssumption
<1>6. CallTypes' /\ TransferTypes'
  <2>1. abor' \in BOOLEAN
    BY <1>3
  <2> QED  BY <1>1, <1>2, <1>3, <1>4, <1>5, <2>1 DEF CallTypes, TransferTypes, Calls, Seeks
<1>7. CASE reading
  <2>1. /\ filePos' = 0 /\ af_Offset' = Buffers(1) /\ af_BytesLeft' = 0
        /\ af_Packet' = [at |-> "handler", arg2 |-> 0, res1 |-> 0]
    BY <1>1, <1>7 DEF OpenAsync
  <2>2. /\ af_Packet' \in Packets /\ af_Packet'.at = "handler" /\ af_Packet'.arg2 = 0
        /\ af_Packet'.res1 = 0
    <3>1. 0 \in -1..BufferSize
      BY Sizes
    <3> QED  BY <2>1, <3>1 DEF Packets
  <2>3. Position' = 0
    BY <1>3, <2>1, <2>2 DEF Position, Brought
  <2>4. ReadShape' /\ af_ReadMode'
    BY <1>3, <1>7, <2>1, <2>2, <2>3, BuffersAt, Sizes DEF ReadShape
  <2>5. FileTypes' /\ BufferTypes' /\ PacketTypes'
    <3>1. FileTypes'
      BY <1>2, <1>3, <2>1 DEF FileTypes
    <3>2. BufferTypes'
      BY <1>3, <1>4, <2>1, BuffersAt, Sizes DEF BufferTypes
    <3> QED  BY <2>2, <3>1, <3>2 DEF PacketTypes, Packets
  <2>6. Calling'
    <3>1. Position' + numBytes' >= 0
      <4>1. numBytes' \in Nat
        BY <1>5
      <4>2. \A p, n : p = 0 /\ n \in Nat => p + n >= 0
        OBVIOUS
      <4> QED  BY <2>3, <4>1, <4>2, Zenon
    <3> QED  BY <1>3, <1>5, <2>4, <3>1
             DEF Calling, ReadCall, WriteCall, SeekCall, CloseCall, CallOfStage, ChunkRead, Seeks
  <2> QED  BY <1>6, <2>4, <2>5, <2>6 DEF ShapeInv, Types, Shape
<1>8. CASE ~reading
  <2>1. /\ filePos' = size /\ af_Offset' = 0 /\ af_BytesLeft' = BufferSize
        /\ af_Packet' = [at |-> "none", arg2 |-> 0, res1 |-> 0]
    BY <1>1, <1>2, <1>8 DEF OpenAsync
  <2>2. af_Packet' \in Packets /\ af_Packet'.at = "none"
    <3>1. 0 \in -1..BufferSize
      BY Sizes
    <3> QED  BY <2>1, <3>1 DEF Packets
  <2>3. WriteShape' /\ ~af_ReadMode'
    BY <1>2, <1>3, <1>8, <2>1, <2>2, BuffersAt, Sizes DEF WriteShape
  <2>4. FileTypes' /\ BufferTypes' /\ PacketTypes'
    <3>1. FileTypes'
      BY <1>2, <1>3, <2>1 DEF FileTypes
    <3>2. BufferTypes'
      BY <1>3, <1>4, <2>1, BuffersAt, Sizes DEF BufferTypes
    <3> QED  BY <2>2, <3>1, <3>2 DEF PacketTypes, Packets
  <2>5. Calling'
    BY <1>3, <1>5, <1>8
    DEF Calling, ReadCall, WriteCall, SeekCall, CloseCall, CallOfStage, ChunkRead, Seeks
  <2> QED  BY <1>6, <2>3, <2>4, <2>5 DEF ShapeInv, Types, Shape
<1> QED  BY <1>7, <1>8

LEMMA ShapeWriteToData ==
  ASSUME ShapeInv, WriteToData
  PROVE  ShapeInv'
<1>0. Types /\ Shape /\ OthersOfCall /\ af_ReadMode
  BY DEF ShapeInv, WriteToData
<1>1. /\ call' = "ReadAsync" /\ numBytes' \in 1..MaxChunk /\ buffer' = <<>>
      /\ stage' = "read" /\ UNCHANGED <<start, sent, received, reply, abor>>
  BY DEF WriteToData, Begin
<1>2. numBytes' \in Int /\ numBytes' > 0 /\ <<>> \in Seq(Int) /\ Len(<<>>) = 0
  BY <1>1, TransferAssumption DEF TransferAssumption
<1>3. CallTypes' /\ TransferTypes'
  BY <1>0, <1>1, <1>2, FileStays DEF Types, CallTypes, TransferTypes, Calls
<1>4. Calling'
  <2>1. Position' >= 0 /\ af_ReadMode'
    BY <1>0, FileStays DEF Shape, ReadShape
  <2> QED  BY <1>1, <1>2, <2>1
           DEF Calling, ReadCall, WriteCall, SeekCall, CloseCall, CallOfStage, ChunkRead, Seeks
<1> QED  BY <1>0, <1>3, <1>4, FileStays DEF ShapeInv, Types

(* What the connection takes of a chunk. *)
LEMMA TakesPart ==
  ASSUME result \in Nat \ {0}, NEW n \in Takes
  PROVE  n \in 1..result
BY DEF Takes

LEMMA ShapeSend ==
  ASSUME ShapeInv, Send
  PROVE  ShapeInv'
<1>0. /\ Types /\ Shape /\ OthersOfCall /\ af_ReadMode /\ ReadShape
      /\ stage = "read" /\ call = "none" /\ result > 0
      /\ af_SeekOffset = 0 /\ result <= Position /\ result = Len(buffer)
  BY DEF ShapeInv, Send, Shape, Calling, CallOfStage, ChunkRead
<1>1. PICK n \in Takes :
        /\ sent' = sent \o SubSeq(buffer, 1, n)
        /\ IF n < result THEN Begin("SeekAsync_MODE_CURRENT", n - result, buffer)
           ELSE UNCHANGED <<call, numBytes, buffer>>
  BY DEF Send
<1>2. n \in 1..result /\ result \in Nat
  BY <1>0, TakesPart DEF Types, CallTypes
<1>3. sent' \in Seq(Int)
  <2>1. buffer \in Seq(Int) /\ sent \in Seq(Int) /\ SubSeq(buffer, 1, n) \in Seq(Int)
    BY <1>0, <1>2 DEF Types, CallTypes, TransferTypes
  <2> QED  BY <1>1, <2>1, ConcatProperties, ZenonT(30)
<1>4. stage' = "open" /\ UNCHANGED <<start, received, reply, abor, buffer>>
  BY <1>1 DEF Send, Begin
<1>5. \/ n < result /\ call' = "SeekAsync_MODE_CURRENT" /\ numBytes' = n - result
      \/ n = result /\ UNCHANGED <<call, numBytes>>
  BY <1>1, <1>2 DEF Begin
<1>6. CallTypes' /\ TransferTypes'
  <2>1. TransferTypes'
    BY <1>0, <1>3, <1>4 DEF Types, TransferTypes
  <2>2. numBytes' \in Int /\ call' \in Calls
    BY <1>0, <1>2, <1>5 DEF Types, CallTypes, Calls, Seeks
  <2>3. buffer' \in Seq(Int) /\ result' \in Int
    BY <1>0, <1>4, FileStays DEF Types, CallTypes
  <2> QED  BY <2>1, <2>2, <2>3 DEF CallTypes
<1>7. Calling'
  <2>1. Position' = Position /\ af_SeekOffset' = 0 /\ af_ReadMode'
    BY <1>0, FileStays
  <2>2. call' = "SeekAsync_MODE_CURRENT" => Position' + numBytes' >= 0
    BY <1>0, <1>2, <1>5, <2>1, PositionIsInt
  <2> QED  BY <1>0, <1>4, <1>5, <2>1, <2>2
           DEF Calling, ReadCall, WriteCall, SeekCall, CloseCall, CallOfStage, ChunkRead, Seeks
<1> QED  BY <1>0, <1>6, <1>7, FileStays DEF ShapeInv, Types

LEMMA ShapeReadFromData ==
  ASSUME ShapeInv, ReadFromData
  PROVE  ShapeInv'
<1>0. Types /\ Shape /\ OthersOfCall /\ ~af_ReadMode
  BY DEF ShapeInv, ReadFromData
<1>1. PICK len \in 1..MaxChunk :
        /\ Begin("WriteAsync", len, Between(received, received + len))
        /\ received' = received + len
  BY DEF ReadFromData
<1>2. len \in Nat /\ received \in Nat
  BY <1>0, <1>1, TransferAssumption DEF TransferAssumption, Types, TransferTypes
<1>3. /\ call' = "WriteAsync" /\ numBytes' = len /\ buffer' = Between(received, received + len)
      /\ stage' = "write" /\ UNCHANGED <<start, sent, reply, abor>>
  BY <1>1 DEF ReadFromData, Begin
<1>4. buffer' \in Seq(Int) /\ Len(buffer') = len
  <2>1. received + len \in Nat /\ received <= received + len
        /\ (received + len) - received = len
    BY <1>2
  <2> QED  BY <1>2, <1>3, <2>1, BetweenProperties
<1>5. CallTypes' /\ TransferTypes'
  BY <1>0, <1>1, <1>2, <1>3, <1>4, FileStays DEF Types, CallTypes, TransferTypes, Calls
<1>6. Calling'
  BY <1>0, <1>3, <1>4, FileStays
  DEF Calling, ReadCall, WriteCall, SeekCall, CloseCall, CallOfStage, ChunkRead, Seeks
<1> QED  BY <1>0, <1>5, <1>6, FileStays DEF ShapeInv, Types

LEMMA ShapeWriteReturns ==
  ASSUME ShapeInv, WriteReturns
  PROVE  ShapeInv'
<1>0. /\ Types /\ Shape /\ OthersOfCall /\ call = "none" /\ stage = "write" /\ ~af_ReadMode
      /\ UNCHANGED <<start, sent, received, abor>> /\ abor' \in BOOLEAN
  BY DEF ShapeInv, Types, TransferTypes, WriteReturns, Calling, CallOfStage
<1>1. CASE result = Failed
  BY <1>0, <1>1, ShapeFreeData DEF WriteReturns
<1>2. CASE result # Failed
  <2>1. stage' = "open" /\ UNCHANGED <<call, numBytes, buffer, reply, abor>>
    BY <1>2 DEF WriteReturns
  <2>2. CallTypes' /\ TransferTypes'
    BY <1>0, <2>1, FileStays DEF Types, CallTypes, TransferTypes
  <2>3. Calling'
    BY <1>0, <2>1
    DEF Calling, ReadCall, WriteCall, SeekCall, CloseCall, CallOfStage, ChunkRead, Seeks
  <2> QED  BY <1>0, <2>2, <2>3, FileStays DEF ShapeInv, Types
<1> QED  BY <1>1, <1>2

LEMMA ShapeClosed ==
  ASSUME ShapeInv, Closed
  PROVE  ShapeInv'
<1>0. Types /\ Shape
  BY DEF ShapeInv
<1>1. /\ UNCHANGED <<file, buffers, opened, af_Packet, result>>
      /\ UNCHANGED <<call, numBytes, buffer, start, sent, received, reply, abor>>
      /\ call = "none" /\ stage' = "closed"
  BY DEF Closed, asyncVars
<1>2. OthersOfCall
  BY <1>1 DEF OthersOfCall
<1>3. CallTypes' /\ TransferTypes'
  BY <1>0, <1>1, FileStays, <1>2 DEF Types, CallTypes, TransferTypes
<1>4. Calling'
  BY <1>1 DEF Calling, ReadCall, WriteCall, SeekCall, CloseCall, CallOfStage, ChunkRead, Seeks
<1> QED  BY <1>0, <1>2, <1>3, <1>4, FileStays DEF ShapeInv, Types

LEMMA ShapeStays ==
  ASSUME ShapeInv, UNCHANGED vars
  PROVE  ShapeInv'
<1>1. /\ UNCHANGED <<file, buffers, opened, af_Packet, result>>
      /\ UNCHANGED <<call, numBytes, buffer, stage, start, sent, received, reply, abor>>
  BY DEF vars, asyncVars, transferVars
<1>2. OthersOfCall /\ Types /\ Shape
  BY <1>1 DEF OthersOfCall, ShapeInv
<1>3. CallTypes' /\ TransferTypes'
  BY <1>1, <1>2, FileStays DEF Types, CallTypes, TransferTypes
<1>4. Calling'
  BY <1>1, <1>2, FileStays, CallingGoesOn
<1> QED  BY <1>2, <1>3, <1>4, FileStays DEF ShapeInv, Types

LEMMA ShapeNext == ShapeInv /\ [Next]_vars => ShapeInv'
<1> SUFFICES ASSUME ShapeInv, [Next]_vars PROVE ShapeInv'
  OBVIOUS
<1>0. abor \in BOOLEAN
  BY DEF ShapeInv, Types, TransferTypes
<1>1. CASE Handler /\ TransferSame
  BY <1>1, ShapeHandlerReads, ShapeHandlerWrites, ShapeHandlerFails DEF Handler
<1>2. CASE Progress /\ TransferSame
  BY <1>2, ShapeWaitPacketRetries, ShapeRefill, ShapeReadStops, ShapeReadServed, ShapeFlush,
     ShapeWriteServed, ShapeSeekAsync, ShapeClose DEF Progress
<1>3. CASE DoFile
  BY <1>3, ShapeDoFile
<1>4. CASE WriteToData \/ Send \/ ReadFromData \/ WriteReturns \/ Closed
  BY <1>4, ShapeWriteToData, ShapeSend, ShapeReadFromData, ShapeWriteReturns, ShapeClosed
<1>5. CASE SendEnds
  BY <1>0, <1>5, ShapeFreeData DEF SendEnds
<1>6. CASE RecvEnds \/ CmdAbor \/ Abort
  BY <1>0, <1>6, ShapeFreeData DEF RecvEnds, CmdAbor, Abort
<1>7. CASE UNCHANGED vars
  BY <1>7, ShapeStays
<1> QED  BY <1>1, <1>2, <1>3, <1>4, <1>5, <1>6, <1>7 DEF Next, Server

(* Type correctness: what TypeOK adds to Types are the bounds of the two
   counters, which follow from the shape. *)
THEOREM TypeCorrect == Spec => []TypeOK
<1>1. ShapeInv => TypeOK
  <2> SUFFICES ASSUME ShapeInv PROVE TypeOK
    OBVIOUS
  <2>1. Types /\ Shape
    BY DEF ShapeInv
  <2>2. /\ af_Offset \in Nat /\ af_BytesLeft \in Nat
        /\ \A b \in {af_CurrentBuf, 1 - af_CurrentBuf} :
             Buffers(b) \in Nat /\ Buffers(b) + BufferSize <= 2 * BufferSize
    BY <2>1, BuffersAt DEF Types, BufferTypes
  <2>3. \E b \in {af_CurrentBuf, 1 - af_CurrentBuf} :
          Buffers(b) <= af_Offset /\ af_Offset + af_BytesLeft <= Buffers(b) + BufferSize
    <3>1. CASE af_ReadMode
      BY <2>1, <3>1 DEF Shape, ReadShape
    <3>2. CASE ~af_ReadMode
      BY <2>1, <3>2, <2>2, Sizes DEF Shape, WriteShape
    <3> QED  BY <3>1, <3>2
  <2>4. af_Offset \in 0..(2 * BufferSize) /\ af_BytesLeft \in 0..BufferSize
    BY <2>2, <2>3, Sizes
  <2> QED  BY <2>1, <2>4
           DEF TypeOK, Types, FileTypes, BufferTypes, PacketTypes, CallTypes, TransferTypes
<1> QED  BY <1>1, ShapeInit, ShapeNext, PTL DEF Spec

(* The file system and the server never use the same buffer. *)
THEOREM BuffersStayApart == Spec => []BuffersApart
<1>1. ShapeInv => BuffersApart
  <2> SUFFICES ASSUME ShapeInv, ~Returned PROVE BuffersApart
    BY DEF BuffersApart
  <2>1. Types /\ Shape /\ af_CurrentBuf \in {0, 1} /\ af_Offset \in Nat /\ af_BytesLeft \in Nat
    BY DEF ShapeInv, Types, BufferTypes
  <2>2. CASE af_ReadMode
    <3>1. /\ af_Packet.arg2 = af_CurrentBuf
          /\ Buffers(1 - af_CurrentBuf) <= af_Offset
          /\ af_Offset + af_BytesLeft <= Buffers(1 - af_CurrentBuf) + BufferSize
      BY <2>1, <2>2 DEF Shape, ReadShape
    <3>2. \A x \in af_Offset..(af_Offset + af_BytesLeft - 1) :
            ~(x \in Buffers(af_CurrentBuf)..(Buffers(af_CurrentBuf) + BufferSize - 1))
      BY <2>1, <3>1, BuffersAt, Sizes
    <3> QED  BY <2>2, <3>1, <3>2 DEF BuffersApart
  <2>3. CASE ~af_ReadMode
    <3>1. af_Packet.arg2 = 1 - af_CurrentBuf
      BY <2>1, <2>3 DEF Shape, WriteShape
    <3>2. \A x \in Buffers(af_CurrentBuf)..(Buffers(af_CurrentBuf) + BufferSize - 1) :
            ~(x \in Buffers(1 - af_CurrentBuf)..(Buffers(1 - af_CurrentBuf) + BufferSize - 1))
      BY <2>1, BuffersAt, Sizes
    <3> QED  BY <2>3, <3>1, <3>2 DEF BuffersApart
  <2> QED  BY <2>2, <2>3
<1> QED  BY <1>1, ShapeInit, ShapeNext, PTL DEF Spec

-----------------------------------------------------------------------------
(***************************************************************************)
(* What the bytes are, for every size of the buffers, blocks, files and    *)
(* chunks: a download sends those of the file in order, an upload leaves   *)
(* those that were received on the disk.                                   *)
(*                                                                         *)
(* The invariant says of each place that holds bytes - the current buffer, *)
(* the one of the packet, the chunk in the caller's buffer - which part of *)
(* the file they are, and it equates the position of the file layer with   *)
(* what the peer has.  At the end, the transfer is shown to implement      *)
(* module Stream.                                                          *)
(***************************************************************************)

(* A connection that takes only a part of a chunk makes write_to_data seek
   back; that goes wrong at the end of a file and when a packet fails. *)
Steady ==
  \A T \in Troubles : "partial_end" \notin T /\ ("partial" \in T => "read" \notin T)

Numbered == \A i \in 1..Len(disk) : disk[i] = i - 1

-----------------------------------------------------------------------------
(* A download *)

Downloading == af_ReadMode /\ stage \in {"open", "read"}

(* What the peer has, and what is on its way to it; where the caller is, or
   will be after the seek that it is in. *)
Expected == start + Len(sent) + (IF stage = "read" THEN Len(buffer) ELSE 0)
Here ==
  IF call = "SeekAsync_MODE_START" THEN numBytes
  ELSE IF call = "SeekAsync_MODE_CURRENT" THEN Position + numBytes ELSE Position

(* The bytes of the current buffer, those before af_Offset included: a seek
   back takes them again.  After the end or an error they are not where
   af_Offset says. *)
Window ==
  af_Packet.at # "none" =>
    \A a \in Addresses :
      Buffers(1 - af_CurrentBuf) <= a /\ a < af_Offset + af_BytesLeft
      => mem[a] = Position + (a - af_Offset)

(* The bytes that the packet brought. *)
ReadAhead ==
  \A a \in Addresses :
    Buffers(af_CurrentBuf) <= a /\ a < Buffers(af_CurrentBuf) + Brought
    => mem[a] = filePos - Brought + (a - Buffers(af_CurrentBuf))
ShortRead == Brought \in 1..(BufferSize - 1) => filePos = Len(disk)

Chunk ==
  stage = "read" =>
    \A i \in 1..Len(buffer) : buffer[i] = start + Len(sent) + i - 1

ReadTrouble ==
  /\ call = "SeekAsync_MODE_START" => af_BytesLeft = 0
  /\ call = "SeekAsync_MODE_CURRENT" => "partial" \in trouble
  /\ af_Packet.at # "none" /\ Res1 < 0 => "read" \in trouble
  /\ af_Packet.at = "none" => af_BytesLeft = 0 /\ Res1 <= 0 /\ call \notin Seeks
  /\ stage = "read" /\ call = "none" /\ af_Packet.at = "none" /\ Res1 < 0 => result = Failed

(* Nothing more comes: after an error, or behind the end of the file. *)
Broke == af_Packet.at = "none" /\ Res1 < 0
Behind ==
  /\ Here >= Len(disk) /\ Expected >= Len(disk)
  /\ af_SeekOffset = 0 /\ call \notin Seeks
  /\ stage = "read" => buffer = <<>>
InStep == Broke \/ Here = Expected \/ Behind

ReadData ==
  Downloading => Window /\ ReadAhead /\ ShortRead /\ Chunk /\ ReadTrouble /\ InStep

-----------------------------------------------------------------------------
(* An upload *)

Uploading == ~af_ReadMode /\ (stage \in {"open", "write"} \/ call = "CloseAsync")

(* Bytes in the packet's buffer, which is written or tried again; in the
   current one; still with the caller. *)
Sending == IF ~Returned \/ (af_Packet.at = "port" /\ Res1 < 0) THEN BufferSize ELSE 0
Collected == af_Offset - Buffers(af_CurrentBuf)
Waiting == IF call = "WriteAsync" THEN Len(buffer) ELSE 0

PacketData ==
  Sending # 0 =>
    \A a \in Addresses :
      Buffers(1 - af_CurrentBuf) <= a /\ a < Buffers(1 - af_CurrentBuf) + BufferSize
      => mem[a] = Len(disk) + (a - Buffers(1 - af_CurrentBuf))
CollectedData ==
  \A a \in Addresses :
    Buffers(af_CurrentBuf) <= a /\ a < af_Offset
    => mem[a] = Len(disk) + Sending + (a - Buffers(af_CurrentBuf))
CallerData ==
  call = "WriteAsync" =>
    \A i \in 1..Len(buffer) : buffer[i] = received - Len(buffer) + i - 1
AllThere == received = Len(disk) + Sending + Collected + Waiting

HealthyDone ==
  ~af_ReadMode /\ "write" \notin trouble /\ stage \in {"closing", "closed"}
  /\ call = "none" /\ reply = "226" => Len(disk) = received

(* After an error that was not tried again, bytes are missing, and nothing
   more is written. *)
WriteData ==
  /\ ~af_ReadMode => Len(disk) <= received
  /\ Uploading /\ ~Broke => PacketData /\ CollectedData /\ CallerData /\ AllThere
  /\ ~af_ReadMode /\ "write" \notin trouble => Res1 >= 0
  /\ ~af_ReadMode /\ ~Uploading => af_Packet.at = "none"
  /\ HealthyDone

UploadInv == Numbered /\ WriteData
DownloadInv == SentInOrder /\ ReadData

USE DEF Returned, Res1, Failed

(* Where the two buffers are. *)
LEMMA Layout ==
  ASSUME ShapeInv
  PROVE  /\ Types /\ Shape /\ BufferSize \in Nat \ {0} /\ af_CurrentBuf \in {0, 1}
         /\ Buffers(af_CurrentBuf) \in Nat /\ Buffers(1 - af_CurrentBuf) \in Nat
         /\ Buffers(af_CurrentBuf) + BufferSize <= 2 * BufferSize
         /\ Buffers(1 - af_CurrentBuf) + BufferSize <= 2 * BufferSize
         /\ \/ Buffers(af_CurrentBuf) + BufferSize <= Buffers(1 - af_CurrentBuf)
            \/ Buffers(1 - af_CurrentBuf) + BufferSize <= Buffers(af_CurrentBuf)
         /\ af_Packet \in Packets
<1>1. Types /\ Shape /\ af_CurrentBuf \in {0, 1} /\ af_Packet \in Packets
  BY DEF ShapeInv, Types, BufferTypes, PacketTypes, Packets
<1> QED  BY <1>1, Sizes, BuffersAt

-----------------------------------------------------------------------------
(* Uploads *)

LEMMA UploadNumbers ==
  ASSUME ShapeInv, ~af_ReadMode
  PROVE  /\ Len(disk) \in Nat /\ filePos = Len(disk) /\ received \in Nat
         /\ af_Offset \in Nat /\ af_BytesLeft \in Nat
         /\ Buffers(af_CurrentBuf) <= af_Offset
         /\ af_Offset + af_BytesLeft = Buffers(af_CurrentBuf) + BufferSize
         /\ Collected \in 0..BufferSize /\ Collected = BufferSize - af_BytesLeft
         /\ Sending \in {0, BufferSize} /\ Waiting \in Nat /\ Res1 \in Int
         /\ ~Returned => af_Packet.arg2 = 1 - af_CurrentBuf
<1>1. Types /\ WriteShape
  BY DEF ShapeInv, Shape
<1>2. /\ Len(disk) \in Nat /\ received \in Nat /\ Len(buffer) \in Nat
      /\ af_Offset \in Nat /\ af_BytesLeft \in Nat /\ Res1 \in Int
  BY <1>1, Numbers DEF Types, TransferTypes, CallTypes
<1>3. /\ filePos = Len(disk) /\ Buffers(af_CurrentBuf) <= af_Offset
      /\ af_Offset + af_BytesLeft = Buffers(af_CurrentBuf) + BufferSize
      /\ ~Returned => af_Packet.arg2 = 1 - af_CurrentBuf
  BY <1>1 DEF WriteShape
<1>4. BufferSize \in Nat /\ Buffers(af_CurrentBuf) \in Nat
  BY Layout
<1>5. Collected \in 0..BufferSize /\ Collected = BufferSize - af_BytesLeft
  BY <1>2, <1>3, <1>4 DEF Collected
<1> QED  BY <1>2, <1>3, <1>5 DEF Sending, Waiting

(* The places that hold bytes, and their bytes, stay as they are. *)
LEMMA UploadStays ==
  ASSUME UploadInv, ~af_ReadMode, Uploading,
         UNCHANGED <<disk, mem, af_Offset, af_CurrentBuf, received, trouble, af_ReadMode>>,
         Broke => Broke', Uploading', Broke' \/ Sending' = Sending,
         UNCHANGED <<call, buffer>> \/ (Waiting = 0 /\ call' # "WriteAsync"),
         "write" \notin trouble => Res1' >= 0, call' # "none" \/ stage' \in {"open", "write"}
  PROVE  UploadInv'
<1>1. Numbered'
  BY DEF UploadInv, Numbered
<1>2. ~Broke' => PacketData' /\ CollectedData' /\ CallerData'
  BY DEF UploadInv, WriteData, PacketData, CollectedData, CallerData
<1>3. ~Broke' => AllThere'
  <2>1. Waiting' = Waiting
    BY DEF Waiting
  <2> QED  BY <2>1 DEF UploadInv, WriteData, AllThere, Collected
<1>4. HealthyDone'
  BY DEF HealthyDone
<1> QED  BY <1>1, <1>2, <1>3, <1>4 DEF UploadInv, WriteData

(* Bytes appended to the file that are the next ones. *)
LEMMA Appended ==
  ASSUME ShapeInv, Numbered, ~af_ReadMode, NEW at \in Nat, NEW n \in Nat,
         at + n <= 2 * BufferSize,
         \A a \in Addresses : at <= a /\ a < at + n => mem[a] = Len(disk) + (a - at),
         disk' = Written(Bytes(at, n))
  PROVE  Numbered' /\ Len(disk') = Len(disk) + n /\ Len(Bytes(at, n)) = n
<1>1. /\ mem \in [Addresses -> Int] /\ disk \in Seq(Int) /\ filePos = Len(disk)
      /\ Len(disk) \in Nat /\ BufferSize \in Nat
  BY UploadNumbers, Layout DEF ShapeInv, Types, BufferTypes, FileTypes
<1> DEFINE s == Bytes(at, n)
<1>2. s \in Seq(Int) /\ Len(s) = n /\ \A i \in 1..n : s[i] = mem[at + i - 1]
  BY <1>1, BytesProperties
<1>3. disk' = Written(s)
  OBVIOUS
<1> HIDE DEF s
<1>4. /\ Len(disk') = Len(disk) + n
      /\ \A i \in 1..(Len(disk) + n) :
           disk'[i] = IF i <= Len(disk) THEN disk[i] ELSE s[i - Len(disk)]
  BY <1>1, <1>2, <1>3, WrittenProperties
<1>5. ASSUME NEW i \in 1..(Len(disk) + n)
      PROVE  disk'[i] = i - 1
  <2>1. CASE i <= Len(disk)
    BY <1>1, <1>4, <2>1 DEF Numbered
  <2>2. CASE i > Len(disk)
    <3>1. i - Len(disk) \in 1..n /\ at + (i - Len(disk)) - 1 \in Addresses
      BY <1>1, <2>2 DEF Addresses
    <3>2. disk'[i] = mem[at + (i - Len(disk)) - 1]
      BY <1>1, <1>2, <1>4, <2>2, <3>1
    <3> QED  BY <1>1, <3>1, <3>2
  <2> QED  BY <1>1, <2>1, <2>2
<1> QED  BY <1>2, <1>4, <1>5 DEF Numbered, s

LEMMA UploadHandlerWrites ==
  ASSUME ShapeInv, ShapeInv', UploadInv, HandlerWrites, TransferSame
  PROVE  UploadInv'
<1>1. /\ ~af_ReadMode /\ af_Packet.at = "handler" /\ ~Broke
      /\ disk' = Written(Bytes(Buffers(af_Packet.arg2), BufferSize))
      /\ af_Packet' = [af_Packet EXCEPT !.at = "port", !.res1 = BufferSize]
      /\ UNCHANGED <<mem, af_Offset, af_BytesLeft, af_CurrentBuf, af_ReadMode, trouble>>
      /\ UNCHANGED <<call, buffer, stage, received, reply, abor>>
  BY DEF HandlerWrites, Broke, buffers, opened, TransferSame, transferVars
<1>2. Uploading /\ Uploading'
  BY <1>1 DEF UploadInv, WriteData, Uploading
<1>3. PacketData /\ CollectedData /\ CallerData /\ AllThere /\ Sending = BufferSize
  BY <1>1, <1>2 DEF UploadInv, WriteData, Sending
<1>4. af_Packet.arg2 = 1 - af_CurrentBuf
  BY <1>1, UploadNumbers
<1>5. Numbered' /\ Len(disk') = Len(disk) + BufferSize
  <2>1. \A a \in Addresses :
          Buffers(1 - af_CurrentBuf) <= a /\ a < Buffers(1 - af_CurrentBuf) + BufferSize
          => mem[a] = Len(disk) + (a - Buffers(1 - af_CurrentBuf))
    BY <1>3, Layout DEF PacketData
  <2> QED  BY <1>1, <1>4, <2>1, Layout, Appended DEF UploadInv
<1>6. af_Packet'.at = "port" /\ af_Packet'.res1 = BufferSize
  <2>1. BufferSize \in -1..BufferSize
    BY Sizes
  <2> QED  BY <1>1, <2>1, Layout, AnsweredPacket
<1>7. Sending' = 0 /\ ~Broke' /\ Res1' >= 0
  BY <1>6, Layout DEF Sending, Broke
<1>8. CollectedData'
  <2> SUFFICES ASSUME NEW a \in Addresses, Buffers(af_CurrentBuf) <= a, a < af_Offset
               PROVE  mem[a] = Len(disk') + 0 + (a - Buffers(af_CurrentBuf))
    BY <1>1, <1>7 DEF CollectedData
  <2>1. mem[a] = Len(disk) + BufferSize + (a - Buffers(af_CurrentBuf))
    BY <1>3 DEF CollectedData
  <2>2. a \in Int /\ Buffers(af_CurrentBuf) \in Int /\ Len(disk) \in Int /\ BufferSize \in Int
    BY <1>1, Layout, UploadNumbers DEF Addresses
  <2> QED  BY <1>5, <2>1, <2>2
<1>9. PacketData' /\ CallerData'
  BY <1>1, <1>3, <1>7 DEF PacketData, CallerData
<1>10. Collected' = Collected /\ Waiting' = Waiting
  BY <1>1 DEF Collected, Waiting
<1>11. AllThere' /\ Len(disk') <= received
  <2>1. received = Len(disk) + BufferSize + Collected + Waiting
    BY <1>3 DEF AllThere
  <2>2. Len(disk) \in Nat /\ BufferSize \in Nat /\ Collected \in Nat /\ Waiting \in Nat
    BY <1>1, UploadNumbers, Layout
  <2>3. received = Len(disk') + 0 + Collected + Waiting /\ Len(disk') <= received
    BY <1>5, <2>1, <2>2
  <2> QED  BY <1>1, <1>7, <1>10, <2>3 DEF AllThere
<1>12. HealthyDone'
  BY <1>1, <1>2 DEF HealthyDone, Uploading
<1> QED  BY <1>1, <1>2, <1>5, <1>7, <1>8, <1>9, <1>11, <1>12 DEF UploadInv, WriteData

LEMMA UploadPacket ==
  ASSUME ShapeInv, UploadInv, ~af_ReadMode, HandlerFails \/ WaitPacketRetries, TransferSame
  PROVE  UploadInv'
<1>1. /\ af_Packet.at # "none" /\ (af_Packet.at = "handler" \/ Res1 = -1)
      /\ UNCHANGED <<disk, mem, af_Offset, af_CurrentBuf, af_ReadMode, trouble>>
      /\ UNCHANGED <<call, buffer, stage, received, reply, abor>>
  BY DEF HandlerFails, WaitPacketRetries, file, buffers, opened, TransferSame, transferVars
<1>2. Uploading /\ Uploading'
  BY <1>1 DEF UploadInv, WriteData, Uploading
<1>3. /\ af_Packet' \in Packets /\ af_Packet'.at # "none"
      /\ af_Packet'.res1 = -1 /\ "write" \in trouble
  <2>1. CASE HandlerFails
    <3>1. -1 \in -1..BufferSize
      BY Layout
    <3> QED  BY <2>1, <3>1, AnsweredPacket, Layout DEF HandlerFails
  <2>2. CASE WaitPacketRetries
    <3>1. PendingBuffer \in {0, 1}
      BY Layout DEF PendingBuffer
    <3>2. af_Packet' = Sent(PendingBuffer) /\ Res1 = -1
      BY <2>2 DEF WaitPacketRetries
    <3>3. "write" \in trouble
      BY <3>2 DEF UploadInv, WriteData
    <3> QED  BY <3>1, <3>2, <3>3, SentPacket, Layout
  <2> QED  BY <2>1, <2>2
<1>4. Sending = BufferSize /\ Sending' = BufferSize /\ ~Broke /\ ~Broke'
  BY <1>1, <1>3, PacketFields, Layout DEF Sending, Broke, Packets
<1>5. call' # "none" \/ stage' \in {"open", "write"}
  BY <1>2 DEF Uploading
<1> QED  BY <1>1, <1>2, <1>3, <1>4, <1>5, UploadStays

(* Bytes of the caller put behind those in the current buffer. *)
LEMMA Gathered ==
  ASSUME ShapeInv, ~af_ReadMode, call = "WriteAsync", CollectedData, CallerData, AllThere,
         NEW s \in Seq(Int), Len(s) <= af_BytesLeft, Len(s) <= Len(buffer),
         \A i \in 1..Len(s) : s[i] = buffer[i], mem' = Filled(af_Offset, s)
  PROVE  /\ \A a \in Addresses :
              Buffers(af_CurrentBuf) <= a /\ a < af_Offset + Len(s)
              => mem'[a] = Len(disk) + Sending + (a - Buffers(af_CurrentBuf))
         /\ \A a \in Addresses :
              Buffers(1 - af_CurrentBuf) <= a /\ a < Buffers(1 - af_CurrentBuf) + BufferSize
              => mem'[a] = mem[a]
<1>1. /\ mem \in [Addresses -> Int] /\ af_Offset \in Nat /\ af_BytesLeft \in Nat
      /\ Len(disk) \in Nat /\ received \in Nat /\ Len(buffer) \in Nat /\ Len(s) \in Nat
      /\ Buffers(af_CurrentBuf) \in Nat /\ Buffers(1 - af_CurrentBuf) \in Nat
      /\ BufferSize \in Nat /\ Sending \in Nat /\ Addresses \subseteq Int
  <2>1. mem \in [Addresses -> Int] /\ Len(buffer) \in Nat
    BY DEF ShapeInv, Types, BufferTypes, CallTypes
  <2>2. Sending \in Nat /\ BufferSize \in Nat
    BY UploadNumbers, Layout
  <2>3. Addresses \subseteq Int
    BY <2>2 DEF Addresses
  <2>4. /\ af_Offset \in Nat /\ af_BytesLeft \in Nat
        /\ Len(disk) \in Nat /\ received \in Nat
    BY UploadNumbers
  <2>5. Buffers(af_CurrentBuf) \in Nat /\ Buffers(1 - af_CurrentBuf) \in Nat
    BY Layout
  <2>6. Len(s) \in Nat
    OBVIOUS
  <2> QED  BY <2>1, <2>2, <2>3, <2>4, <2>5, <2>6
<1>2. /\ Buffers(af_CurrentBuf) <= af_Offset
      /\ af_Offset + af_BytesLeft = Buffers(af_CurrentBuf) + BufferSize
      /\ \/ Buffers(af_CurrentBuf) + BufferSize <= Buffers(1 - af_CurrentBuf)
         \/ Buffers(1 - af_CurrentBuf) + BufferSize <= Buffers(af_CurrentBuf)
  BY UploadNumbers, Layout
<1>3. \A a \in Addresses :
        mem'[a] = IF af_Offset <= a /\ a < af_Offset + Len(s)
                  THEN s[a - af_Offset + 1] ELSE mem[a]
  BY <1>1, FilledProperties
<1>4. received = Len(disk) + Sending + (af_Offset - Buffers(af_CurrentBuf)) + Len(buffer)
  BY DEF AllThere, Collected, Waiting
<1>5. ASSUME NEW a \in Addresses, Buffers(af_CurrentBuf) <= a, a < af_Offset + Len(s)
      PROVE  mem'[a] = Len(disk) + Sending + (a - Buffers(af_CurrentBuf))
  <2>1. CASE a < af_Offset
    <3>1. mem'[a] = mem[a]
      BY <1>1, <1>3, <2>1
    <3> QED  BY <1>5, <2>1, <3>1 DEF CollectedData
  <2>2. CASE af_Offset <= a
    <3> DEFINE i == a - af_Offset + 1
    <3>1. i \in 1..Len(s) /\ i \in 1..Len(buffer)
      BY <1>1, <1>5, <2>2
    <3>2. mem'[a] = s[i]
      BY <1>3, <1>5, <2>2
    <3>3. mem'[a] = received - Len(buffer) + i - 1
      BY <3>1, <3>2 DEF CallerData
    <3>4. received - Len(buffer) = Len(disk) + Sending + (af_Offset - Buffers(af_CurrentBuf))
      BY <1>1, <1>4
    <3>5. \A d, o, b, x \in Int : d + (o - b) + (x - o + 1) - 1 = d + (x - b)
      OBVIOUS
    <3>6. /\ Len(disk) + Sending \in Int /\ a \in Int
          /\ af_Offset \in Int /\ Buffers(af_CurrentBuf) \in Int
      BY <1>1
    <3>7. mem'[a] = Len(disk) + Sending + (af_Offset - Buffers(af_CurrentBuf)) + i - 1
      BY <3>3, <3>4
    <3> QED  BY <3>5, <3>6, <3>7
  <2> QED  BY <1>1, <2>1, <2>2
<1>6. ASSUME NEW a \in Addresses,
             Buffers(1 - af_CurrentBuf) <= a, a < Buffers(1 - af_CurrentBuf) + BufferSize
      PROVE  mem'[a] = mem[a]
  <2>1. ~(af_Offset <= a /\ a < af_Offset + Len(s))
    BY <1>1, <1>2, <1>6
  <2> QED  BY <1>3, <2>1
<1> QED  BY <1>5, <1>6

LEMMA UploadFlush ==
  ASSUME ShapeInv, UploadInv, Flush, TransferSame
  PROVE  UploadInv'
<1> DEFINE s == SubSeq(buffer, 1, af_BytesLeft)
<1>1. /\ stage = "write" /\ ~af_ReadMode /\ numBytes = Len(buffer) /\ call = "WriteAsync"
      /\ af_Packet.at # "handler" /\ numBytes > af_BytesLeft /\ mem' = Filled(af_Offset, s)
      /\ UNCHANGED <<disk, af_ReadMode, trouble, stage, received, reply, abor>>
  BY DEF ShapeInv, Calling, WriteCall, Flush, file, opened, TransferSame, transferVars
<1>2. Uploading /\ Uploading' /\ HealthyDone' /\ Numbered' /\ Len(disk) <= received
  BY <1>1 DEF Uploading, HealthyDone, UploadInv, WriteData, Numbered
<1>3. CASE Res1 < 0
  <2>1. af_Packet' = [af_Packet EXCEPT !.at = "none"]
    BY <1>3 DEF Flush, Taken
  <2>2. af_Packet'.at = "none" /\ af_Packet'.res1 = Res1
    BY <2>1, Layout, MarkedPacket
  <2>3. Broke' /\ "write" \in trouble
    BY <1>1, <1>3, <2>2, UploadNumbers DEF Broke, UploadInv, WriteData
  <2> QED  BY <1>1, <1>2, <2>3 DEF UploadInv, WriteData
<1>4. CASE ~(Res1 < 0)
  <2>1. /\ buffer' = SubSeq(buffer, af_BytesLeft + 1, Len(buffer))
        /\ af_Packet' = Sent(af_CurrentBuf) /\ af_CurrentBuf' = 1 - af_CurrentBuf
        /\ af_Offset' = Buffers(1 - af_CurrentBuf) /\ call' = "WriteAsync"
    BY <1>1, <1>4 DEF Flush, Goes
  <2>2. /\ af_Packet'.at = "handler" /\ af_Packet'.res1 = Res1
        /\ 1 - af_CurrentBuf' = af_CurrentBuf
    BY <2>1, Layout, SentPacket
  <2>3. ~Broke /\ ~Broke' /\ Sending = 0 /\ Sending' = BufferSize
        /\ ("write" \notin trouble => Res1' >= 0)
    BY <1>1, <1>4, <2>2, UploadNumbers DEF Broke, Sending
  <2>4. CollectedData /\ CallerData /\ AllThere
    BY <1>2, <2>3 DEF UploadInv, WriteData
  <2>5. /\ buffer \in Seq(Int) /\ Len(buffer) \in Nat /\ af_BytesLeft \in Nat
        /\ af_BytesLeft <= Len(buffer) /\ received \in Nat /\ Len(disk) \in Nat
        /\ BufferSize \in Nat /\ af_Offset \in Nat
    BY <1>1, UploadNumbers, Layout DEF ShapeInv, Types, CallTypes
  <2>6. s \in Seq(Int) /\ Len(s) = af_BytesLeft /\ \A i \in 1..Len(s) : s[i] = buffer[i]
    BY <2>5
  <2>7. /\ Len(buffer') = Len(buffer) - af_BytesLeft
        /\ \A i \in 1..Len(buffer') : buffer'[i] = buffer[af_BytesLeft + i]
    BY <2>1, <2>5
  <2> HIDE DEF s
  <2>8. af_Offset + af_BytesLeft = Buffers(af_CurrentBuf) + BufferSize
    BY <1>1, UploadNumbers
  <2>9. PacketData'
    <3>1. \A a \in Addresses :
            Buffers(af_CurrentBuf) <= a /\ a < Buffers(af_CurrentBuf) + BufferSize
            => mem'[a] = Len(disk) + 0 + (a - Buffers(af_CurrentBuf))
      BY <1>1, <2>3, <2>4, <2>5, <2>6, <2>8, Gathered
    <3>2. \A x, y : x \in Nat => x + 0 + y = x + y
      OBVIOUS
    <3> QED  BY <1>1, <2>2, <2>3, <2>5, <3>1, <3>2 DEF PacketData
  <2>10. CollectedData' /\ Collected' = 0
    <3>1. Buffers(1 - af_CurrentBuf) \in Nat
      BY Layout
    <3> QED  BY <2>1, <3>1 DEF CollectedData, Collected, Addresses
  <2>11. CallerData'
    <3> SUFFICES ASSUME NEW i \in 1..Len(buffer')
                 PROVE  buffer'[i] = received - Len(buffer') + i - 1
      BY <1>1 DEF CallerData
    <3>1. af_BytesLeft + i \in 1..Len(buffer)
      BY <2>5, <2>7
    <3>2. buffer'[i] = received - Len(buffer) + (af_BytesLeft + i) - 1
      BY <1>1, <2>4, <2>7, <3>1 DEF CallerData
    <3> QED  BY <2>5, <2>7, <3>2
  <2>12. AllThere'
    <3>1. received = Len(disk) + 0 + (BufferSize - af_BytesLeft) + Len(buffer)
      BY <1>1, <2>3, <2>4, UploadNumbers DEF AllThere, Waiting
    <3>2. received = Len(disk) + BufferSize + 0 + Len(buffer')
      BY <2>5, <2>7, <3>1
    <3> QED  BY <1>1, <2>1, <2>3, <2>10, <3>2 DEF AllThere, Waiting
  <2> QED  BY <1>1, <1>2, <2>3, <2>9, <2>10, <2>11, <2>12 DEF UploadInv, WriteData
<1> QED  BY <1>3, <1>4

LEMMA UploadWriteServed ==
  ASSUME ShapeInv, UploadInv, WriteServed, TransferSame
  PROVE  UploadInv'
<1>1. /\ stage = "write" /\ ~af_ReadMode /\ numBytes = Len(buffer) /\ call = "WriteAsync"
      /\ numBytes <= af_BytesLeft /\ mem' = Filled(af_Offset, buffer)
      /\ af_Offset' = af_Offset + numBytes /\ call' = "none"
      /\ UNCHANGED <<disk, af_ReadMode, trouble, stage, received, reply, abor>>
      /\ UNCHANGED <<af_Packet, af_CurrentBuf, buffer>>
  BY DEF ShapeInv, Calling, WriteCall, WriteServed, file, opened, TransferSame, transferVars,
         Return
<1>2. Uploading /\ Uploading' /\ HealthyDone' /\ Numbered' /\ Len(disk) <= received
  BY <1>1 DEF Uploading, HealthyDone, UploadInv, WriteData, Numbered
<1>3. (Broke <=> Broke') /\ Sending' = Sending
  BY <1>1 DEF Broke, Sending
<1>4. ASSUME ~Broke
      PROVE  PacketData' /\ CollectedData' /\ CallerData' /\ AllThere'
  <2>1. PacketData /\ CollectedData /\ CallerData /\ AllThere
    BY <1>2, <1>4 DEF UploadInv, WriteData
  <2>2. buffer \in Seq(Int) /\ Len(buffer) \in Nat /\ af_Offset \in Nat
    BY <1>1, UploadNumbers DEF ShapeInv, Types, CallTypes
  <2>3. /\ \A a \in Addresses :
             Buffers(af_CurrentBuf) <= a /\ a < af_Offset + Len(buffer)
             => mem'[a] = Len(disk) + Sending + (a - Buffers(af_CurrentBuf))
        /\ \A a \in Addresses :
             Buffers(1 - af_CurrentBuf) <= a /\ a < Buffers(1 - af_CurrentBuf) + BufferSize
             => mem'[a] = mem[a]
    BY <1>1, <2>1, <2>2, Gathered
  <2>4. PacketData' /\ CollectedData' /\ CallerData'
    BY <1>1, <1>3, <2>1, <2>3 DEF PacketData, CollectedData, CallerData
  <2>5. AllThere'
    <3>1. /\ Len(disk) \in Nat /\ Sending \in Nat /\ Buffers(af_CurrentBuf) \in Nat
          /\ af_Offset' = af_Offset + Len(buffer)
      BY <1>1, UploadNumbers, Layout
    <3>2. received = Len(disk) + Sending + (af_Offset - Buffers(af_CurrentBuf)) + Len(buffer)
      BY <1>1, <2>1 DEF AllThere, Collected, Waiting
    <3>3. received = Len(disk) + Sending + (af_Offset' - Buffers(af_CurrentBuf)) + 0
      BY <2>2, <3>1, <3>2
    <3> QED  BY <1>1, <1>3, <3>3 DEF AllThere, Collected, Waiting
  <2> QED  BY <2>4, <2>5
<1> QED  BY <1>1, <1>2, <1>3, <1>4 DEF UploadInv, WriteData

LEMMA UploadClose ==
  ASSUME ShapeInv, UploadInv, Close, TransferSame, ~af_ReadMode
  PROVE  UploadInv'
<1> DEFINE part == Bytes(Buffers(af_CurrentBuf), Collected)
<1>1. /\ call = "CloseAsync" /\ call' = "none" /\ stage = "closing" /\ ~af_ReadMode'
      /\ af_Packet.at # "handler" /\ af_Packet' = [af_Packet EXCEPT !.at = "none"]
      /\ UNCHANGED <<trouble, stage, received, reply, abor>>
  BY DEF ShapeInv, Calling, CloseCall, Close, Return, Taken, opened, TransferSame, transferVars
<1>2. Uploading /\ ~Uploading'
  BY <1>1 DEF Uploading
<1>3. af_Packet'.at = "none" /\ af_Packet'.res1 = Res1
  BY <1>1, Layout, MarkedPacket
<1>4. /\ Collected \in Nat /\ Collected = BufferSize - af_BytesLeft
      /\ Res1 \in Int /\ Len(disk) \in Nat /\ received \in Nat /\ BufferSize \in Nat
      /\ af_BytesLeft \in Nat
  BY UploadNumbers, Layout
<1>5. ASSUME Res1 >= 0
      PROVE  CollectedData /\ Sending = 0 /\ received = Len(disk) + Collected
  <2>1. ~Broke /\ Sending = 0
    BY <1>1, <1>4, <1>5 DEF Broke, Sending
  <2>2. CollectedData /\ AllThere
    BY <1>2, <2>1 DEF UploadInv, WriteData
  <2> QED  BY <1>1, <1>4, <2>1, <2>2 DEF AllThere, Waiting
<1>6. Numbered /\ ("write" \notin trouble => Res1 >= 0) /\ Len(disk) <= received
  BY <1>1, <1>2 DEF UploadInv, WriteData
<1>7. SUFFICES Numbered' /\ Len(disk') <= received /\ HealthyDone'
  BY <1>1, <1>2, <1>3, <1>6 DEF UploadInv, WriteData
<1>8. CASE Res1 >= 0 /\ disk' = Written(Bytes(Buffers(af_CurrentBuf), BufferSize - af_BytesLeft))
  <2>1. \A a \in Addresses :
          Buffers(af_CurrentBuf) <= a /\ a < Buffers(af_CurrentBuf) + Collected
          => mem[a] = Len(disk) + (a - Buffers(af_CurrentBuf))
    <3> SUFFICES ASSUME NEW a \in Addresses, Buffers(af_CurrentBuf) <= a,
                        a < Buffers(af_CurrentBuf) + Collected
                 PROVE  mem[a] = Len(disk) + (a - Buffers(af_CurrentBuf))
      OBVIOUS
    <3>1. a < af_Offset /\ a - Buffers(af_CurrentBuf) \in Int
      <4>1. a \in Int /\ Buffers(af_CurrentBuf) \in Int /\ af_Offset \in Int
        BY UploadNumbers, Layout DEF Addresses
      <4> QED  BY <4>1 DEF Collected
    <3>2. mem[a] = Len(disk) + 0 + (a - Buffers(af_CurrentBuf))
      BY <1>5, <1>8, <3>1 DEF CollectedData
    <3> QED  BY <1>4, <3>1, <3>2
  <2>2. Buffers(af_CurrentBuf) + Collected <= 2 * BufferSize
    BY UploadNumbers, Layout
  <2>3. Numbered' /\ Len(disk') = Len(disk) + Collected
    BY <1>4, <1>6, <1>8, <2>1, <2>2, Layout, Appended
  <2>4. Len(disk') = received
    BY <1>5, <1>8, <2>3
  <2>5. received <= received
    BY <1>4
  <2> QED  BY <1>1, <2>3, <2>4, <2>5 DEF HealthyDone
<1>9. CASE disk' = disk /\ (Res1 >= 0 /\ "write" \notin trouble => af_BytesLeft = BufferSize)
  <2>1. "write" \notin trouble => Len(disk) = received
    BY <1>4, <1>5, <1>6, <1>9
  <2> QED  BY <1>1, <1>6, <1>9, <2>1 DEF Numbered, HealthyDone
<1>10. \/ Res1 >= 0 /\ disk' = Written(Bytes(Buffers(af_CurrentBuf), BufferSize - af_BytesLeft))
       \/ disk' = disk /\ (Res1 >= 0 /\ "write" \notin trouble => af_BytesLeft = BufferSize)
  BY <1>4 DEF Close, file
<1> QED  BY <1>8, <1>9, <1>10

(* A file that is read stays as it is. *)
LEMMA UploadReading ==
  ASSUME UploadInv, af_ReadMode', disk' = disk
  PROVE  UploadInv'
BY DEF UploadInv, Numbered, WriteData, Uploading, HealthyDone

LEMMA UploadDoFile ==
  ASSUME ShapeInv, DoFile
  PROVE  UploadInv'
<1>1. PICK size \in 0..MaxSize, reading \in BOOLEAN :
        OpenAsync(FileOf(size), reading) /\ received' = size /\ (~reading => call' = "none")
  BY DEF DoFile
<1>2. size \in Nat /\ Len(FileOf(size)) = size /\ \A i \in 1..size : FileOf(size)[i] = i - 1
  BY TransferAssumption DEF TransferAssumption, FileOf
<1>3. disk' = FileOf(size) /\ af_ReadMode' = reading /\ stage' = "open"
  BY <1>1 DEF DoFile, OpenAsync
<1>4. Numbered'
  BY <1>2, <1>3 DEF Numbered
<1>5. CASE reading
  BY <1>3, <1>4, <1>5 DEF UploadInv, WriteData, Uploading, HealthyDone
<1>6. CASE ~reading
  <2>1. /\ af_Offset' = 0 /\ af_CurrentBuf' = 0 /\ call' = "none" /\ received' = size
        /\ af_Packet' = [at |-> "none", arg2 |-> 0, res1 |-> 0]
    BY <1>1, <1>6 DEF OpenAsync
  <2>2. af_Packet'.at = "none" /\ af_Packet'.res1 = 0 /\ Buffers(0) = 0
    BY <2>1, BuffersAt
  <2>3. Sending' = 0 /\ Collected' = 0 /\ Waiting' = 0
    BY <2>1, <2>2 DEF Sending, Collected, Waiting
  <2>4. PacketData' /\ CollectedData' /\ CallerData'
    BY <2>1, <2>2, <2>3 DEF PacketData, CollectedData, CallerData, Addresses
  <2>5. AllThere' /\ Len(disk') <= received' /\ HealthyDone' /\ Res1' >= 0
    BY <1>2, <1>3, <2>1, <2>2, <2>3 DEF AllThere, HealthyDone
  <2>6. Uploading'
    BY <1>3, <1>6 DEF Uploading
  <2> QED  BY <1>4, <2>4, <2>5, <2>6 DEF UploadInv, WriteData
<1> QED  BY <1>5, <1>6

LEMMA UploadReadFromData ==
  ASSUME ShapeInv, UploadInv, ReadFromData
  PROVE  UploadInv'
<1>1. PICK len \in 1..MaxChunk :
        /\ Begin("WriteAsync", len, Between(received, received + len))
        /\ received' = received + len
  BY DEF ReadFromData
<1>2. /\ call = "none" /\ call' = "WriteAsync" /\ stage = "open" /\ stage' = "write"
      /\ ~af_ReadMode /\ buffer' = Between(received, received + len)
      /\ UNCHANGED <<disk, mem, af_Offset, af_CurrentBuf, af_Packet, af_ReadMode, trouble>>
  BY <1>1 DEF ReadFromData, Begin, OthersOfCall, file, buffers, opened
<1>3. Uploading /\ Uploading' /\ HealthyDone'
  BY <1>2 DEF Uploading, HealthyDone
<1>4. len \in Nat /\ received \in Nat /\ Len(disk) \in Nat /\ Sending \in Nat /\ Collected \in Nat
  BY <1>2, UploadNumbers, Layout, TransferAssumption DEF TransferAssumption
<1>5. Len(buffer') = len /\ \A i \in 1..len : buffer'[i] = received + i - 1
  <2>1. received + len \in Nat /\ received <= received + len
        /\ (received + len) - received = len
    BY <1>4
  <2> DEFINE end == received + len
  <2>2. /\ Len(Between(received, end)) = end - received
        /\ \A i \in 1..(end - received) : Between(received, end)[i] = received + i - 1
    BY <1>4, <2>1, BetweenProperties
  <2> QED  BY <1>2, <2>1, <2>2
<1>6. (Broke <=> Broke') /\ Sending' = Sending /\ Collected' = Collected
  BY <1>2 DEF Broke, Sending, Collected
<1>7. ASSUME ~Broke
      PROVE  PacketData' /\ CollectedData' /\ CallerData' /\ AllThere'
  <2>1. PacketData /\ CollectedData /\ AllThere
    BY <1>3, <1>7 DEF UploadInv, WriteData
  <2>2. PacketData' /\ CollectedData'
    BY <1>2, <1>6, <2>1 DEF PacketData, CollectedData
  <2>3. CallerData'
    BY <1>1, <1>4, <1>5 DEF CallerData
  <2>4. received = Len(disk) + Sending + Collected + 0
    BY <1>2, <2>1 DEF AllThere, Waiting
  <2>5. received' = Len(disk) + Sending + Collected + len
    BY <1>1, <1>4, <2>4
  <2> QED  BY <1>2, <1>5, <1>6, <2>2, <2>3, <2>5 DEF AllThere, Waiting
<1>8. Len(disk') <= received'
  BY <1>1, <1>2, <1>4 DEF UploadInv, WriteData
<1>9. Numbered' /\ ("write" \notin trouble => Res1' >= 0)
  BY <1>2 DEF UploadInv, Numbered, WriteData
<1> QED  BY <1>2, <1>3, <1>6, <1>7, <1>8, <1>9 DEF UploadInv, WriteData

(* The steps of the server that leave the buffers and the packet alone. *)
LEMMA UploadOthers ==
  ASSUME ShapeInv, UploadInv, ~af_ReadMode, OthersOfCall, received' = received,
         stage \in {"open", "write"}, call = "none", buffer' = buffer,
         \/ call' = "CloseAsync"
         \/ call' = "none" /\ stage' \in {"open", "write"}
  PROVE  UploadInv'
<1>1. UNCHANGED <<disk, mem, af_Offset, af_CurrentBuf, af_ReadMode, trouble, af_Packet>>
  BY DEF OthersOfCall, file, buffers, opened
<1>2. Uploading /\ Uploading' /\ (Broke => Broke') /\ Sending' = Sending /\ Waiting = 0
  BY <1>1 DEF Uploading, Broke, Sending, Waiting
<1>3. "write" \notin trouble => Res1' >= 0
  BY <1>1 DEF UploadInv, WriteData
<1>4. UNCHANGED <<disk, mem, af_Offset, af_CurrentBuf, received, trouble, af_ReadMode>>
  BY <1>1
<1>5. /\ UNCHANGED <<call, buffer>> \/ (Waiting = 0 /\ call' # "WriteAsync")
      /\ call' # "none" \/ stage' \in {"open", "write"}
  BY <1>2
<1> QED  BY <1>2, <1>3, <1>4, <1>5, UploadStays

LEMMA UploadClosed ==
  ASSUME ShapeInv, UploadInv, Closed \/ UNCHANGED vars
  PROVE  UploadInv'
<1>1. /\ UNCHANGED <<disk, mem, af_Offset, af_CurrentBuf, af_ReadMode, trouble, af_Packet>>
      /\ UNCHANGED <<call, buffer, received, reply, abor>>
  BY DEF Closed, vars, asyncVars, transferVars, file, buffers, opened
<1>2. \/ stage = "closing" /\ stage' = "closed" /\ call = "none"
      \/ stage' = stage
  BY DEF Closed, vars, transferVars
<1>3. Numbered' /\ HealthyDone' /\ (Broke <=> Broke') /\ (Uploading <=> Uploading')
  BY <1>1, <1>2 DEF UploadInv, WriteData, Numbered, HealthyDone, Broke, Uploading
<1>4. /\ Sending' = Sending /\ Collected' = Collected /\ Waiting' = Waiting
  BY <1>1 DEF Sending, Collected, Waiting
<1>5. ASSUME Uploading', ~Broke'
      PROVE  PacketData' /\ CollectedData' /\ CallerData' /\ AllThere'
  <2>1. PacketData /\ CollectedData /\ CallerData /\ AllThere
    BY <1>3, <1>5 DEF UploadInv, WriteData
  <2> QED  BY <1>1, <1>4, <2>1 DEF PacketData, CollectedData, CallerData, AllThere
<1>6. /\ ~af_ReadMode' => Len(disk') <= received'
      /\ ~af_ReadMode' /\ "write" \notin trouble' => Res1' >= 0
      /\ ~af_ReadMode' /\ ~Uploading' => af_Packet'.at = "none"
  BY <1>1, <1>3 DEF UploadInv, WriteData
<1> QED  BY <1>3, <1>5, <1>6 DEF UploadInv, WriteData

LEMMA UploadInit == Init => UploadInv
<1> SUFFICES ASSUME Init PROVE UploadInv
  OBVIOUS
<1>1. /\ disk = <<>> /\ received = 0 /\ stage = "closed" /\ call = "none" /\ reply = "none"
      /\ af_Packet = [at |-> "none", arg2 |-> 0, res1 |-> 0]
  BY DEF Init
<1>2. Len(disk) = 0 /\ Res1 = 0 /\ af_Packet.at = "none"
  BY <1>1
<1> QED  BY <1>1, <1>2 DEF UploadInv, Numbered, WriteData, Uploading, HealthyDone

LEMMA UploadNext == ShapeInv /\ ShapeInv' /\ UploadInv /\ [Next]_vars => UploadInv'
<1> SUFFICES ASSUME ShapeInv, ShapeInv', UploadInv, [Next]_vars PROVE UploadInv'
  OBVIOUS
<1>1. CASE Handler /\ TransferSame
  <2>1. CASE HandlerReads
    BY <2>1, UploadReading DEF HandlerReads, opened
  <2>2. CASE HandlerFails /\ af_ReadMode
    BY <2>2, UploadReading DEF HandlerFails, opened, file
  <2> QED  BY <1>1, <2>1, <2>2, UploadHandlerWrites, UploadPacket DEF Handler
<1>2. CASE Progress /\ TransferSame
  <2>1. CASE Refill \/ ReadStops \/ ReadServed
    <3>1. af_ReadMode /\ af_ReadMode' /\ disk' = disk
      BY <2>1 DEF ShapeInv, Calling, ReadCall, Refill, ReadStops, ReadServed, opened, file
    <3> QED  BY <3>1, UploadReading
  <2>2. CASE SeekAsync
    <3>1. af_ReadMode /\ af_ReadMode' /\ disk' = disk
      BY <2>2 DEF ShapeInv, Calling, SeekCall, SeekAsync, opened
    <3> QED  BY <3>1, UploadReading
  <2>3. CASE af_ReadMode /\ (WaitPacketRetries \/ Close)
    <3>1. af_ReadMode' /\ disk' = disk
      BY <2>3 DEF WaitPacketRetries, Close, opened, file
    <3> QED  BY <3>1, UploadReading
  <2> QED  BY <1>2, <2>1, <2>2, <2>3, UploadFlush, UploadWriteServed, UploadClose, UploadPacket
           DEF Progress
<1>3. CASE DoFile
  BY <1>3, UploadDoFile
<1>4. CASE WriteToData \/ Send \/ SendEnds \/ ((CmdAbor \/ Abort) /\ af_ReadMode)
  <2>1. af_ReadMode /\ OthersOfCall
    BY <1>4 DEF WriteToData, Send, SendEnds, CmdAbor, Abort, ShapeInv, Calling, CallOfStage
  <2>2. af_ReadMode' /\ disk' = disk
    BY <2>1 DEF OthersOfCall, opened, file
  <2> QED  BY <2>2, UploadReading
<1>5. CASE ReadFromData
  BY <1>5, UploadReadFromData
<1>6. CASE WriteReturns \/ RecvEnds \/ ((CmdAbor \/ Abort) /\ ~af_ReadMode)
  <2>1. /\ ~af_ReadMode /\ OthersOfCall /\ received' = received /\ buffer' = buffer
        /\ stage \in {"open", "write"} /\ call = "none"
    BY <1>6 DEF WriteReturns, RecvEnds, CmdAbor, Abort, FreeData, Begin, ShapeInv, Calling,
                CallOfStage
  <2>2. call' = "CloseAsync" \/ (call' = "none" /\ stage' \in {"open", "write"})
    BY <1>6 DEF WriteReturns, RecvEnds, CmdAbor, Abort, FreeData, Begin
  <2> QED  BY <2>1, <2>2, UploadOthers
<1>7. CASE Closed \/ UNCHANGED vars
  BY <1>7, UploadClosed
<1> QED  BY <1>1, <1>2, <1>3, <1>4, <1>5, <1>6, <1>7 DEF Next, Server

(* The file of an upload is what was there and then what was received, in
   order, whatever the disk does: after a failure the rest is missing, and
   nothing is ever written behind a gap. *)
THEOREM UploadsInOrder == Spec => []DiskInOrder
<1>1. ShapeInv /\ UploadInv => DiskInOrder
  <2> SUFFICES ASSUME ShapeInv, UploadInv PROVE DiskInOrder
    OBVIOUS
  <2>1. DOMAIN disk = 1..Len(disk)
    BY DEF ShapeInv, Types, FileTypes
  <2> QED  BY <2>1 DEF UploadInv, Numbered, WriteData, DiskInOrder
<1> QED  BY <1>1, ShapeInit, ShapeNext, UploadInit, UploadNext, PTL DEF Spec

(* 226 after an upload to a disk that takes what is written to it says that
   the file holds all that was received. *)
THEOREM HealthyUploadsComplete == Spec => []HealthyUploadComplete
<1>1. ShapeInv /\ UploadInv => HealthyUploadComplete
  <2> SUFFICES ASSUME UploadInv, ShapeInv PROVE HealthyUploadComplete
    OBVIOUS
  <2> QED  BY DEF UploadInv, WriteData, HealthyDone, HealthyUploadComplete, UploadComplete,
                  ShapeInv, Calling, CallOfStage
<1> QED  BY <1>1, ShapeInit, ShapeNext, UploadInit, UploadNext, PTL DEF Spec

-----------------------------------------------------------------------------
(* Downloads *)

LEMMA DownloadNumbers ==
  ASSUME ShapeInv, af_ReadMode
  PROVE  /\ Len(disk) \in Nat /\ filePos \in Nat /\ filePos <= Len(disk)
         /\ af_Offset \in Nat /\ af_BytesLeft \in Nat /\ af_SeekOffset \in Nat
         /\ Brought \in 0..BufferSize /\ Res1 \in Int /\ numBytes \in Int
         /\ Position \in Nat
         /\ Position = filePos - Brought - af_BytesLeft + af_SeekOffset
         /\ Buffers(1 - af_CurrentBuf) <= af_Offset
         /\ af_Offset + af_BytesLeft <= Buffers(1 - af_CurrentBuf) + BufferSize
         /\ af_SeekOffset # 0 => af_BytesLeft = 0 /\ af_Offset = Buffers(1 - af_CurrentBuf)
         /\ ~Returned => af_Packet.arg2 = af_CurrentBuf
         /\ start \in Nat /\ Len(sent) \in Nat /\ Len(buffer) \in Nat
         /\ Expected \in Nat
<1>1. Types /\ ReadShape
  BY DEF ShapeInv, Shape
<1>2. Brought \in 0..BufferSize /\ Position \in Int
      /\ Position = filePos - Brought - af_BytesLeft + af_SeekOffset
  BY <1>1, PositionIsInt
<1>3. start \in Nat /\ Len(sent) \in Nat /\ Len(buffer) \in Nat
  BY <1>1 DEF Types, TransferTypes, CallTypes
<1>4. Position \in Nat
  BY <1>1, <1>2 DEF ReadShape
<1>5. Expected \in Nat
  <2>1. start + Len(sent) + Len(buffer) \in Nat /\ start + Len(sent) + 0 \in Nat
    BY <1>3
  <2> QED  BY <2>1 DEF Expected
<1> QED  BY <1>1, <1>2, <1>3, <1>4, <1>5, Numbers DEF ReadShape

(* Where the caller is, unless a transfer is broken or behind the end. *)
LEMMA DownloadStanding ==
  ASSUME ShapeInv, ReadData, Downloading, ~Broke
  PROVE  /\ \/ Here = Expected
            \/ Behind /\ af_BytesLeft = 0 /\ Brought = 0
         /\ call \notin Seeks => Here = Position
<1>1. CASE Behind
  <2>1. Here = Position /\ af_SeekOffset = 0 /\ Position >= Len(disk)
    BY <1>1 DEF Behind, Here, Seeks
  <2>2. af_BytesLeft = 0 /\ Brought = 0
    BY <2>1, DownloadNumbers DEF Downloading
  <2> QED  BY <1>1, <2>1, <2>2
<1> QED  BY <1>1 DEF ReadData, InStep, Here, Seeks

(* What the current buffer holds goes to the caller. *)
LEMMA ChunkGrows ==
  ASSUME ShapeInv, ReadData, Downloading, call = "ReadAsync", NEW n \in 0..af_BytesLeft,
         buffer' = buffer \o Bytes(af_Offset, n), UNCHANGED <<start, sent>>
  PROVE  Chunk' /\ Len(buffer') = Len(buffer) + n /\ stage = "read"
<1>0. Types /\ ReadShape /\ stage = "read"
  BY DEF ShapeInv, Shape, Downloading, Calling, ReadCall
<1>1. /\ Len(buffer') = Len(buffer) + n
      /\ \A i \in 1..(Len(buffer) + n) :
           buffer'[i] = IF i <= Len(buffer) THEN buffer[i]
                        ELSE mem[af_Offset + (i - Len(buffer)) - 1]
  BY <1>0, CopiedBytes
<1>2. /\ af_Offset \in Nat /\ af_BytesLeft \in Nat /\ n \in Nat /\ start \in Nat
      /\ Len(sent) \in Nat /\ Len(buffer) \in Nat /\ Position \in Nat
      /\ Buffers(1 - af_CurrentBuf) <= af_Offset
      /\ af_Offset + af_BytesLeft <= 2 * BufferSize /\ BufferSize \in Nat
      /\ Buffers(1 - af_CurrentBuf) \in Nat
  <2>1. Buffers(1 - af_CurrentBuf) + BufferSize <= 2 * BufferSize
    BY Layout
  <2>2. af_Offset + af_BytesLeft <= Buffers(1 - af_CurrentBuf) + BufferSize
    BY DownloadNumbers DEF Downloading
  <2>3. BufferSize \in Nat /\ Buffers(1 - af_CurrentBuf) \in Nat
    BY Layout
  <2>4. af_Offset \in Nat /\ af_BytesLeft \in Nat
    BY DownloadNumbers DEF Downloading
  <2>5. /\ start \in Nat /\ Len(sent) \in Nat /\ Len(buffer) \in Nat /\ Position \in Nat
        /\ Buffers(1 - af_CurrentBuf) <= af_Offset
    BY DownloadNumbers DEF Downloading
  <2> HIDE DEF Position
  <2> QED  BY <2>1, <2>2, <2>3, <2>4, <2>5
<1>3. ASSUME n # 0
      PROVE  af_Packet.at # "none" /\ Position = start + Len(sent) + Len(buffer)
  <2>1. af_BytesLeft # 0
    BY <1>2, <1>3
  <2>2. af_Packet.at # "none"
    BY <2>1 DEF ReadData, ReadTrouble
  <2>3. Here = Expected /\ Here = Position
    BY <2>1, <2>2, DownloadStanding DEF Broke, Seeks
  <2> QED  BY <1>0, <2>2, <2>3 DEF Expected
<1>4. ASSUME NEW i \in 1..Len(buffer')
      PROVE  buffer'[i] = start + Len(sent) + i - 1
  <2>1. CASE i <= Len(buffer)
    BY <1>0, <1>1, <1>2, <2>1 DEF ReadData, Chunk
  <2>2. CASE ~(i <= Len(buffer))
    <3> DEFINE a == af_Offset + (i - Len(buffer)) - 1
    <3>1. n # 0 /\ i - Len(buffer) \in 1..n
      BY <1>1, <1>2, <2>2
    <3>2. a \in Addresses /\ Buffers(1 - af_CurrentBuf) <= a /\ a < af_Offset + af_BytesLeft
      <4>1. a \in Int /\ af_Offset <= a /\ a < af_Offset + af_BytesLeft
        BY <1>2, <3>1
      <4> QED  BY <1>2, <4>1 DEF Addresses
    <3>3. buffer'[i] = mem[a]
      BY <1>1, <2>2
    <3>4. mem[a] = Position + (a - af_Offset)
      BY <1>3, <3>1, <3>2 DEF ReadData, Window
    <3> QED  BY <1>1, <1>2, <1>3, <3>1, <3>3, <3>4
  <2> QED  BY <2>1, <2>2
<1> QED  BY <1>0, <1>1, <1>4 DEF Chunk

(* A part of a sequence of bytes. *)
LEMMA PartProperties ==
  ASSUME NEW q \in Seq(Int), NEW m \in Nat, NEW n \in Nat, m + n <= Len(q)
  PROVE  LET p == SubSeq(q, m + 1, m + n)
         IN  p \in Seq(Int) /\ Len(p) = n /\ \A i \in 1..n : p[i] = q[m + i]
<1> DEFINE first == m + 1
           last == m + n
           p == SubSeq(q, first, last)
<1>1. \A i \in first..last : q[i] \in Int
  OBVIOUS
<1>2. first \in Int /\ last \in Int /\ last - first + 1 = n
      /\ \A i \in 1..n : first + i - 1 = m + i
  OBVIOUS
<1>3. (IF first <= last THEN last - first + 1 ELSE 0) = n
  OBVIOUS
<1> HIDE DEF first, last
<1>4. /\ p \in Seq(Int) /\ Len(p) = n
      /\ \A i \in 1..(last - first + 1) : p[i] = q[first + i - 1]
  BY <1>1, <1>2, <1>3, SubSeqProperties
<1>5. p \in Seq(Int) /\ Len(p) = n /\ \A i \in 1..n : p[i] = q[m + i]
  BY <1>2, <1>4
<1> QED  BY <1>5 DEF first, last

LEMMA DownloadHandlerReads ==
  ASSUME ShapeInv, Numbered, ReadData, Downloading, HandlerReads, TransferSame
  PROVE  ReadData'
<1> DEFINE n == Smaller(BufferSize, Len(disk) - filePos)
           s == SubSeq(disk, filePos + 1, filePos + n)
<1>1. /\ mem' = Filled(Buffers(af_Packet.arg2), s) /\ filePos' = filePos + n
      /\ af_Packet' = [af_Packet EXCEPT !.at = "port", !.res1 = n]
      /\ af_Packet.at = "handler"
      /\ UNCHANGED <<disk, af_Offset, af_BytesLeft, af_CurrentBuf, af_SeekOffset>>
      /\ UNCHANGED <<af_ReadMode, trouble, call, numBytes, buffer, result>>
      /\ UNCHANGED <<stage, start, sent>>
  BY DEF HandlerReads, TransferSame, transferVars, opened
<1>2. /\ Len(disk) \in Nat /\ filePos \in Nat /\ filePos <= Len(disk)
      /\ BufferSize \in Nat /\ Buffers(af_CurrentBuf) \in Nat
      /\ Buffers(1 - af_CurrentBuf) \in Nat /\ disk \in Seq(Int)
      /\ mem \in [Addresses -> Int]
  BY DownloadNumbers, Layout DEF Downloading, Types, FileTypes, BufferTypes
<1>3. /\ n \in 0..BufferSize /\ n \in -1..BufferSize /\ filePos + n <= Len(disk)
      /\ n < BufferSize => filePos + n = Len(disk)
  BY <1>2 DEF Smaller
<1> HIDE DEF n
<1>4. s \in Seq(Int) /\ Len(s) = n /\ \A i \in 1..n : s[i] = filePos + i - 1
  <2>1. s \in Seq(Int) /\ Len(s) = n /\ \A i \in 1..n : s[i] = disk[filePos + i]
    <3>1. disk \in Seq(Int) /\ filePos \in Nat /\ n \in Nat /\ filePos + n <= Len(disk)
      BY <1>2, <1>3
    <3> QED  BY <3>1, PartProperties
  <2>2. \A i \in 1..n : filePos + i \in 1..Len(disk)
    BY <1>2, <1>3
  <2> HIDE DEF s
  <2>3. ASSUME NEW i \in 1..n PROVE s[i] = filePos + i - 1
    <3>1. s[i] = disk[filePos + i] /\ filePos + i \in 1..Len(disk)
      BY <2>1, <2>2
    <3>2. disk[filePos + i] = (filePos + i) - 1
      BY <3>1 DEF Numbered
    <3>3. i \in Int /\ filePos \in Int
      BY <1>2, <1>3
    <3> QED  BY <3>1, <3>2, <3>3
  <2> QED  BY <2>1, <2>3
<1> HIDE DEF s
<1>5. af_Packet'.at = "port" /\ af_Packet'.res1 = n /\ af_Packet.arg2 = af_CurrentBuf
  BY <1>1, <1>3, Layout, AnsweredPacket, DownloadNumbers DEF Downloading
<1>6. Brought = 0 /\ Brought' = n
  BY <1>1, <1>3, <1>5 DEF Brought
<1>7. Position' = Position
  <2>1. /\ filePos' - Brought' = filePos - Brought
        /\ UNCHANGED <<af_BytesLeft, af_SeekOffset>>
    BY <1>1, <1>2, <1>3, <1>6
  <2> QED  BY <2>1 DEF Position
<1>8. \A a \in Addresses :
        mem'[a] = IF Buffers(af_CurrentBuf) <= a /\ a < Buffers(af_CurrentBuf) + n
                  THEN s[a - Buffers(af_CurrentBuf) + 1] ELSE mem[a]
  BY <1>1, <1>2, <1>4, <1>5, FilledProperties
<1>9. Window'
  <2> SUFFICES ASSUME NEW a \in Addresses,
                      Buffers(1 - af_CurrentBuf) <= a, a < af_Offset + af_BytesLeft
               PROVE  mem'[a] = Position + (a - af_Offset)
    BY <1>1, <1>7 DEF Window
  <2>1. mem[a] = Position + (a - af_Offset)
    BY <1>1 DEF ReadData, Window
  <2>2. ~(Buffers(af_CurrentBuf) <= a /\ a < Buffers(af_CurrentBuf) + n)
    <3>1. a < Buffers(1 - af_CurrentBuf) + BufferSize
      <4>1. /\ af_Offset + af_BytesLeft <= Buffers(1 - af_CurrentBuf) + BufferSize
            /\ af_Offset \in Nat /\ af_BytesLeft \in Nat
        BY DownloadNumbers DEF Downloading
      <4>2. a \in Int
        BY <1>2 DEF Addresses
      <4> QED  BY <1>2, <4>1, <4>2
    <3>2. \/ Buffers(af_CurrentBuf) + BufferSize <= Buffers(1 - af_CurrentBuf)
          \/ Buffers(1 - af_CurrentBuf) + BufferSize <= Buffers(af_CurrentBuf)
      BY Layout
    <3>3. a \in Int
      BY <1>2 DEF Addresses
    <3> QED  BY <1>2, <1>3, <3>1, <3>2, <3>3
  <2> QED  BY <1>8, <2>1, <2>2
<1>10. ReadAhead'
  <2> SUFFICES ASSUME NEW a \in Addresses,
                      Buffers(af_CurrentBuf) <= a, a < Buffers(af_CurrentBuf) + n
               PROVE  mem'[a] = filePos' - n + (a - Buffers(af_CurrentBuf))
    BY <1>1, <1>6 DEF ReadAhead
  <2>0. a \in Int
    BY <1>2 DEF Addresses
  <2>1. a \in Int /\ a - Buffers(af_CurrentBuf) + 1 \in 1..n
    BY <1>2, <1>3, <2>0
  <2>2. mem'[a] = filePos + (a - Buffers(af_CurrentBuf) + 1) - 1
    BY <1>4, <1>8, <2>1
  <2> QED  BY <1>1, <1>2, <1>3, <2>1, <2>2
<1>11. ShortRead'
  BY <1>1, <1>2, <1>3, <1>6 DEF ShortRead
<1>12. Chunk' /\ Expected' = Expected /\ Here' = Here
  BY <1>1, <1>7 DEF ReadData, Chunk, Expected, Here
<1>13. ReadTrouble'
  BY <1>1, <1>3, <1>5 DEF ReadData, ReadTrouble
<1>14. InStep'
  <2>1. ~Broke
    BY <1>1 DEF Broke
  <2> QED  BY <1>1, <1>12, <2>1 DEF ReadData, InStep, Behind
<1> QED  BY <1>9, <1>10, <1>11, <1>12, <1>13, <1>14 DEF ReadData

LEMMA DownloadPacket ==
  ASSUME ShapeInv, ReadData, Downloading, HandlerFails \/ WaitPacketRetries, TransferSame
  PROVE  ReadData'
<1>1. /\ af_Packet.at # "none" /\ (af_Packet.at = "handler" \/ Res1 = -1)
      /\ UNCHANGED <<disk, filePos, mem, af_Offset, af_BytesLeft, af_CurrentBuf>>
      /\ UNCHANGED <<af_SeekOffset, af_ReadMode, trouble, call, numBytes, buffer, result>>
      /\ UNCHANGED <<stage, start, sent>>
  BY DEF HandlerFails, WaitPacketRetries, file, buffers, opened, TransferSame, transferVars
<1>2. af_Packet'.at # "none" /\ af_Packet'.res1 = -1 /\ "read" \in trouble
  <2>1. CASE HandlerFails
    <3>1. -1 \in -1..BufferSize
      BY Layout
    <3> QED  BY <2>1, <3>1, AnsweredPacket, Layout DEF HandlerFails, Downloading
  <2>2. CASE WaitPacketRetries
    <3>1. PendingBuffer \in {0, 1}
      BY Layout DEF PendingBuffer
    <3>2. af_Packet' = Sent(PendingBuffer) /\ Res1 = -1 /\ af_Packet.at # "none"
      BY <2>2 DEF WaitPacketRetries
    <3>3. "read" \in trouble
      BY <3>2 DEF ReadData, ReadTrouble
    <3> QED  BY <3>1, <3>2, <3>3, SentPacket, Layout
  <2> QED  BY <2>1, <2>2
<1>3. Brought = 0 /\ Brought' = 0 /\ Position' = Position
  BY <1>1, <1>2 DEF Brought, Position
<1>4. Window' /\ ReadAhead' /\ ShortRead' /\ Chunk'
  BY <1>1, <1>3 DEF ReadData, Window, ReadAhead, ShortRead, Chunk
<1>5. ReadTrouble'
  BY <1>1, <1>2 DEF ReadData, ReadTrouble
<1>6. Expected' = Expected /\ Here' = Here /\ ~Broke
  BY <1>1, <1>3 DEF Expected, Here, Broke
<1>7. InStep'
  BY <1>1, <1>6 DEF ReadData, InStep, Behind
<1> QED  BY <1>4, <1>5, <1>7 DEF ReadData

(* ReadAsync() goes on in the buffer that the packet filled. *)
LEMMA DownloadRefill ==
  ASSUME ShapeInv, ReadData, Downloading, Refill, TransferSame
  PROVE  ReadData'
<1> DEFINE skip == Smaller(af_SeekOffset, Res1)
<1>1. /\ call = "ReadAsync" /\ call' = "ReadAsync"
      /\ buffer' = buffer \o Bytes(af_Offset, af_BytesLeft)
      /\ numBytes' = numBytes - af_BytesLeft
      /\ af_Packet.at # "handler" /\ Res1 > 0
      /\ af_Packet' = Sent(1 - af_CurrentBuf)
      /\ af_Offset' = Buffers(af_CurrentBuf) + skip /\ af_BytesLeft' = Res1 - skip
      /\ af_CurrentBuf' = 1 - af_CurrentBuf /\ af_SeekOffset' = 0
      /\ UNCHANGED <<disk, filePos, mem, af_ReadMode, trouble, stage, start, sent>>
  BY DEF Refill, Goes, file, opened, TransferSame, transferVars
<1>2. /\ af_BytesLeft \in Nat /\ af_BytesLeft \in 0..af_BytesLeft /\ af_SeekOffset \in Nat
      /\ Len(disk) \in Nat /\ filePos \in Nat /\ filePos <= Len(disk)
      /\ Res1 \in Int /\ Brought \in 0..BufferSize /\ Brought = Res1
      /\ Buffers(af_CurrentBuf) \in Nat /\ BufferSize \in Nat
      /\ Expected \in Nat /\ Position \in Nat
  BY <1>1, DownloadNumbers, Layout DEF Downloading, Brought
<1>3. skip \in 0..Res1 /\ (skip = af_SeekOffset \/ (skip = Res1 /\ Res1 < af_SeekOffset))
  BY <1>1, <1>2 DEF Smaller
<1>4. stage = "read" /\ Chunk' /\ Len(buffer') = Len(buffer) + af_BytesLeft
  BY <1>1, <1>2, ChunkGrows
<1> HIDE DEF skip
<1>5. /\ af_Packet'.at = "handler" /\ af_Packet'.res1 = Res1 /\ af_Packet.at # "none"
      /\ 1 - af_CurrentBuf' = af_CurrentBuf
  <2>1. 1 - af_CurrentBuf \in {0, 1} /\ 1 - (1 - af_CurrentBuf) = af_CurrentBuf
    BY Layout
  <2>2. af_Packet.at # "none"
    BY <1>1, <1>2 DEF ReadData, ReadTrouble
  <2> QED  BY <1>1, <2>1, <2>2, Layout, SentPacket
<1>6. Brought' = 0
  BY <1>5 DEF Brought
<1>7. /\ Position' = filePos - (Res1 - skip)
      /\ Position = filePos - Res1 - af_BytesLeft + af_SeekOffset
  <2>1. Position' = filePos - 0 - (Res1 - skip) + 0
    BY <1>1, <1>6 DEF Position
  <2>2. Position = filePos - Res1 - af_BytesLeft + af_SeekOffset
    BY <1>2, DownloadNumbers DEF Downloading
  <2> QED  BY <1>2, <1>3, <2>1, <2>2
<1>8. Position = Expected
  <2>1. ~Broke /\ Brought # 0
    BY <1>1, <1>2, <1>5 DEF Broke
  <2> QED  BY <1>1, <2>1, DownloadStanding DEF Seeks
<1>9. Window'
  <2> SUFFICES ASSUME NEW a \in Addresses, Buffers(af_CurrentBuf) <= a,
                      a < af_Offset' + af_BytesLeft'
               PROVE  mem[a] = Position' + (a - af_Offset')
    BY <1>1, <1>5 DEF Window
  <2>1. a \in Int
    BY <1>2 DEF Addresses
  <2>2. a < Buffers(af_CurrentBuf) + Brought
    BY <1>1, <1>2, <1>3, <2>1
  <2>3. mem[a] = filePos - Brought + (a - Buffers(af_CurrentBuf))
    BY <2>2 DEF ReadData, ReadAhead
  <2>4. filePos - Res1 + (a - Buffers(af_CurrentBuf))
        = filePos - (Res1 - skip) + (a - (Buffers(af_CurrentBuf) + skip))
    BY <1>2, <1>3, <2>1
  <2> QED  BY <1>1, <1>2, <1>7, <2>3, <2>4
<1>10. ReadAhead' /\ ShortRead'
  <2>1. Buffers(1 - af_CurrentBuf) \in Nat /\ Addresses \subseteq Int
    BY <1>2, Layout DEF Addresses
  <2> QED  BY <1>1, <1>6, <2>1 DEF ReadAhead, ShortRead
<1>11. ReadTrouble'
  BY <1>1, <1>2, <1>5 DEF ReadTrouble, Seeks
<1>12. Here' = Position' /\ Expected' = Expected + af_BytesLeft
  <2>1. start \in Nat /\ Len(sent) \in Nat /\ Len(buffer) \in Nat
    BY DownloadNumbers DEF Downloading
  <2>2. start + Len(sent) + (Len(buffer) + af_BytesLeft)
        = start + Len(sent) + Len(buffer) + af_BytesLeft
    BY <1>2, <2>1
  <2> QED  BY <1>1, <1>4, <2>2 DEF Here, Expected
<1>13. InStep'
  <2>1. CASE skip = af_SeekOffset
    <3>1. Position' = Position + af_BytesLeft
      <4>1. \A f, r, b, o \in Int : f - (r - o) = (f - r - b + o) + b
        OBVIOUS
      <4>2. af_SeekOffset \in Int /\ filePos \in Int /\ af_BytesLeft \in Int /\ Res1 \in Int
        BY <1>2
      <4>3. Position' = filePos - (Res1 - af_SeekOffset)
        BY <1>7, <2>1
      <4> QED  BY <1>7, <4>1, <4>2, <4>3
    <3> QED  BY <1>8, <1>12, <3>1 DEF InStep
  <2>2. CASE skip = Res1 /\ Res1 < af_SeekOffset
    <3>1. af_SeekOffset <= BlockSize - 1 /\ BlockSize \in Nat /\ BlockSize <= BufferSize
      BY BlockInBuffer, Sizes DEF ShapeInv, Types, BufferTypes
    <3>2. filePos = Len(disk)
      <4>1. Brought \in 1..(BufferSize - 1)
        BY <1>1, <1>2, <2>2, <3>1
      <4> QED  BY <4>1 DEF ReadData, ShortRead
    <3>3. af_SeekOffset # 0
      BY <1>1, <1>2, <2>2
    <3>4. af_BytesLeft = 0 /\ buffer = <<>>
      BY <1>1, <3>3, DownloadNumbers DEF Downloading, ShapeInv, Calling, ReadCall
    <3>5. buffer' = <<>>
      <4>1. buffer' \in Seq(Int) /\ Len(buffer') = 0
        BY <1>1, <1>2, <1>4, <3>4, CopiedBytes DEF ShapeInv, Shape, Downloading
      <4> QED  BY <4>1
    <3>6. Position' = Len(disk) /\ Expected >= Len(disk)
      <4>1. Position' = filePos - (Res1 - Res1)
        BY <1>7, <2>2
      <4>2. Position = filePos - Res1 - 0 + af_SeekOffset
        BY <1>7, <3>4
      <4>3. Position' = filePos /\ Position >= filePos
        <5>1. \A f, r, o \in Int :
                r < o => f - (r - r) = f /\ f - r - 0 + o >= f
          OBVIOUS
        <5>2. af_SeekOffset \in Int /\ filePos \in Int /\ Res1 \in Int
          BY <1>2
        <5> QED  BY <2>2, <4>1, <4>2, <5>1, <5>2
      <4> QED  BY <1>8, <3>2, <4>3
    <3>7. Here' >= Len(disk) /\ Expected' >= Len(disk)
      BY <1>2, <1>12, <3>4, <3>6
    <3> QED  BY <1>1, <3>5, <3>7 DEF InStep, Behind, Seeks
  <2> QED  BY <1>3, <2>1, <2>2
<1> QED  BY <1>4, <1>9, <1>10, <1>11, <1>13 DEF ReadData

LEMMA DownloadReadStops ==
  ASSUME ShapeInv, ReadData, Downloading, ReadStops, TransferSame
  PROVE  ReadData'
<1>1. /\ call = "ReadAsync" /\ call' = "none"
      /\ buffer' = buffer \o Bytes(af_Offset, af_BytesLeft)
      /\ af_Packet.at # "handler" /\ Res1 <= 0
      /\ af_Packet' = [af_Packet EXCEPT !.at = "none"] /\ af_BytesLeft' = 0
      /\ Res1 # 0 => result' = -1
      /\ UNCHANGED <<disk, filePos, mem, af_Offset, af_CurrentBuf, af_SeekOffset>>
      /\ UNCHANGED <<af_ReadMode, trouble, stage, start, sent>>
  BY DEF ReadStops, Return, file, opened, Taken, TransferSame, transferVars
<1>2. /\ af_BytesLeft \in Nat /\ af_BytesLeft \in 0..af_BytesLeft /\ af_SeekOffset \in Nat
      /\ Len(disk) \in Nat /\ filePos \in Nat /\ Res1 \in Int /\ Brought = 0
      /\ Expected \in Nat /\ Position \in Nat
      /\ Position = filePos - 0 - af_BytesLeft + af_SeekOffset
  <2>1. ~(Res1 > 0) /\ Res1 \in Int
    <3>1. af_ReadMode
      BY DEF Downloading
    <3>2. Res1 \in Int
      BY <3>1, DownloadNumbers
    <3> QED  BY <1>1, <3>2
  <2>2. Brought = 0
    BY <2>1 DEF Brought
  <2> QED  BY <2>1, <2>2, DownloadNumbers DEF Downloading
<1>3. stage = "read" /\ Chunk' /\ Len(buffer') = Len(buffer) + af_BytesLeft
  BY <1>1, <1>2, ChunkGrows
<1>4. af_Packet'.at = "none" /\ af_Packet'.res1 = Res1
  BY <1>1, Layout, MarkedPacket
<1>5. Brought' = 0
  <2>1. ~(Res1 > 0)
    BY <1>1, <1>2
  <2> QED  BY <1>4, <2>1 DEF Brought
<1>6. Window' /\ ReadAhead' /\ ShortRead'
  <2>1. Buffers(af_CurrentBuf) \in Nat /\ Addresses \subseteq Int
    BY Layout DEF Addresses
  <2> QED  BY <1>1, <1>4, <1>5, <2>1 DEF Window, ReadAhead, ShortRead
<1>7. ReadTrouble'
  BY <1>1, <1>2, <1>4 DEF ReadTrouble, Seeks
<1>8. InStep'
  <2>1. CASE Res1 < 0
    BY <1>4, <2>1 DEF InStep, Broke
  <2>2. CASE Res1 = 0
    <3>1. ~Broke /\ call \notin Seeks
      BY <1>1, <2>2 DEF Broke, Seeks
    <3>2. Position' = Position + af_BytesLeft
      <4>1. Position' = filePos - 0 - 0 + af_SeekOffset
        BY <1>1, <1>5 DEF Position
      <4> QED  BY <1>2, <4>1
    <3>3. Here' = Position' /\ Expected' = Expected + af_BytesLeft
      <4>1. start \in Nat /\ Len(sent) \in Nat /\ Len(buffer) \in Nat
        BY DownloadNumbers DEF Downloading
      <4>2. start + Len(sent) + (Len(buffer) + af_BytesLeft)
            = start + Len(sent) + Len(buffer) + af_BytesLeft
        BY <1>2, <4>1
      <4> QED  BY <1>1, <1>3, <4>2 DEF Here, Expected
    <3>4. CASE Here = Expected
      BY <3>1, <3>2, <3>3, <3>4, DownloadStanding DEF InStep
    <3>5. CASE Behind /\ af_BytesLeft = 0
      <4>1. Here = Position
        BY <3>1, DownloadStanding
      <4>2. buffer' = <<>>
        <5>1. buffer' \in Seq(Int)
          BY <1>1, <1>2, CopiedBytes DEF ShapeInv, Shape, Downloading
        <5>2. Len(buffer') = 0
          BY <1>3, <3>5 DEF Behind
        <5> QED  BY <5>1, <5>2
      <4>3. Here' >= Len(disk) /\ Expected' >= Len(disk)
        BY <1>2, <3>2, <3>3, <3>5, <4>1 DEF Behind
      <4> QED  BY <1>1, <3>5, <4>2, <4>3 DEF InStep, Behind, Seeks
    <3> QED  BY <3>1, <3>4, <3>5, DownloadStanding
  <2> QED  BY <1>1, <1>2, <2>1, <2>2
<1> QED  BY <1>3, <1>6, <1>7, <1>8 DEF ReadData

LEMMA DownloadReadServed ==
  ASSUME ShapeInv, ReadData, Downloading, ReadServed, TransferSame
  PROVE  ReadData'
<1>1. /\ call = "ReadAsync" /\ call' = "none" /\ numBytes <= af_BytesLeft
      /\ buffer' = buffer \o Bytes(af_Offset, numBytes)
      /\ af_BytesLeft' = af_BytesLeft - numBytes /\ af_Offset' = af_Offset + numBytes
      /\ UNCHANGED <<disk, filePos, mem, af_CurrentBuf, af_SeekOffset, af_Packet>>
      /\ UNCHANGED <<af_ReadMode, trouble, stage, start, sent>>
  BY DEF ReadServed, Return, file, opened, TransferSame, transferVars
<1>2. /\ numBytes \in Nat /\ numBytes > 0 /\ numBytes \in 0..af_BytesLeft
      /\ af_BytesLeft \in Nat /\ af_BytesLeft # 0 /\ af_Offset \in Nat
      /\ filePos \in Nat /\ Brought \in Nat /\ af_SeekOffset \in Nat /\ Position \in Nat
      /\ Position = filePos - Brought - af_BytesLeft + af_SeekOffset
  <2>1. numBytes > 0 /\ numBytes \in Int
    BY <1>1, DownloadNumbers DEF Downloading, ShapeInv, Calling, ReadCall
  <2>2. af_BytesLeft \in Nat /\ Brought \in Nat
    BY DownloadNumbers, Layout DEF Downloading
  <2> QED  BY <1>1, <2>1, <2>2, DownloadNumbers DEF Downloading
<1>3. stage = "read" /\ Chunk' /\ Len(buffer') = Len(buffer) + numBytes
  BY <1>1, <1>2, ChunkGrows
<1>4. af_Packet.at # "none"
  BY <1>2 DEF ReadData, ReadTrouble
<1>5. Position = Expected
  BY <1>1, <1>2, <1>4, DownloadStanding DEF Broke, Seeks
<1>6. Brought' = Brought
  BY <1>1 DEF Brought
<1>7. Position' = Position + numBytes
  <2>1. Position' = filePos - Brought - (af_BytesLeft - numBytes) + af_SeekOffset
    BY <1>1, <1>6 DEF Position
  <2> QED  BY <1>2, <2>1
<1>8. Window'
  <2> SUFFICES ASSUME NEW a \in Addresses, Buffers(1 - af_CurrentBuf) <= a,
                      a < af_Offset' + af_BytesLeft'
               PROVE  mem[a] = Position' + (a - af_Offset')
    BY <1>1 DEF Window
  <2>1. a \in Int
    BY Layout DEF Addresses
  <2>2. af_Offset' + af_BytesLeft' = af_Offset + af_BytesLeft
        /\ Position' + (a - af_Offset') = Position + (a - af_Offset)
    BY <1>1, <1>2, <1>7, <2>1
  <2> QED  BY <1>4, <2>2 DEF ReadData, Window
<1>9. ReadAhead' /\ ShortRead'
  BY <1>1, <1>6 DEF ReadData, ReadAhead, ShortRead
<1>10. ReadTrouble'
  BY <1>1, <1>4 DEF ReadData, ReadTrouble, Seeks
<1>11. InStep'
  <2>1. start \in Nat /\ Len(sent) \in Nat /\ Len(buffer) \in Nat
    BY DownloadNumbers DEF Downloading
  <2>2. start + Len(sent) + (Len(buffer) + numBytes) = start + Len(sent) + Len(buffer) + numBytes
    BY <1>2, <2>1
  <2>3. Here' = Position' /\ Expected' = Expected + numBytes
    BY <1>1, <1>3, <2>2 DEF Here, Expected
  <2> QED  BY <1>5, <1>7, <2>3 DEF InStep
<1> QED  BY <1>3, <1>8, <1>9, <1>10, <1>11 DEF ReadData

LEMMA SteadyTrouble ==
  ASSUME ShapeInv, Steady
  PROVE  "partial_end" \notin trouble /\ ("partial" \in trouble => "read" \notin trouble)
BY DEF ShapeInv, Types, FileTypes, Steady

(* SeekAsync() in each of its cases: it fails only after an error or behind
   the end of the file, and nothing is lost in the others. *)
LEMMA DownloadSeekAsync ==
  ASSUME ShapeInv, Steady, ReadData, Downloading, SeekAsync, TransferSame
  PROVE  ReadData'
<1>0. /\ call \in Seeks /\ af_Packet.at # "handler" /\ af_ReadMode /\ stage = "open"
      /\ af_SeekOffset = 0
      /\ UNCHANGED <<disk, mem, af_ReadMode, trouble, numBytes, buffer>>
      /\ UNCHANGED <<stage, start, sent>>
  BY DEF SeekAsync, opened, TransferSame, transferVars, ShapeInv, Calling, SeekCall
<1>1. af_Packet.at # "none" /\ ~Broke /\ ~Behind
  BY <1>0 DEF ReadData, ReadTrouble, Broke, Behind
<1>2. Here = Expected /\ Expected' = Expected /\ Chunk'
  BY <1>0, <1>1, DownloadStanding DEF Expected, Chunk
<1>3. /\ Res1 \in Int /\ Position \in Nat /\ Buffers(af_CurrentBuf) \in Nat
      /\ Buffers(1 - af_CurrentBuf) \in Nat /\ Addresses \subseteq Int
      /\ filePos \in Nat /\ af_BytesLeft \in Nat /\ af_Offset \in Nat
  BY <1>0, DownloadNumbers, Layout DEF Addresses
<1>4. Res1 >= 0 => Here = SeekTarget
  BY <1>0, CurrentIsPosition DEF Here, SeekTarget, Seeks
<1>5. ASSUME af_Packet'.at = "none", af_Packet'.res1 \in Int, af_Packet'.res1 < 0,
             af_BytesLeft' = 0, af_CurrentBuf' = af_CurrentBuf, call' = "none"
      PROVE  ReadData'
  <2>1. Broke' /\ ~(af_Packet'.res1 > 0)
    BY <1>5 DEF Broke
  <2>2. Brought' = 0
    BY <2>1 DEF Brought
  <2>3. \A a \in Addresses : ~(Buffers(af_CurrentBuf) <= a /\ a < Buffers(af_CurrentBuf) + 0)
    BY <1>3
  <2>4. Window' /\ ReadAhead' /\ ShortRead'
    BY <1>5, <2>2, <2>3 DEF Window, ReadAhead, ShortRead
  <2>5. ReadTrouble' /\ InStep'
    BY <1>0, <1>5, <2>1 DEF ReadTrouble, InStep, Seeks
  <2> QED  BY <1>2, <2>4, <2>5 DEF ReadData
<1>6. ASSUME call' = "none", Position' = SeekTarget, af_Packet'.at # "none",
             af_Packet'.res1 = Res1, Res1 >= 0, Window', ReadAhead', ShortRead'
      PROVE  ReadData'
  <2>1. Here' = Expected'
    BY <1>2, <1>4, <1>6 DEF Here
  <2>2. ReadTrouble'
    BY <1>0, <1>3, <1>6 DEF ReadTrouble, Seeks
  <2> QED  BY <1>2, <1>6, <2>1, <2>2 DEF ReadData, InStep
<1>7. CASE /\ Res1 < 0 /\ af_Packet' = Taken /\ Return(Failed)
           /\ UNCHANGED <<filePos, af_Offset, af_BytesLeft, af_CurrentBuf, af_SeekOffset>>
  <2>1. af_Packet'.at = "none" /\ af_Packet'.res1 = Res1
    BY <1>7, Layout, MarkedPacket DEF Taken
  <2>2. af_BytesLeft = 0
    <3>1. "read" \in trouble
      BY <1>1, <1>7 DEF ReadData, ReadTrouble
    <3>2. call = "SeekAsync_MODE_START"
      BY <1>0, <3>1, SteadyTrouble DEF ReadData, ReadTrouble, Seeks
    <3> QED  BY <3>2 DEF ReadData, ReadTrouble
  <2> QED  BY <1>3, <1>5, <1>7, <2>1, <2>2 DEF Return
<1>8. CASE Res1 >= 0 /\ RoundTarget(SeekTarget) > Len(disk) /\ SeekElsewhere(SeekTarget)
  <2>1. /\ af_Packet' = Broken /\ af_BytesLeft' = 0 /\ call' = "none"
        /\ af_CurrentBuf' = af_CurrentBuf
    BY <1>8 DEF SeekElsewhere, Return
  <2>2. af_Packet'.at = "none" /\ af_Packet'.res1 = -1
    <3>1. -1 \in -1..BufferSize
      BY Layout
    <3> QED  BY <2>1, <3>1, Layout, AnsweredPacket DEF Broken
  <2> QED  BY <1>5, <2>1, <2>2
<1>9. CASE Res1 >= 0 /\ RoundTarget(SeekTarget) <= Len(disk) /\ SeekElsewhere(SeekTarget)
  <2>1. /\ SeekLeads /\ af_BytesLeft' = 0 /\ af_CurrentBuf' = 0 /\ af_Offset' = Buffers(1)
        /\ af_Packet'.at = "handler" /\ call' = "none"
    BY <1>0, <1>9, SeekElsewhereLeads
  <2>2. af_Packet' = Sent(0)
    <3>1. RoundTarget(SeekTarget) \in Nat /\ Len(disk) \in Nat
      BY <1>0, <1>9, SeekTargetIsNat, RoundTargetProperties, DownloadNumbers
    <3>2. ~(RoundTarget(SeekTarget) > Len(disk))
      BY <1>9, <3>1
    <3> QED  BY <1>9, <3>2 DEF SeekElsewhere
  <2>3. af_Packet'.res1 = Res1
    BY <2>2, Layout, SentPacket
  <2>4. Brought' = 0
    BY <2>1 DEF Brought
  <2>5. Window'
    <3>1. \A a \in Addresses : ~(Buffers(1 - 0) <= a /\ a < Buffers(1) + 0)
      BY <1>3, BuffersAt, Sizes
    <3> QED  BY <2>1, <3>1 DEF Window
  <2>6. ReadAhead' /\ ShortRead'
    <3>1. \A a \in Addresses : ~(Buffers(0) <= a /\ a < Buffers(0) + 0)
      BY <1>3, BuffersAt
    <3> QED  BY <2>1, <2>4, <3>1 DEF ReadAhead, ShortRead
  <2> QED  BY <1>6, <1>9, <2>1, <2>3, <2>5, <2>6 DEF SeekLeads
<1>10. CASE /\ Res1 >= 0 /\ SeekTarget >= MinBuf
            /\ SeekTarget < Position \/ SeekTarget - Position <= af_BytesLeft
            /\ SeekInBuffer(SeekTarget - Current)
  <2>1. /\ SeekLeads /\ af_Offset' = af_Offset + (SeekTarget - Position)
        /\ af_Offset' + af_BytesLeft' = af_Offset + af_BytesLeft
        /\ UNCHANGED <<filePos, af_CurrentBuf, af_SeekOffset>>
        /\ af_Packet'.at = "port" /\ af_Packet'.res1 = Res1 /\ call' = "none"
    BY <1>0, <1>10, SeekInBufferLeads
  <2>2. Brought' = Brought
    BY <1>0, <2>1 DEF Brought
  <2>3. Position' = SeekTarget /\ SeekTarget \in Nat
    BY <1>0, <1>10, <2>1, SeekTargetIsNat DEF SeekLeads
  <2>4. Window'
    <3> SUFFICES ASSUME NEW a \in Addresses, Buffers(1 - af_CurrentBuf) <= a,
                        a < af_Offset' + af_BytesLeft'
                 PROVE  mem[a] = Position' + (a - af_Offset')
      BY <1>0, <2>1 DEF Window
    <3>1. mem[a] = Position + (a - af_Offset)
      BY <1>1, <2>1 DEF ReadData, Window
    <3> QED  BY <1>3, <2>1, <2>3, <3>1
  <2>5. ReadAhead' /\ ShortRead'
    BY <1>0, <2>1, <2>2 DEF ReadData, ReadAhead, ShortRead
  <2> QED  BY <1>6, <1>10, <2>1, <2>3, <2>4, <2>5
<1>11. CASE /\ Res1 >= 0 /\ SeekTarget < MaxBuf /\ SeekTarget - Position > af_BytesLeft
            /\ SeekAhead(SeekTarget - Current)
  <2>1. /\ SeekLeads /\ af_CurrentBuf' = 1 - af_CurrentBuf /\ af_SeekOffset' = 0
        /\ af_Offset' + af_BytesLeft' = Buffers(af_CurrentBuf) + Res1
        /\ af_Offset' \in Nat /\ af_BytesLeft' \in Nat
        /\ af_Packet'.at = "handler" /\ UNCHANGED filePos /\ call' = "none"
    BY <1>0, <1>11, SeekAheadLeads
  <2>2. af_Packet'.res1 = Res1
    <3>1. 1 - af_CurrentBuf \in {0, 1}
      BY Layout
    <3>2. af_Packet' = Sent(1 - af_CurrentBuf)
      BY <1>11 DEF SeekAhead
    <3> QED  BY <3>1, <3>2, Layout, SentPacket
  <2>3. Brought' = 0 /\ Brought = Res1
    BY <1>0, <1>3, <1>11, <2>1 DEF Brought
  <2>4. Position' = filePos - af_BytesLeft'
    <3>1. Position' = filePos - 0 - af_BytesLeft' + 0
      BY <2>1, <2>3 DEF Position
    <3> QED  BY <1>3, <2>1, <3>1
  <2>5. Window'
    <3>1. 1 - af_CurrentBuf' = af_CurrentBuf
      BY <2>1, Layout
    <3> SUFFICES ASSUME NEW a \in Addresses, Buffers(af_CurrentBuf) <= a,
                        a < af_Offset' + af_BytesLeft'
                 PROVE  mem[a] = Position' + (a - af_Offset')
      BY <1>0, <3>1 DEF Window
    <3>2. a < Buffers(af_CurrentBuf) + Brought
      BY <2>1, <2>3
    <3>3. mem[a] = filePos - Brought + (a - Buffers(af_CurrentBuf))
      BY <3>2 DEF ReadData, ReadAhead
    <3>4. a \in Int
      BY <1>3
    <3> QED  BY <1>3, <2>1, <2>3, <2>4, <3>3, <3>4
  <2>6. ReadAhead' /\ ShortRead'
    <3>1. \A a \in Addresses : ~(Buffers(1 - af_CurrentBuf) <= a
                                 /\ a < Buffers(1 - af_CurrentBuf) + 0)
      BY <1>3
    <3> QED  BY <2>1, <2>3, <3>1 DEF ReadAhead, ShortRead
  <2> QED  BY <1>6, <1>11, <2>1, <2>2, <2>5, <2>6 DEF SeekLeads
<1> QED  BY <1>7, <1>8, <1>9, <1>10, <1>11, SeekCases

(* A transfer that is not a download any more, or not a download yet. *)
LEMMA DownloadOver ==
  ASSUME SentInOrder, UNCHANGED <<start, sent>>, ~Downloading'
  PROVE  DownloadInv'
BY DEF DownloadInv, SentInOrder, ReadData

LEMMA DownloadDoFile ==
  ASSUME ShapeInv, DoFile
  PROVE  DownloadInv'
<1>1. PICK size \in 0..MaxSize, reading \in BOOLEAN :
        /\ OpenAsync(FileOf(size), reading)
        /\ reading =>
             \E offset \in 0..(MaxSize + BlockSize) :
               /\ start' = offset /\ numBytes' = offset
               /\ call' = IF offset = 0 THEN "none" ELSE "SeekAsync_MODE_START"
  BY DEF DoFile
<1>2. stage' = "open" /\ sent' = <<>> /\ af_ReadMode' = reading
  BY <1>1 DEF DoFile, OpenAsync
<1>3. SentInOrder' /\ Len(sent') = 0
  BY <1>2 DEF SentInOrder
<1>4. CASE ~reading
  BY <1>2, <1>3, <1>4 DEF DownloadInv, ReadData, Downloading
<1>5. CASE reading
  <2>1. /\ filePos' = 0 /\ af_Offset' = Buffers(1) /\ af_BytesLeft' = 0
        /\ af_CurrentBuf' = 0 /\ af_SeekOffset' = 0
        /\ af_Packet' = [at |-> "handler", arg2 |-> 0, res1 |-> 0]
    BY <1>1, <1>5 DEF OpenAsync
  <2>2. af_Packet'.at = "handler" /\ af_Packet'.res1 = 0
    BY <2>1
  <2>3. Brought' = 0 /\ Position' = 0
    BY <2>1, <2>2 DEF Brought, Position
  <2>4. Window' /\ ReadAhead' /\ ShortRead'
    <3>1. \A a \in Addresses : /\ ~(Buffers(1 - 0) <= a /\ a < Buffers(1) + 0)
                               /\ ~(Buffers(0) <= a /\ a < Buffers(0) + 0)
      BY BuffersAt, Sizes DEF Addresses
    <3> QED  BY <2>1, <2>3, <3>1 DEF Window, ReadAhead, ShortRead
  <2>5. Chunk' /\ ReadTrouble'
    <3>1. call' \in {"none", "SeekAsync_MODE_START"}
      BY <1>1, <1>5
    <3> QED  BY <1>2, <2>1, <2>2, <3>1 DEF Chunk, ReadTrouble
  <2>6. Expected' = start'
    <3>1. start' + 0 + 0 = start'
      <4>1. start' \in Int
        BY <1>1, <1>5, TransferAssumption, Sizes DEF TransferAssumption
      <4>2. \A x \in Int : x + 0 + 0 = x
        OBVIOUS
      <4> QED  BY <4>1, <4>2
    <3> QED  BY <1>2, <1>3, <3>1 DEF Expected
  <2>7. Here' = Expected'
    BY <1>1, <1>5, <2>3, <2>6 DEF Here
  <2> QED  BY <1>3, <2>4, <2>5, <2>7 DEF DownloadInv, ReadData, InStep
<1> QED  BY <1>4, <1>5

LEMMA DownloadWriteToData ==
  ASSUME ShapeInv, DownloadInv, WriteToData
  PROVE  DownloadInv'
<1>1. /\ stage = "open" /\ call = "none" /\ af_ReadMode
      /\ call' = "ReadAsync" /\ buffer' = <<>> /\ stage' = "read"
      /\ UNCHANGED <<start, sent, disk, filePos, mem, af_Offset, af_BytesLeft>>
      /\ UNCHANGED <<af_CurrentBuf, af_SeekOffset, af_ReadMode, trouble, af_Packet, result>>
  BY DEF WriteToData, Begin, OthersOfCall, file, buffers, opened
<1>2. Downloading /\ ReadData /\ SentInOrder'
  BY <1>1 DEF Downloading, DownloadInv, SentInOrder
<1>3. Brought' = Brought /\ Position' = Position
  BY <1>1 DEF Brought, Position
<1>4. Window' /\ ReadAhead' /\ ShortRead'
  BY <1>1, <1>2, <1>3 DEF ReadData, Window, ReadAhead, ShortRead
<1>5. Len(buffer') = 0 /\ Chunk'
  BY <1>1 DEF Chunk
<1>6. Expected' = Expected /\ Here' = Here
  BY <1>1, <1>3, <1>5 DEF Expected, Here
<1>7. ReadTrouble' /\ InStep'
  BY <1>1, <1>2, <1>6 DEF ReadData, ReadTrouble, InStep, Broke, Behind, Seeks
<1> QED  BY <1>2, <1>4, <1>5, <1>7 DEF DownloadInv, ReadData

(* A part of a chunk is appended to what the peer has. *)
LEMMA SendAppends ==
  ASSUME ShapeInv, NEW n \in 1..Len(buffer), sent' = sent \o SubSeq(buffer, 1, n)
  PROVE  /\ sent' \in Seq(Int) /\ Len(sent') = Len(sent) + n
         /\ \A i \in 1..(Len(sent) + n) :
              sent'[i] = IF i <= Len(sent) THEN sent[i] ELSE buffer[i - Len(sent)]
<1> DEFINE p == SubSeq(buffer, 1, n)
<1>1. /\ Len(sent) \in Nat /\ sent \in Seq(Int) /\ buffer \in Seq(Int)
      /\ Len(buffer) \in Nat /\ n \in Nat /\ n <= Len(buffer)
  BY DEF ShapeInv, Types, TransferTypes, CallTypes
<1>2. p \in Seq(Int) /\ Len(p) = n /\ \A i \in 1..n : p[i] = buffer[i]
  BY <1>1
<1>3. sent' = sent \o p
  OBVIOUS
<1> HIDE DEF p
<1>4. /\ sent \o p \in Seq(Int) /\ Len(sent \o p) = Len(sent) + Len(p)
      /\ \A i \in 1..(Len(sent) + Len(p)) :
           (sent \o p)[i] = IF i <= Len(sent) THEN sent[i] ELSE p[i - Len(sent)]
  BY <1>1, <1>2, ConcatProperties, ZenonT(30)
<1>5. \A i \in 1..(Len(sent) + n) : ~(i <= Len(sent)) => i - Len(sent) \in 1..n
  BY <1>1
<1> QED  BY <1>2, <1>3, <1>4, <1>5

(* A chunk that was read follows what the peer has. *)
LEMMA ChunkIsNext ==
  ASSUME ShapeInv, DownloadInv, stage = "read", call = "none", result > 0
  PROVE  ~Broke /\ Position = start + Len(sent) + Len(buffer)
<1>1. Downloading /\ ReadData /\ result = Len(buffer)
  BY DEF DownloadInv, Downloading, ShapeInv, Calling, CallOfStage, ChunkRead
<1>2. ~Broke
  BY <1>1 DEF Broke, ReadData, ReadTrouble
<1>3. buffer # <<>>
  BY <1>1
<1> QED  BY <1>1, <1>2, <1>3, DownloadStanding DEF Behind, Expected, Seeks

LEMMA DownloadSend ==
  ASSUME ShapeInv, Steady, DownloadInv, Send
  PROVE  DownloadInv'
<1>1. /\ stage = "read" /\ call = "none" /\ result > 0 /\ stage' = "open" /\ af_ReadMode
      /\ af_SeekOffset = 0 /\ result = Len(buffer) /\ result \in Nat
      /\ UNCHANGED <<start, disk, filePos, mem, af_Offset, af_BytesLeft>>
      /\ UNCHANGED <<af_CurrentBuf, af_SeekOffset, af_ReadMode, trouble, af_Packet>>
  BY DEF Send, OthersOfCall, file, buffers, opened, ShapeInv, Calling, CallOfStage, ChunkRead,
         Types, CallTypes
<1>2. PICK n \in Takes :
        /\ sent' = sent \o SubSeq(buffer, 1, n)
        /\ IF n < result THEN Begin("SeekAsync_MODE_CURRENT", n - result, buffer)
           ELSE UNCHANGED <<call, numBytes, buffer>>
  BY DEF Send
<1>3. n \in 1..result
  BY <1>1, TakesPart
<1>4. Downloading /\ ReadData /\ SentInOrder
  BY <1>1 DEF Downloading, DownloadInv
<1>5. ~Broke /\ Position = start + Len(sent) + Len(buffer)
  BY <1>1, ChunkIsNext
<1>6. n < result => af_Packet.at # "none" /\ "partial" \in trouble
  <2> SUFFICES ASSUME n < result PROVE af_Packet.at # "none" /\ "partial" \in trouble
    OBVIOUS
  <2>1. ~(n \in {result})
    BY <1>1, <1>3
  <2>2. (IF AtEnd THEN "partial_end" ELSE "partial") \in trouble
    BY <2>1 DEF Takes
  <2>3. ~AtEnd /\ "partial" \in trouble
    BY <2>2, SteadyTrouble
  <2>4. af_Packet.at # "none"
    <3> SUFFICES ASSUME af_Packet.at = "none" PROVE FALSE
      OBVIOUS
    <3>1. Res1 <= 0 /\ ~(Res1 < 0)
      BY <1>4, <1>5 DEF Broke, ReadData, ReadTrouble
    <3>2. Res1 \in Int
      BY <1>1, DownloadNumbers
    <3>3. Res1 = 0
      BY <3>1, <3>2
    <3> QED  BY <2>3, <3>3 DEF AtEnd
  <2> QED  BY <2>3, <2>4
<1>7. /\ start \in Nat /\ Len(sent) \in Nat /\ sent \in Seq(Int) /\ buffer \in Seq(Int)
      /\ Len(buffer) \in Nat /\ n \in Nat /\ n <= Len(buffer)
  BY <1>1, <1>3 DEF ShapeInv, Types, TransferTypes, CallTypes
<1>8. /\ sent' \in Seq(Int) /\ Len(sent') = Len(sent) + n
      /\ \A i \in 1..(Len(sent) + n) :
           sent'[i] = IF i <= Len(sent) THEN sent[i] ELSE buffer[i - Len(sent)]
  BY <1>1, <1>2, <1>3, SendAppends
<1>9. SentInOrder'
  <2> SUFFICES ASSUME NEW i \in 1..(Len(sent) + n) PROVE sent'[i] = start + i - 1
    BY <1>1, <1>8 DEF SentInOrder
  <2>1. CASE i <= Len(sent)
    <3>1. i \in DOMAIN sent /\ sent'[i] = sent[i]
      BY <1>7, <1>8, <2>1
    <3> QED  BY <1>4, <3>1 DEF SentInOrder
  <2>2. CASE ~(i <= Len(sent))
    <3> DEFINE j == i - Len(sent)
    <3>1. j \in 1..Len(buffer) /\ sent'[i] = buffer[j]
      BY <1>7, <1>8, <2>2
    <3>2. buffer[j] = start + Len(sent) + j - 1
      BY <1>1, <1>4, <3>1 DEF ReadData, Chunk
    <3> QED  BY <1>7, <3>1, <3>2
  <2> QED  BY <2>1, <2>2
<1>10. Brought' = Brought /\ Position' = Position
  BY <1>1 DEF Brought, Position
<1>11. Window' /\ ReadAhead' /\ ShortRead' /\ Chunk'
  BY <1>1, <1>4, <1>10 DEF ReadData, Window, ReadAhead, ShortRead, Chunk
<1>12. Expected' = start + Len(sent) + n
  <2>1. start + (Len(sent) + n) + 0 = start + Len(sent) + n
    BY <1>7
  <2> QED  BY <1>1, <1>8, <2>1 DEF Expected
<1>13. CASE n < result
  <2>1. call' = "SeekAsync_MODE_CURRENT" /\ numBytes' = n - result
    BY <1>2, <1>13 DEF Begin
  <2>2. Here' = Expected'
    <3>1. Here' = Position + (n - result)
      BY <1>10, <2>1 DEF Here
    <3> QED  BY <1>1, <1>5, <1>7, <1>12, <3>1
  <2>3. ReadTrouble'
    BY <1>1, <1>4, <1>6, <1>13, <2>1 DEF ReadData, ReadTrouble, Seeks
  <2> QED  BY <1>9, <1>11, <2>2, <2>3 DEF DownloadInv, ReadData, InStep
<1>14. CASE ~(n < result)
  <2>1. call' = "none" /\ n = Len(buffer)
    BY <1>1, <1>2, <1>3, <1>14
  <2>2. Here' = Expected'
    BY <1>5, <1>10, <1>12, <2>1 DEF Here
  <2>3. ReadTrouble'
    BY <1>1, <1>4, <2>1 DEF ReadData, ReadTrouble, Seeks
  <2> QED  BY <1>9, <1>11, <2>2, <2>3 DEF DownloadInv, ReadData, InStep
<1> QED  BY <1>13, <1>14

LEMMA DownloadStays ==
  ASSUME DownloadInv, UNCHANGED vars
  PROVE  DownloadInv'
<1>1. /\ UNCHANGED <<disk, filePos, mem, af_Offset, af_BytesLeft, af_CurrentBuf>>
      /\ UNCHANGED <<af_SeekOffset, af_ReadMode, trouble, af_Packet>>
      /\ UNCHANGED <<call, numBytes, buffer, result, stage, start, sent>>
  BY DEF vars, asyncVars, transferVars, file, buffers, opened
<1>2. Brought' = Brought /\ Position' = Position
  BY <1>1 DEF Brought, Position
<1>3. Expected' = Expected /\ Here' = Here /\ (Downloading <=> Downloading')
  BY <1>1, <1>2 DEF Expected, Here, Downloading
<1>4. Downloading' => Window' /\ ReadAhead' /\ ShortRead' /\ Chunk'
  BY <1>1, <1>2, <1>3 DEF DownloadInv, ReadData, Window, ReadAhead, ShortRead, Chunk
<1>5. Downloading' => ReadTrouble' /\ InStep'
  BY <1>1, <1>3 DEF DownloadInv, ReadData, ReadTrouble, InStep, Broke, Behind
<1> QED  BY <1>1, <1>4, <1>5 DEF DownloadInv, SentInOrder, ReadData

LEMMA DownloadInit == Init => DownloadInv
BY DEF Init, DownloadInv, SentInOrder, ReadData, Downloading

LEMMA DownloadNext ==
  ASSUME Steady, ShapeInv, UploadInv, DownloadInv, [Next]_vars
  PROVE  DownloadInv'
<1>0. SentInOrder /\ ReadData /\ Numbered
  BY DEF DownloadInv, UploadInv
<1>1. CASE (Handler \/ Progress) /\ TransferSame
  <2>1. UNCHANGED <<stage, start, sent>> /\ SentInOrder'
    BY <1>0, <1>1 DEF TransferSame, transferVars, SentInOrder
  <2>2. af_ReadMode' = af_ReadMode
    BY <1>1 DEF Handler, Progress, HandlerReads, HandlerWrites, HandlerFails,
                WaitPacketRetries, Refill, ReadStops, ReadServed, Flush, WriteServed,
                SeekAsync, Close, opened
  <2>3. CASE Downloading
    <3>1. ~HandlerWrites /\ ~Flush /\ ~WriteServed /\ ~Close
      BY <2>3 DEF Downloading, HandlerWrites, Flush, WriteServed, Close, ShapeInv, Calling,
                  WriteCall, CloseCall
    <3>2. ReadData'
      BY <1>0, <1>1, <2>3, <3>1, DownloadHandlerReads, DownloadPacket, DownloadRefill,
         DownloadReadStops, DownloadReadServed, DownloadSeekAsync
      DEF Handler, Progress
    <3> QED  BY <2>1, <3>2 DEF DownloadInv
  <2>4. CASE ~Downloading
    BY <1>0, <2>1, <2>2, <2>4, DownloadOver DEF Downloading
  <2> QED  BY <2>3, <2>4
<1>2. CASE DoFile
  BY <1>2, DownloadDoFile
<1>3. CASE WriteToData
  BY <1>3, DownloadWriteToData
<1>4. CASE Send
  BY <1>4, DownloadSend
<1>5. CASE SendEnds \/ RecvEnds \/ CmdAbor \/ Abort \/ Closed
  BY <1>0, <1>5, DownloadOver
  DEF SendEnds, RecvEnds, CmdAbor, Abort, Closed, FreeData, Downloading
<1>6. CASE ReadFromData \/ WriteReturns
  <2>1. ~af_ReadMode' /\ UNCHANGED <<start, sent>>
    BY <1>6 DEF ReadFromData, WriteReturns, OthersOfCall, opened, ShapeInv, Calling, CallOfStage
  <2> QED  BY <1>0, <2>1, DownloadOver DEF Downloading
<1>7. CASE UNCHANGED vars
  BY <1>7, DownloadStays
<1> QED  BY <1>1, <1>2, <1>3, <1>4, <1>5, <1>6, <1>7 DEF Next, Server

(* The peer of a download has the bytes of the file from the offset on, each
   once and in order, for all sizes: as long as no connection that takes only
   a part of a chunk does so with the last chunk of a file or with one whose
   packets fail, where the runs show what goes wrong. *)
THEOREM DownloadsInOrder == ASSUME Steady PROVE Spec => []SentInOrder
<1>1. ShapeInv /\ UploadInv /\ DownloadInv /\ [Next]_vars => DownloadInv'
  BY DownloadNext
<1>2. DownloadInv => SentInOrder
  BY DEF DownloadInv
<1> QED  BY <1>1, <1>2, ShapeInit, ShapeNext, UploadInit, UploadNext, DownloadInit, PTL DEF Spec

-----------------------------------------------------------------------------
(* The transfer implements the stream *)

(* What the invariant needs for the answer: where the end of the file has been
   seen, and that 226 after a download comes only there, or from ABOR. *)
Answered == stage \in {"closing", "closed"} => reply # "pending"
SentBounded == af_ReadMode => Len(sent) = 0 \/ start + Len(sent) <= Len(disk)
EndFound == Downloading /\ Returned /\ Res1 = 0 => filePos = Len(disk)
EndSeen ==
  stage = "read" /\ call = "none" /\ result = 0 => start + Len(sent) >= Len(disk)
EndReached ==
  af_ReadMode /\ stage \in {"closing", "closed"} /\ reply = "226" /\ ~abor
  => start + Len(sent) >= Len(disk)
Appends == ~af_ReadMode => start <= Len(disk)
AborAnswered == abor => stage \in {"closing", "closed"} /\ reply = "226"
EndInv ==
  /\ Answered /\ AborAnswered /\ Appends
  /\ SentBounded /\ EndFound /\ EndSeen /\ EndReached

(* What module Stream sees of the state: both are parts of the same bytes. *)
Source ==
  IF af_ReadMode THEN Between(start, IF start < Len(disk) THEN Len(disk) ELSE start)
  ELSE Between(start, received)
Moved == IF af_ReadMode THEN sent ELSE SubSeq(disk, start + 1, Len(disk))
Answer == IF stage = "closed" THEN reply ELSE "pending"
Stopped == stage = "closed" /\ abor

SourceLength ==
  IF ~af_ReadMode THEN received - start
  ELSE IF start < Len(disk) THEN Len(disk) - start ELSE 0
MovedLength == IF af_ReadMode THEN Len(sent) ELSE Len(disk) - start
Streaming ==
  /\ start \in Nat /\ SourceLength \in Nat /\ MovedLength \in 0..SourceLength
  /\ Source = Between(start, start + SourceLength)
  /\ Moved = Between(start, start + MovedLength)

(* Writing makes a file longer. *)
LEMMA DiskGrows ==
  ASSUME ShapeInv, ~af_ReadMode, HandlerWrites \/ Close
  PROVE  Len(disk') \in Nat /\ Len(disk') >= Len(disk)
<1>1. /\ disk \in Seq(Int) /\ filePos = Len(disk) /\ Len(disk) \in Nat
      /\ mem \in [Addresses -> Int] /\ Collected \in Nat /\ BufferSize \in Nat
      /\ Collected = BufferSize - af_BytesLeft /\ Collected <= BufferSize
  BY UploadNumbers, Layout DEF ShapeInv, Types, FileTypes, BufferTypes
<1>2. ASSUME NEW at \in Nat, NEW n \in Nat, at + n <= 2 * BufferSize,
             disk' = Written(Bytes(at, n))
      PROVE  Len(disk') \in Nat /\ Len(disk') >= Len(disk)
  <2> DEFINE s == Bytes(at, n)
  <2>1. s \in Seq(Int) /\ Len(s) = n /\ disk' = Written(s)
    BY <1>1, <1>2, BytesProperties
  <2> HIDE DEF s
  <2>2. Len(disk') = Len(disk) + Len(s)
    BY <1>1, <2>1, WrittenProperties
  <2> QED  BY <1>1, <2>1, <2>2
<1>3. CASE HandlerWrites
  <2>1. af_Packet.arg2 \in {0, 1}
    BY Layout, PacketFields
  <2> QED  BY <1>1, <1>2, <1>3, <2>1, BuffersAt DEF HandlerWrites
<1>4. CASE Close
  <2>1. disk' = disk \/ disk' = Written(Bytes(Buffers(af_CurrentBuf), Collected))
    BY <1>1, <1>4 DEF Close, file
  <2>2. Buffers(af_CurrentBuf) \in Nat /\ Buffers(af_CurrentBuf) + BufferSize <= 2 * BufferSize
    BY Layout
  <2>3. \A k \in Nat, m \in Nat : k + BufferSize <= 2 * BufferSize /\ m <= BufferSize
                                 => k + m <= 2 * BufferSize
    BY <1>1
  <2>4. Buffers(af_CurrentBuf) + Collected <= 2 * BufferSize
    BY <1>1, <2>2, <2>3
  <2> QED  BY <1>1, <1>2, <2>1, <2>2, <2>4
<1> QED  BY <1>3, <1>4

(* A read that returns nothing has come to the end of the file. *)
LEMMA EndIsSeen ==
  ASSUME ShapeInv, ReadData, Downloading, EndFound, ReadStops, TransferSame, result' = 0
  PROVE  start + Len(sent) >= Len(disk)
<1>1. /\ call = "ReadAsync" /\ af_Packet.at # "handler" /\ Res1 <= 0
      /\ result' = (IF Res1 = 0 THEN Len(buffer') ELSE -1)
      /\ buffer' = buffer \o Bytes(af_Offset, af_BytesLeft) /\ UNCHANGED <<start, sent>>
  BY DEF ReadStops, Return, TransferSame, transferVars
<1>2. Res1 = 0 /\ Len(buffer') = 0
  BY <1>1
<1>3. filePos = Len(disk)
  BY <1>1, <1>2 DEF EndFound
<1>4. /\ af_BytesLeft \in Nat /\ af_BytesLeft \in 0..af_BytesLeft /\ Len(buffer) \in Nat
      /\ Len(disk) \in Nat /\ af_SeekOffset \in Nat
  BY DownloadNumbers DEF Downloading
<1>5. stage = "read" /\ Len(buffer') = Len(buffer) + af_BytesLeft
  BY <1>1, <1>4, ChunkGrows
<1>6. Len(buffer) = 0 /\ af_BytesLeft = 0
  <2>1. \A k \in Nat, m \in Nat : k + m = 0 => k = 0 /\ m = 0
    OBVIOUS
  <2>2. Len(buffer) + af_BytesLeft = 0
    BY <1>2, <1>5
  <2> QED  BY <1>4, <2>1, <2>2
<1>7. Brought = 0
  BY <1>2 DEF Brought
<1>8. Position >= Len(disk)
  <2>1. Position = Len(disk) - 0 - 0 + af_SeekOffset
    BY <1>3, <1>6, <1>7, DownloadNumbers DEF Downloading
  <2> QED  BY <1>4, <2>1
<1>9. Expected >= Len(disk)
  <2>1. ~Broke /\ call \notin Seeks
    BY <1>1, <1>2 DEF Broke, Seeks
  <2>2. Here = Expected \/ Behind
    BY <2>1, DownloadStanding
  <2>3. Here = Position
    BY <2>1, DownloadStanding
  <2> QED  BY <1>8, <2>2, <2>3 DEF Behind
<1>10. Expected = start + Len(sent)
  <2>1. start \in Nat /\ Len(sent) \in Nat
    BY DownloadNumbers DEF Downloading
  <2> QED  BY <1>5, <1>6, <2>1 DEF Expected
<1> QED  BY <1>9, <1>10

(* The steps of the file layer. *)
LEMMA EndFile ==
  ASSUME ShapeInv, ReadData, EndInv, Handler \/ Progress, TransferSame
  PROVE  EndInv'
<1>1. UNCHANGED <<stage, start, sent, received, reply, abor, af_ReadMode>>
  BY DEF TransferSame, transferVars, Handler, Progress, HandlerReads, HandlerWrites,
         HandlerFails, WaitPacketRetries, Refill, ReadStops, ReadServed, Flush, WriteServed,
         SeekAsync, Close, opened
<1>2. af_ReadMode => disk' = disk
  BY DEF Handler, Progress, HandlerReads, HandlerWrites, HandlerFails, WaitPacketRetries,
         Refill, ReadStops, ReadServed, Flush, WriteServed, SeekAsync, Close, file
<1>3. Answered' /\ AborAnswered' /\ SentBounded' /\ EndReached'
  BY <1>1, <1>2 DEF EndInv, Answered, AborAnswered, SentBounded, EndReached
<1>4. Appends'
  <2> SUFFICES ASSUME ~af_ReadMode PROVE start <= Len(disk')
    BY <1>1 DEF Appends
  <2>1. start <= Len(disk) /\ start \in Nat /\ Len(disk) \in Nat
    BY UploadNumbers DEF EndInv, Appends, ShapeInv, Types, TransferTypes
  <2>2. disk' = disk \/ HandlerWrites \/ Close
    BY DEF Handler, Progress, HandlerReads, HandlerFails, WaitPacketRetries, Refill,
           ReadStops, ReadServed, Flush, WriteServed, SeekAsync, file
  <2> QED  BY <2>1, <2>2, DiskGrows
<1>5. CASE ~Downloading
  <2>1. EndFound'
    BY <1>1, <1>5 DEF EndFound, Downloading
  <2>2. EndSeen'
    <3>1. stage # "read"
      BY <1>5 DEF Downloading, ShapeInv, Calling, CallOfStage
    <3> QED  BY <1>1, <3>1 DEF EndSeen
  <2> QED  BY <1>3, <1>4, <2>1, <2>2 DEF EndInv
<1>6. CASE Downloading
  <2>0. EndFound /\ EndSeen /\ af_ReadMode /\ stage \in {"open", "read"}
    BY <1>6 DEF EndInv, Downloading
  <2> SUFFICES EndFound' /\ EndSeen'
    BY <1>3, <1>4 DEF EndInv
  <2>8. af_Packet \in Packets /\ -1 \in -1..BufferSize
    BY Layout
  <2>1. CASE HandlerReads
    <3> DEFINE n == Smaller(BufferSize, Len(disk) - filePos)
    <3>1. /\ filePos' = filePos + n /\ af_Packet' = [af_Packet EXCEPT !.at = "port", !.res1 = n]
          /\ UNCHANGED <<call, result, disk>>
      BY <2>1 DEF HandlerReads
    <3>2. Len(disk) \in Nat /\ filePos \in Nat /\ filePos <= Len(disk) /\ BufferSize \in Nat \ {0}
      BY <2>0, DownloadNumbers, Sizes
    <3>3. n \in -1..BufferSize /\ (n = 0 => filePos = Len(disk))
      BY <3>2 DEF Smaller
    <3> HIDE DEF n
    <3>4. af_Packet'.res1 = n
      BY <2>8, <3>1, <3>3 DEF Packets
    <3>5. n = 0 => filePos' = Len(disk)
      BY <3>1, <3>2, <3>3
    <3> QED  BY <1>1, <2>0, <3>1, <3>4, <3>5 DEF EndFound, EndSeen
  <2>2. CASE HandlerFails \/ WaitPacketRetries
    <3>1. UNCHANGED <<call, result, disk, filePos>>
      BY <2>2 DEF HandlerFails, WaitPacketRetries, file
    <3>2. af_Packet'.res1 = -1 \/ af_Packet'.at = "handler"
      <4>1. CASE HandlerFails
        BY <2>8, <4>1 DEF HandlerFails, Packets
      <4>2. CASE WaitPacketRetries
        BY <4>2 DEF WaitPacketRetries, Sent
      <4> QED  BY <2>2, <4>1, <4>2
    <3> QED  BY <1>1, <2>0, <3>1, <3>2 DEF EndFound, EndSeen
  <2>3. CASE Refill
    <3>1. call' = "ReadAsync" /\ af_Packet'.at = "handler"
      BY <2>3 DEF Refill, Goes, Sent
    <3> QED  BY <3>1 DEF EndFound, EndSeen
  <2>4. CASE ReadStops
    <3>1. /\ af_Packet.at # "handler" /\ af_Packet' = [af_Packet EXCEPT !.at = "none"]
          /\ UNCHANGED <<disk, filePos>>
      BY <2>4 DEF ReadStops, Taken, file
    <3>2. af_Packet'.res1 = Res1
      BY <3>1, Layout, MarkedPacket
    <3>3. EndFound'
      BY <1>1, <2>0, <3>1, <3>2 DEF EndFound, Downloading
    <3>4. EndSeen'
      BY <1>1, <1>6, <2>0, <2>4, <3>1, EndIsSeen DEF EndSeen
    <3> QED  BY <3>3, <3>4
  <2>5. CASE ReadServed
    <3>1. /\ call = "ReadAsync" /\ result' = Len(buffer') /\ numBytes <= af_BytesLeft
          /\ buffer' = buffer \o Bytes(af_Offset, numBytes)
          /\ UNCHANGED <<disk, filePos, af_Packet, start, sent>>
      BY <1>1, <2>5 DEF ReadServed, Return, file
    <3>2. numBytes > 0 /\ numBytes \in 0..af_BytesLeft
      BY <2>0, <3>1, DownloadNumbers DEF ShapeInv, Calling, ReadCall
    <3>3. Len(buffer') = Len(buffer) + numBytes /\ Len(buffer) \in Nat
      BY <1>6, <2>0, <3>1, <3>2, ChunkGrows, DownloadNumbers
    <3>4. result' # 0
      BY <3>1, <3>2, <3>3
    <3> QED  BY <1>1, <2>0, <3>1, <3>4 DEF EndFound, EndSeen, Downloading
  <2>6. CASE SeekAsync
    <3>1. /\ stage' = "open" /\ call \in Seeks /\ af_Packet.at # "handler" /\ disk' = disk
          /\ Res1 \in Int
      BY <1>1, <2>0, <2>6, DownloadNumbers DEF SeekAsync, ShapeInv, Calling, SeekCall
    <3>2. EndSeen'
      BY <3>1 DEF EndSeen
    <3>3. \/ af_Packet'.at = "handler" \/ af_Packet'.res1 < 0
          \/ af_Packet'.res1 = Res1 /\ filePos' = filePos
      <4>1. CASE /\ Res1 < 0 /\ af_Packet' = Taken /\ Return(Failed)
                 /\ UNCHANGED <<filePos, af_Offset, af_BytesLeft, af_CurrentBuf, af_SeekOffset>>
        BY <4>1, Layout, MarkedPacket DEF Taken
      <4>2. CASE Res1 >= 0 /\ RoundTarget(SeekTarget) > Len(disk) /\ SeekElsewhere(SeekTarget)
        <5>1. af_Packet' = Broken
          BY <4>2 DEF SeekElsewhere
        <5>2. af_Packet'.res1 = -1
          BY <2>8, <5>1 DEF Broken, Packets
        <5> QED  BY <5>2
      <4>3. CASE /\ Res1 >= 0 /\ RoundTarget(SeekTarget) <= Len(disk)
                 /\ SeekElsewhere(SeekTarget)
        BY <3>1, <4>3, SeekElsewhereLeads
      <4>4. CASE /\ Res1 >= 0 /\ SeekTarget >= MinBuf
                 /\ SeekTarget < Position \/ SeekTarget - Position <= af_BytesLeft
                 /\ SeekInBuffer(SeekTarget - Current)
        BY <3>1, <4>4, SeekInBufferLeads
      <4>5. CASE /\ Res1 >= 0 /\ SeekTarget < MaxBuf /\ SeekTarget - Position > af_BytesLeft
                 /\ SeekAhead(SeekTarget - Current)
        BY <3>1, <4>5, SeekAheadLeads
      <4> QED  BY <2>6, <4>1, <4>2, <4>3, <4>4, <4>5, SeekCases
    <3>4. EndFound'
      BY <1>1, <2>0, <3>1, <3>3 DEF EndFound, Downloading
    <3> QED  BY <3>2, <3>4
  <2>7. ~HandlerWrites /\ ~Flush /\ ~WriteServed /\ ~Close
    BY <2>0 DEF HandlerWrites, Flush, WriteServed, Close, ShapeInv, Calling, WriteCall, CloseCall
  <2> QED  BY <2>1, <2>2, <2>3, <2>4, <2>5, <2>6, <2>7 DEF Handler, Progress
<1> QED  BY <1>5, <1>6

(* The steps of the server. *)
LEMMA EndServer ==
  ASSUME ShapeInv, DownloadInv, EndInv, Server \/ UNCHANGED vars
  PROVE  EndInv'
<1>1. CASE DoFile
  <2>1. PICK size \in 0..MaxSize, reading \in BOOLEAN :
          OpenAsync(FileOf(size), reading) /\ (~reading => start' = size)
    BY <1>1 DEF DoFile
  <2>2. size \in Nat /\ Len(FileOf(size)) = size
    BY TransferAssumption DEF TransferAssumption, FileOf
  <2>3. /\ stage' = "open" /\ sent' = <<>> /\ disk' = FileOf(size) /\ af_ReadMode' = reading
        /\ ~abor'
        /\ reading => af_Packet' = [at |-> "handler", arg2 |-> 0, res1 |-> 0]
    BY <1>1, <2>1 DEF DoFile, OpenAsync
  <2>4. Len(sent') = 0 /\ (reading => af_Packet'.at = "handler")
    BY <2>3
  <2>5. SentBounded' /\ EndFound' /\ Answered' /\ AborAnswered' /\ EndSeen' /\ EndReached'
    BY <2>3, <2>4 DEF SentBounded, EndFound, Answered, AborAnswered, EndSeen, EndReached,
                      Downloading
  <2>6. Appends'
    BY <2>1, <2>2, <2>3 DEF Appends
  <2> QED  BY <2>5, <2>6 DEF EndInv
<1>2. CASE Send
  <2>1. /\ stage = "read" /\ call = "none" /\ result > 0 /\ stage' = "open" /\ af_ReadMode
        /\ af_SeekOffset = 0 /\ result = Len(buffer) /\ result \in Nat
        /\ UNCHANGED <<start, disk, filePos, af_ReadMode, af_Packet, abor>>
    BY <1>2 DEF Send, OthersOfCall, file, opened, ShapeInv, Calling, CallOfStage, ChunkRead,
                Types, CallTypes
  <2>2. PICK n \in Takes : sent' = sent \o SubSeq(buffer, 1, n)
    BY <1>2 DEF Send
  <2>3. n \in 1..Len(buffer)
    BY <2>1, TakesPart
  <2>4. Len(sent') = Len(sent) + n
    BY <2>2, <2>3, SendAppends
  <2>5. Position = start + Len(sent) + Len(buffer)
    BY <2>1, ChunkIsNext
  <2>6. /\ Position = filePos - Brought - af_BytesLeft + 0 /\ filePos \in Nat
        /\ Brought \in Nat /\ af_BytesLeft \in Nat /\ filePos <= Len(disk)
        /\ start \in Nat /\ Len(sent) \in Nat /\ Len(buffer) \in Nat /\ Len(disk) \in Nat
    BY <2>1, DownloadNumbers, Layout
  <2>7. Position <= Len(disk)
    BY <2>6
  <2>8. start + Len(sent') <= Len(disk)
    BY <2>3, <2>4, <2>5, <2>6, <2>7
  <2>9. SentBounded' /\ EndFound'
    BY <2>1, <2>8 DEF EndInv, SentBounded, EndFound, Downloading
  <2>10. Answered' /\ AborAnswered' /\ EndSeen' /\ EndReached' /\ Appends'
    BY <2>1 DEF EndInv, Answered, AborAnswered, EndSeen, EndReached, Appends
  <2> QED  BY <2>9, <2>10 DEF EndInv
<1>3. CASE WriteToData \/ ReadFromData \/ WriteReturns \/ SendEnds \/ RecvEnds \/ CmdAbor
         \/ Abort
  <2>1. /\ UNCHANGED <<start, sent, disk, filePos, af_ReadMode, af_Packet, result>>
        /\ call = "none" /\ stage \in {"open", "read", "write"} /\ ~abor
    BY <1>3 DEF EndInv, AborAnswered, WriteToData, ReadFromData, WriteReturns, SendEnds, RecvEnds, CmdAbor, Abort,
                OthersOfCall, file, opened
  <2>2. SentBounded' /\ Appends'
    BY <2>1 DEF EndInv, SentBounded, Appends
  <2>3. \/ af_ReadMode /\ stage = "open" /\ stage' = "read" /\ call' # "none" /\ ~abor'
        \/ ~af_ReadMode /\ stage' \in {"open", "write"} /\ ~abor'
        \/ /\ stage' = "closing" /\ reply' \in {"226", "426", "none"}
           /\ af_ReadMode /\ reply' = "226" /\ ~abor' => result = 0 /\ stage = "read"
           /\ abor' => reply' = "226"
    BY <1>3, <2>1 DEF WriteToData, ReadFromData, WriteReturns, SendEnds, RecvEnds, CmdAbor, Abort,
                FreeData, Begin, ShapeInv, Calling, CallOfStage
  <2>4. EndFound' /\ EndSeen' /\ Answered' /\ AborAnswered'
    BY <2>1, <2>3 DEF EndInv, EndFound, EndSeen, Answered, AborAnswered, Downloading
  <2>5. EndReached'
    BY <2>1, <2>3 DEF EndInv, EndReached, EndSeen
  <2> QED  BY <2>2, <2>4, <2>5 DEF EndInv
<1>4. CASE Closed \/ UNCHANGED vars
  <2>1. UNCHANGED <<start, sent, disk, filePos, af_ReadMode, af_Packet, result, call, reply, abor>>
    BY <1>4 DEF Closed, vars, asyncVars, transferVars, file, opened
  <2>2. stage' = stage \/ (stage = "closing" /\ stage' = "closed")
    BY <1>4 DEF Closed, vars, transferVars
  <2> QED  BY <2>1, <2>2 DEF EndInv, Answered, AborAnswered, SentBounded, EndFound, EndSeen, EndReached,
                             Appends, Downloading
<1> QED  BY <1>1, <1>2, <1>3, <1>4 DEF Server

LEMMA EndInit == Init => EndInv
<1> SUFFICES ASSUME Init PROVE EndInv
  OBVIOUS
<1>1. /\ disk = <<>> /\ stage = "closed" /\ reply = "none" /\ ~abor
      /\ ~af_ReadMode /\ start = 0 /\ Len(disk) = 0
  BY DEF Init
<1> QED  BY <1>1 DEF EndInv, Answered, AborAnswered, SentBounded, EndFound, EndSeen, EndReached,
                     Appends, Downloading

LEMMA EndNext == ShapeInv /\ DownloadInv /\ EndInv /\ [Next]_vars => EndInv'
BY EndFile, EndServer DEF Next, DownloadInv

(* The bytes that lie behind one another in a file. *)
LEMMA BetweenIs ==
  ASSUME NEW a \in Nat, NEW n \in Nat
  PROVE  /\ Between(a, a + n) \in Seq(Int) /\ Len(Between(a, a + n)) = n
         /\ \A i \in 1..n : Between(a, a + n)[i] = a + i - 1
<1>1. a + n \in Nat /\ a <= a + n /\ (a + n) - a = n
  OBVIOUS
<1> QED  BY <1>1, BetweenProperties

LEMMA BetweenPart ==
  ASSUME NEW a \in Nat, NEW m \in Nat, NEW n \in 0..m
  PROVE  SubSeq(Between(a, a + m), 1, n) = Between(a, a + n)
<1> DEFINE q == Between(a, a + m)
           p == SubSeq(q, 1, n)
           r == Between(a, a + n)
<1>1. n \in Nat /\ 0 + n <= m /\ 0 + n = n /\ 0 + 1 = 1
  OBVIOUS
<1>2. /\ q \in Seq(Int) /\ Len(q) = m /\ \A i \in 1..m : q[i] = a + i - 1
      /\ r \in Seq(Int) /\ Len(r) = n /\ \A i \in 1..n : r[i] = a + i - 1
  BY <1>1, BetweenIs
<1> HIDE DEF q, r
<1>3. p \in Seq(Int) /\ Len(p) = n /\ \A i \in 1..n : p[i] = q[0 + i]
  BY <1>1, <1>2, PartProperties
<1>4. \A i \in 1..n : i \in 1..m /\ 0 + i = i
  OBVIOUS
<1>5. \A i \in 1..n : p[i] = r[i]
  BY <1>2, <1>3, <1>4
<1> HIDE DEF p
<1>6. p = r
  BY <1>2, <1>3, <1>5, SeqEqual
<1> QED  BY <1>6 DEF p, q, r

LEMMA StreamingHolds ==
  ASSUME ShapeInv, UploadInv, DownloadInv, EndInv
  PROVE  Streaming
<1>1. /\ start \in Nat /\ received \in Nat /\ disk \in Seq(Int) /\ sent \in Seq(Int)
      /\ Len(disk) \in Nat /\ Len(sent) \in Nat
  BY DEF ShapeInv, Types, TransferTypes, FileTypes
<1>2. CASE af_ReadMode
  <2> DEFINE e == IF start < Len(disk) THEN Len(disk) ELSE start
  <2>1. SourceLength \in Nat /\ start + SourceLength = e /\ MovedLength = Len(sent)
    BY <1>1, <1>2 DEF SourceLength, MovedLength
  <2>2. Source = Between(start, e)
    BY <1>2 DEF Source
  <2>3. Len(sent) <= SourceLength
    BY <1>1, <1>2 DEF EndInv, SentBounded, SourceLength
  <2>4. \A i \in 1..Len(sent) : sent[i] = start + i - 1
    BY <1>1 DEF DownloadInv, SentInOrder
  <2> DEFINE r == Between(start, start + Len(sent))
  <2>5. r \in Seq(Int) /\ Len(r) = Len(sent) /\ \A i \in 1..Len(sent) : r[i] = start + i - 1
    BY <1>1, BetweenIs
  <2> HIDE DEF r, e
  <2>6. sent = r
    BY <1>1, <2>4, <2>5, SeqEqual
  <2>7. Moved = Between(start, start + MovedLength)
    BY <1>2, <2>1, <2>6 DEF r, Moved
  <2> QED  BY <1>1, <2>1, <2>2, <2>3, <2>7 DEF Streaming
<1>3. CASE ~af_ReadMode
  <2>1. start <= Len(disk) /\ Len(disk) <= received
    BY <1>3 DEF EndInv, Appends, UploadInv, WriteData
  <2> DEFINE n == Len(disk) - start
  <2>2. /\ SourceLength \in Nat /\ start + SourceLength = received /\ MovedLength = n
        /\ n \in Nat /\ n <= SourceLength /\ start + n = Len(disk)
    BY <1>1, <1>3, <2>1 DEF SourceLength, MovedLength
  <2> HIDE DEF n
  <2> DEFINE p == SubSeq(disk, start + 1, start + n)
             r == Between(start, start + n)
  <2>3. p \in Seq(Int) /\ Len(p) = n /\ \A i \in 1..n : p[i] = disk[start + i]
    BY <1>1, <2>2, PartProperties
  <2>4. r \in Seq(Int) /\ Len(r) = n /\ \A i \in 1..n : r[i] = start + i - 1
    BY <1>1, <2>2, BetweenIs
  <2>5. \A i \in 1..n : start + i \in 1..Len(disk)
    BY <1>1, <2>2
  <2>6. \A i \in 1..n : disk[start + i] = start + i - 1
    <3>1. \A i \in 1..n : disk[start + i] = (start + i) - 1
      BY <2>5 DEF UploadInv, Numbered
    <3>2. \A i \in 1..n : (start + i) - 1 = start + i - 1
      BY <1>1, <2>2
    <3> QED  BY <3>1, <3>2
  <2> HIDE DEF p, r
  <2>7. p = r
    BY <2>3, <2>4, <2>6, SeqEqual
  <2>8. Moved = Between(start, start + MovedLength)
    BY <1>3, <2>2, <2>7 DEF p, r, Moved
  <2>9. Source = Between(start, start + SourceLength)
    BY <1>3, <2>2 DEF Source
  <2> QED  BY <1>1, <2>2, <2>8, <2>9 DEF Streaming
<1> QED  BY <1>2, <1>3

(* What a step adds to what has arrived is the next part of the source. *)
LEMMA MovesOn ==
  ASSUME Streaming, Streaming', UNCHANGED <<start, SourceLength>>, MovedLength' >= MovedLength
  PROVE  /\ Moved' = SubSeq(Source, 1, Len(Moved')) /\ Source' = Source
         /\ Len(Moved') \in Len(Moved)..Len(Source)
<1>1. /\ start \in Nat /\ SourceLength \in Nat /\ MovedLength \in 0..SourceLength
      /\ MovedLength' \in 0..SourceLength
      /\ Source = Between(start, start + SourceLength) /\ Source' = Source
      /\ Moved = Between(start, start + MovedLength)
      /\ Moved' = Between(start, start + MovedLength')
  BY DEF Streaming
<1>2. Len(Source) = SourceLength /\ Len(Moved) = MovedLength /\ Len(Moved') = MovedLength'
  <2>1. MovedLength \in Nat /\ MovedLength' \in Nat
    BY <1>1
  <2> QED  BY <1>1, <2>1, BetweenIs
<1>3. Moved' = SubSeq(Source, 1, MovedLength')
  BY <1>1, BetweenPart
<1> QED  BY <1>1, <1>2, <1>3

LEMMA StreamStarts ==
  ASSUME EndInv, Streaming', DoFile
  PROVE  Promise!Start
<1>1. PICK size \in 0..MaxSize, reading \in BOOLEAN :
        /\ OpenAsync(FileOf(size), reading) /\ (~reading => start' = size)
        /\ received' = size
  BY DEF DoFile
<1>2. size \in Nat /\ Len(FileOf(size)) = size
  BY TransferAssumption DEF TransferAssumption, FileOf
<1>3. /\ stage = "closed" /\ stage' = "open" /\ sent' = <<>> /\ disk' = FileOf(size)
      /\ af_ReadMode' = reading
  BY <1>1 DEF DoFile, OpenAsync
<1>4. Answer # "pending" /\ Answer' = "pending" /\ af_ReadMode' \in BOOLEAN
  BY <1>3 DEF EndInv, Answered, Answer
<1>5. Source' \in Seq(Int)
  <2>1. start' \in Nat /\ SourceLength' \in Nat
        /\ Source' = Between(start', start' + SourceLength')
    BY DEF Streaming
  <2> QED  BY <2>1, BetweenIs
<1>6. \A q \in Seq(Int) : Len(q) = 0 => q = <<>>
  OBVIOUS
<1>7. Moved' = <<>> /\ (~af_ReadMode' => Source' = <<>>)
  <2>1. CASE reading
    BY <1>3, <2>1 DEF Moved
  <2>2. CASE ~reading
    <3>1. SourceLength' = 0 /\ MovedLength' = 0
      BY <1>1, <1>2, <1>3, <2>2 DEF SourceLength, MovedLength
    <3>2. start' \in Nat /\ Source' = Between(start', start' + 0)
          /\ Moved' = Between(start', start' + 0)
      BY <3>1 DEF Streaming
    <3> QED  BY <1>6, <3>2, BetweenIs
  <2> QED  BY <2>1, <2>2
<1>8. Stopped' = FALSE
  BY <1>3 DEF Stopped
<1> QED  BY <1>4, <1>5, <1>7, <1>8 DEF Promise!Start, Source, Moved, Answer, Stopped

LEMMA StreamOffers ==
  ASSUME Streaming, Streaming', ShapeInv, ReadFromData
  PROVE  Promise!Offer
<1>1. PICK len \in 1..MaxChunk : received' = received + len
  BY DEF ReadFromData
<1>2. /\ stage = "open" /\ stage' = "write" /\ ~af_ReadMode /\ len \in Nat
      /\ UNCHANGED <<disk, start, sent, af_ReadMode, reply, abor>>
      /\ received \in Nat /\ start \in Nat
  BY TransferAssumption DEF TransferAssumption, ReadFromData, OthersOfCall, file, opened,
                            ShapeInv, Types, TransferTypes
<1>3. /\ Answer = "pending" /\ Answer' = "pending" /\ Moved' = Moved
      /\ Stopped' = Stopped
  BY <1>2 DEF Answer, Moved, Stopped
<1>4. SourceLength \in 0..SourceLength' /\ SourceLength' \in Nat
  BY <1>1, <1>2 DEF Streaming, SourceLength
<1>5. Source = Between(start, start + SourceLength) /\ SourceLength \in Nat
      /\ Source' = Between(start, start + SourceLength')
  BY <1>2 DEF Streaming
<1>6. Len(Source) = SourceLength /\ Source' \in Seq(Int)
  BY <1>2, <1>4, <1>5, BetweenIs
<1>7. SubSeq(Source', 1, Len(Source)) = Source
  BY <1>2, <1>4, <1>5, <1>6, BetweenPart
<1> QED  BY <1>2, <1>3, <1>6, <1>7 DEF Promise!Offer, Source, Moved, Answer, Stopped

LEMMA StreamFinishes ==
  ASSUME Streaming, Streaming', ShapeInv, EndInv, Closed
  PROVE  Promise!Finish
<1>1. /\ stage = "closing" /\ stage' = "closed"
      /\ UNCHANGED <<disk, start, sent, received, reply, abor, af_ReadMode>>
  BY DEF Closed, asyncVars, file, opened
<1>2. Answer = "pending" /\ Answer' = reply /\ reply \in {"226", "426", "none"}
  BY <1>1 DEF Answer, EndInv, Answered, ShapeInv, Types, TransferTypes
<1>3. UNCHANGED <<start, SourceLength, MovedLength, Moved>>
  BY <1>1 DEF SourceLength, MovedLength, Moved
<1>4. MovedLength \in Int
  BY DEF Streaming
<1>5. /\ Moved' = SubSeq(Source, 1, Len(Moved')) /\ Source' = Source
      /\ Len(Moved') \in Len(Moved)..Len(Source)
  BY <1>3, <1>4, MovesOn
<1>6. af_ReadMode /\ reply = "226" /\ ~abor => Moved = Source
  <2> SUFFICES ASSUME af_ReadMode, reply = "226", ~abor PROVE Moved = Source
    OBVIOUS
  <2>1. start + Len(sent) >= Len(disk)
    BY <1>1 DEF EndInv, EndReached
  <2>2. start \in Nat /\ Len(sent) \in Nat /\ Len(disk) \in Nat
    BY DEF ShapeInv, Types, TransferTypes, FileTypes
  <2>3. MovedLength = SourceLength
    BY <2>1, <2>2 DEF Streaming, MovedLength, SourceLength
  <2> QED  BY <2>3 DEF Streaming
<1>7. /\ Stopped = FALSE /\ Stopped' = abor /\ abor \in BOOLEAN
      /\ abor => reply = "226"
  BY <1>1 DEF Stopped, EndInv, AborAnswered, ShapeInv, Types, TransferTypes
<1> QED  BY <1>1, <1>2, <1>3, <1>5, <1>6, <1>7
         DEF Promise!Finish, Promise!Replies, Source, Moved, Answer, Stopped

LEMMA StreamMoves ==
  ASSUME Streaming, Streaming', UNCHANGED <<af_ReadMode, start, SourceLength>>,
         MovedLength' >= MovedLength, Answer = "pending", Answer' = "pending",
         Stopped' = Stopped
  PROVE  Promise!Move
<1>1. /\ Moved' = SubSeq(Source, 1, Len(Moved')) /\ Source' = Source
      /\ Len(Moved') \in Len(Moved)..Len(Source)
  BY MovesOn
<1> QED  BY <1>1 DEF Promise!Move, Source, Moved, Answer, Stopped

LEMMA StreamStutters ==
  ASSUME UNCHANGED <<af_ReadMode, start, sent, received, disk>>, Answer' = Answer,
         Stopped' = Stopped
  PROVE  UNCHANGED Promise!vars
BY DEF Promise!vars, Source, Moved, Answer, Stopped

LEMMA StreamSteps ==
  ASSUME ShapeInv, UploadInv, EndInv, Streaming, Streaming', [Next]_vars
  PROVE  [Promise!Next]_(Promise!vars)
<1>1. CASE (Handler \/ Progress) /\ TransferSame
  <2>1. /\ UNCHANGED <<stage, start, sent, received, reply, abor, af_ReadMode>>
        /\ Answer' = Answer /\ Stopped' = Stopped
    BY <1>1 DEF TransferSame, transferVars, Handler, Progress, HandlerReads, HandlerWrites,
       HandlerFails, WaitPacketRetries, Refill, ReadStops, ReadServed, Flush, WriteServed,
       SeekAsync, Close, opened, Answer, Stopped
  <2>2. CASE disk' = disk
    BY <2>1, <2>2, StreamStutters
  <2>3. CASE disk' # disk
    <3>1. ~af_ReadMode /\ (HandlerWrites \/ Close)
      BY <1>1, <2>3 DEF Handler, Progress, HandlerReads, HandlerWrites, HandlerFails,
         WaitPacketRetries, Refill, ReadStops, ReadServed, Flush, WriteServed, SeekAsync,
         Close, file
    <3>2. stage # "closed"
      BY <3>1 DEF UploadInv, WriteData, Uploading, HandlerWrites, Close, ShapeInv, Calling,
                  CallOfStage
    <3>3. Answer = "pending"
      BY <3>2 DEF Answer
    <3>4. Len(disk) \in Nat /\ Len(disk') \in Nat /\ Len(disk') >= Len(disk) /\ start \in Nat
      BY <3>1, DiskGrows DEF ShapeInv, Types, FileTypes, TransferTypes
    <3>5. MovedLength' >= MovedLength /\ SourceLength' = SourceLength
      BY <2>1, <3>1, <3>4 DEF MovedLength, SourceLength
    <3>6. Promise!Move
      BY <2>1, <3>3, <3>5, StreamMoves
    <3> QED  BY <3>6 DEF Promise!Next
  <2> QED  BY <2>2, <2>3
<1>2. CASE DoFile
  BY <1>2, StreamStarts DEF Promise!Next
<1>3. CASE ReadFromData
  BY <1>3, StreamOffers DEF Promise!Next
<1>4. CASE Closed
  BY <1>4, StreamFinishes DEF Promise!Next
<1>5. CASE Send
  <2>1. /\ stage = "read" /\ call = "none" /\ result > 0 /\ stage' = "open" /\ af_ReadMode
        /\ result = Len(buffer) /\ result \in Nat
        /\ UNCHANGED <<start, received, disk, af_ReadMode>>
    BY <1>5 DEF Send, OthersOfCall, file, opened, ShapeInv, Calling, CallOfStage, ChunkRead,
                Types, CallTypes
  <2>2. PICK n \in Takes : sent' = sent \o SubSeq(buffer, 1, n)
    BY <1>5 DEF Send
  <2>3. n \in 1..Len(buffer)
    BY <2>1, TakesPart
  <2>4. Len(sent') = Len(sent) + n /\ Len(sent) \in Nat
    BY <2>2, <2>3, SendAppends DEF ShapeInv, Types, TransferTypes
  <2>5. MovedLength' >= MovedLength /\ SourceLength' = SourceLength
    BY <2>1, <2>3, <2>4 DEF MovedLength, SourceLength
  <2>6. Answer = "pending" /\ Answer' = "pending" /\ Stopped' = Stopped
    BY <2>1 DEF Answer, Stopped
  <2>7. Promise!Move
    BY <2>1, <2>5, <2>6, StreamMoves
  <2> QED  BY <2>7 DEF Promise!Next
<1>6. CASE WriteToData \/ WriteReturns \/ SendEnds \/ RecvEnds \/ CmdAbor
         \/ Abort
  <2>1. /\ UNCHANGED <<start, sent, received, disk, af_ReadMode>>
        /\ stage # "closed" /\ stage' # "closed"
    BY <1>6 DEF WriteToData, WriteReturns, SendEnds, RecvEnds, CmdAbor, Abort,
                FreeData, OthersOfCall, file, opened
  <2>2. Answer' = Answer /\ Stopped' = Stopped
    BY <2>1 DEF Answer, Stopped
  <2> QED  BY <2>1, <2>2, StreamStutters
<1>7. CASE UNCHANGED vars
  <2>1. /\ UNCHANGED <<start, sent, received, disk, af_ReadMode>>
        /\ Answer' = Answer /\ Stopped' = Stopped
    BY <1>7 DEF vars, asyncVars, transferVars, file, opened, Answer, Stopped
  <2> QED  BY <2>1, StreamStutters
<1> QED  BY <1>1, <1>2, <1>3, <1>4, <1>5, <1>6, <1>7 DEF Next, Server

LEMMA StreamInit == Init => Promise!Init
<1> SUFFICES ASSUME Init PROVE Promise!Init
  OBVIOUS
<1>1. /\ disk = <<>> /\ stage = "closed" /\ reply = "none" /\ ~abor
      /\ ~af_ReadMode /\ start = 0 /\ received = 0 /\ Len(disk) = 0 /\ af_ReadMode \in BOOLEAN
  BY DEF Init
<1>2. Between(0, 0) = <<>>
  BY DEF Between
<1>3. SubSeq(disk, 0 + 1, 0) = <<>>
  BY <1>1
<1> QED  BY <1>1, <1>2, <1>3 DEF Promise!Init

(* Every transfer is the stream of bytes of module Stream, for all sizes and
   however the file system and the connection behave, as far as no connection
   that takes only a part of a chunk does so with the last chunk of a file or
   with one whose packets fail: what arrives is a beginning of the source and
   only grows, and a download that is answered with 226 is complete unless its
   peer gave ABOR. *)
THEOREM TransferIsStream == ASSUME Steady PROVE Spec => StreamSpec
<1>1. ShapeInv /\ UploadInv /\ DownloadInv /\ [Next]_vars => DownloadInv'
  BY DownloadNext
<1>2. ShapeInv /\ UploadInv /\ DownloadInv /\ EndInv => Streaming
  BY StreamingHolds
<1>3. ShapeInv /\ UploadInv /\ EndInv /\ Streaming /\ Streaming' /\ [Next]_vars
      => [Promise!Next]_(Promise!vars)
  BY StreamSteps
<1> QED  BY <1>1, <1>2, <1>3, ShapeInit, ShapeNext, UploadInit, UploadNext, DownloadInit,
            EndInit, EndNext, StreamInit, PTL DEF Spec, StreamSpec, Promise!Spec
=============================================================================
