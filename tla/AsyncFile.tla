---------------------------- MODULE AsyncFile ----------------------------
(***************************************************************************)
(* Asynchronous file access (asyncio.c): one open file with two buffers.   *)
(* While the server reads from or writes to one of them, a packet with the *)
(* other may be under way to the file system, which serves it whenever it  *)
(* likes.  A call that needs the packet waits for it, so each call below   *)
(* is begun in one step and goes on in others, between which only the file *)
(* system runs: the server is a single task, and the whole of it waits.    *)
(*                                                                         *)
(* Bytes are integers.  The file system (the handler behind a packet, and  *)
(* dos.library's Seek and Write) is external.                              *)
(***************************************************************************)
EXTENDS Integers, Sequences

CONSTANTS
  BlockSize,   \* bytes in a block of the device
  BufferSize,  \* bytes in one of the two buffers
  Troubles     \* what the files of an instance may meet, a set of sets of:
               \* "read", "write" (packets and writes fail), "partial" (the
               \* peer's connection takes a part of a chunk), "partial_end"
               \* (even of the last chunk of a file)

ASSUME AsyncAssumption ==
  /\ BlockSize \in Nat \ {0} /\ BufferSize \in Nat \ {0}
  /\ BufferSize % BlockSize = 0
  /\ Troubles \subseteq SUBSET {"read", "write", "partial", "partial_end"}

NoByte == -1         \* the content of a buffer that was never written
Failed == -1
Seeks == {"SeekAsync_MODE_START", "SeekAsync_MODE_CURRENT"}
Calls == {"none", "ReadAsync", "WriteAsync", "CloseAsync"} \cup Seeks

VARIABLES
  disk,           \* the bytes of the file
  filePos,        \* the file system's position in it
  mem,            \* the two buffers, one behind the other
  af_Offset,      \* index in mem of the next byte
  af_BytesLeft,   \* bytes (or room for bytes) left there
  af_CurrentBuf,  \* 0 or 1
  af_SeekOffset,  \* bytes to skip in the next packet that returns
  af_ReadMode,
  trouble,        \* what this file meets
  af_Packet,      \* [at, arg2, res1]: where the packet is, its buffer, its result
  call,           \* the call that the server is in, or "none"
  numBytes,       \* its argument
  buffer,         \* the caller's buffer
  result          \* what the last call returned

file == <<disk, filePos>>
buffers == <<mem, af_Offset, af_BytesLeft, af_CurrentBuf, af_SeekOffset>>
opened == <<af_ReadMode, trouble>>
asyncVars == <<file, buffers, opened, af_Packet, call, numBytes, buffer, result>>

-----------------------------------------------------------------------------
(* Helpers *)

Smaller(a, b) == IF a < b THEN a ELSE b
Addresses == 0..(2 * BufferSize - 1)
Buffers(b) == b * BufferSize
Bytes(at, n) == [i \in 1..n |-> mem[at + i - 1]]
Filled(at, s) ==
  [a \in Addresses |-> IF at <= a /\ a < at + Len(s) THEN s[a - at + 1] ELSE mem[a]]
Written(s) ==
  SubSeq(disk, 1, filePos) \o s \o SubSeq(disk, filePos + Len(s) + 1, Len(disk))

(* SendPacket(), and a packet that was waited for: its result stays in it. *)
Sent(b) == [at |-> "handler", arg2 |-> b, res1 |-> af_Packet.res1]
Taken == [af_Packet EXCEPT !.at = "none"]
Returned == af_Packet.at # "handler"
Res1 == af_Packet.res1
Broken == [af_Packet EXCEPT !.at = "none", !.res1 = Failed]

Return(r) == call' = "none" /\ result' = r
Goes == UNCHANGED <<call, result>>

-----------------------------------------------------------------------------
(* The file system serves the packet. *)

HandlerReads ==
  /\ ~Returned /\ af_ReadMode
  /\ LET n == Smaller(BufferSize, Len(disk) - filePos) IN
       /\ mem' = Filled(Buffers(af_Packet.arg2), SubSeq(disk, filePos + 1, filePos + n))
       /\ filePos' = filePos + n
       /\ af_Packet' = [af_Packet EXCEPT !.at = "port", !.res1 = n]
  /\ UNCHANGED <<disk, af_Offset, af_BytesLeft, af_CurrentBuf, af_SeekOffset,
                 opened, call, numBytes, buffer, result>>

HandlerWrites ==
  /\ ~Returned /\ ~af_ReadMode
  /\ disk' = Written(Bytes(Buffers(af_Packet.arg2), BufferSize))
  /\ filePos' = filePos + BufferSize
  /\ af_Packet' = [af_Packet EXCEPT !.at = "port", !.res1 = BufferSize]
  /\ UNCHANGED <<buffers, opened, call, numBytes, buffer, result>>

HandlerFails ==
  /\ ~Returned /\ (IF af_ReadMode THEN "read" ELSE "write") \in trouble
  /\ af_Packet' = [af_Packet EXCEPT !.at = "port", !.res1 = Failed]
  /\ UNCHANGED <<file, buffers, opened, call, numBytes, buffer, result>>

(* WaitPacket() shows a failure to the operator, who may have it tried again;
   else the waiting call goes on with the result -1. *)
PendingBufferSwapped == IF af_ReadMode THEN 1 - af_CurrentBuf ELSE af_CurrentBuf
PendingBuffer == IF af_ReadMode THEN af_CurrentBuf ELSE 1 - af_CurrentBuf
Waits ==
  \/ call \in Seeks \cup {"CloseAsync"}
  \/ call \in {"ReadAsync", "WriteAsync"} /\ numBytes > af_BytesLeft
WaitPacketRetries ==
  /\ Waits /\ af_Packet.at = "port" /\ Res1 = Failed
  /\ af_Packet' = Sent(PendingBuffer)
  /\ UNCHANGED <<file, buffers, opened, call, numBytes, buffer, result>>

-----------------------------------------------------------------------------
(* OpenAsync() *)

OpenAsync(content, reading) ==
  /\ disk' = content /\ af_ReadMode' = reading /\ trouble' \in Troubles
  /\ mem' = [a \in Addresses |-> NoByte]
  /\ af_CurrentBuf' = 0 /\ af_SeekOffset' = 0
  /\ IF reading
     THEN /\ filePos' = 0 /\ af_Offset' = Buffers(1) /\ af_BytesLeft' = 0
          /\ af_Packet' = [at |-> "handler", arg2 |-> 0, res1 |-> 0]
     ELSE /\ filePos' = Len(content) /\ af_Offset' = 0 /\ af_BytesLeft' = BufferSize
          /\ af_Packet' = [at |-> "none", arg2 |-> 0, res1 |-> 0]
  /\ buffer' = <<>> /\ result' = 0

Begin(name, n, bytes) ==
  /\ call = "none" /\ call' = name /\ numBytes' = n /\ buffer' = bytes

(* One round of ReadAsync()'s loop: the current buffer is used up, the packet
   has come back, and the buffer it filled becomes the current one. *)
RefillNoSwap ==
  /\ call = "ReadAsync" /\ numBytes > af_BytesLeft /\ Returned /\ Res1 > 0
  /\ buffer' = buffer \o Bytes(af_Offset, af_BytesLeft)
  /\ numBytes' = numBytes - af_BytesLeft
  /\ af_Packet' = Sent(af_CurrentBuf)
  /\ LET skip == Smaller(af_SeekOffset, Res1) IN
       /\ af_Offset' = Buffers(af_CurrentBuf) + skip
       /\ af_BytesLeft' = Res1 - skip
  /\ af_CurrentBuf' = 1 - af_CurrentBuf /\ af_SeekOffset' = 0
  /\ Goes /\ UNCHANGED <<file, mem, opened>>
Refill ==
  /\ call = "ReadAsync" /\ numBytes > af_BytesLeft /\ Returned /\ Res1 > 0
  /\ buffer' = buffer \o Bytes(af_Offset, af_BytesLeft)
  /\ numBytes' = numBytes - af_BytesLeft
  /\ af_Packet' = Sent(1 - af_CurrentBuf)
  /\ LET skip == Smaller(af_SeekOffset, Res1) IN
       /\ af_Offset' = Buffers(af_CurrentBuf) + skip
       /\ af_BytesLeft' = Res1 - skip
  /\ af_CurrentBuf' = 1 - af_CurrentBuf /\ af_SeekOffset' = 0
  /\ Goes /\ UNCHANGED <<file, mem, opened>>

(* The end of the file (0) or an error (-1): af_Offset stays where it was. *)
ReadWaitsForMore ==
  /\ call = "ReadAsync" /\ numBytes > af_BytesLeft /\ Returned /\ Res1 <= 0
  /\ buffer' = buffer \o Bytes(af_Offset, af_BytesLeft)
  /\ numBytes' = numBytes - af_BytesLeft
  /\ af_BytesLeft' = 0 /\ af_Packet' = Taken
  /\ IF Res1 = 0 THEN Goes ELSE Return(Failed)
  /\ UNCHANGED <<file, mem, af_Offset, af_CurrentBuf, af_SeekOffset, opened>>
ReadStops ==
  /\ call = "ReadAsync" /\ numBytes > af_BytesLeft /\ Returned /\ Res1 <= 0
  /\ buffer' = buffer \o Bytes(af_Offset, af_BytesLeft)
  /\ numBytes' = numBytes - af_BytesLeft
  /\ af_BytesLeft' = 0 /\ af_Packet' = Taken
  /\ Return(IF Res1 = 0 THEN Len(buffer') ELSE Failed)
  /\ UNCHANGED <<file, mem, af_Offset, af_CurrentBuf, af_SeekOffset, opened>>

ReadServed ==
  /\ call = "ReadAsync" /\ numBytes <= af_BytesLeft
  /\ buffer' = buffer \o Bytes(af_Offset, numBytes)
  /\ af_BytesLeft' = af_BytesLeft - numBytes
  /\ af_Offset' = af_Offset + numBytes
  /\ Return(Len(buffer'))
  /\ UNCHANGED <<file, mem, af_CurrentBuf, af_SeekOffset, opened, af_Packet, numBytes>>

(* One round of WriteAsync()'s loop: the current buffer is full and is sent. *)
Flush ==
  /\ call = "WriteAsync" /\ numBytes > af_BytesLeft /\ Returned
  /\ mem' = Filled(af_Offset, SubSeq(buffer, 1, af_BytesLeft))
  /\ IF Res1 < 0
     THEN /\ af_Packet' = Taken /\ Return(Failed)
          /\ UNCHANGED <<af_Offset, af_BytesLeft, af_CurrentBuf, numBytes, buffer>>
     ELSE /\ buffer' = SubSeq(buffer, af_BytesLeft + 1, Len(buffer))
          /\ numBytes' = numBytes - af_BytesLeft
          /\ af_Packet' = Sent(af_CurrentBuf)
          /\ af_CurrentBuf' = 1 - af_CurrentBuf
          /\ af_Offset' = Buffers(1 - af_CurrentBuf)
          /\ af_BytesLeft' = BufferSize
          /\ Goes
  /\ UNCHANGED <<file, af_SeekOffset, opened>>

WriteServed ==
  /\ call = "WriteAsync" /\ numBytes <= af_BytesLeft
  /\ mem' = Filled(af_Offset, buffer)
  /\ af_BytesLeft' = af_BytesLeft - numBytes
  /\ af_Offset' = af_Offset + numBytes
  /\ Return(numBytes)
  /\ UNCHANGED <<file, af_CurrentBuf, af_SeekOffset, opened, af_Packet, numBytes, buffer>>

(* SeekAsync() in a file that is read.  Where the caller is, where it wants to
   be, and what part of the file is in the two buffers: *)
Current == filePos - (af_BytesLeft + Res1) + af_SeekOffset
MinBuf == Current - (af_Offset - Buffers(1 - af_CurrentBuf))
MaxBuf == Current + af_BytesLeft + Res1
RoundTarget(target) == (target \div BlockSize) * BlockSize

(* Outside the buffers: the device is asked for the block of the target. *)
SeekElsewhere(target) ==
  IF RoundTarget(target) > Len(disk)
  THEN /\ af_Packet' = Broken /\ af_BytesLeft' = 0 /\ Return(Failed)
       /\ UNCHANGED <<filePos, af_Offset, af_CurrentBuf, af_SeekOffset>>
  ELSE /\ filePos' = RoundTarget(target)
       /\ af_Packet' = Sent(0)
       /\ af_SeekOffset' = target - RoundTarget(target)
       /\ af_BytesLeft' = 0 /\ af_CurrentBuf' = 0 /\ af_Offset' = Buffers(1)
       /\ Return(Current)

(* In the current buffer: the packet is put back as if it had not returned. *)
SeekInBufferGrowing(diff) ==
  /\ af_Packet' = [af_Packet EXCEPT !.at = "port"]
  /\ af_BytesLeft' = af_BytesLeft + diff /\ af_Offset' = af_Offset + diff
  /\ Return(Current)
  /\ UNCHANGED <<filePos, af_CurrentBuf, af_SeekOffset>>
SeekInBuffer(diff) ==
  /\ af_Packet' = [af_Packet EXCEPT !.at = "port"]
  /\ af_BytesLeft' = af_BytesLeft - diff /\ af_Offset' = af_Offset + diff
  /\ Return(Current)
  /\ UNCHANGED <<filePos, af_CurrentBuf, af_SeekOffset>>

(* In the buffer that the packet filled. *)
SeekAhead(diff) ==
  LET ahead == diff - (af_BytesLeft - af_SeekOffset) IN
  /\ af_Packet' = Sent(1 - af_CurrentBuf)
  /\ af_Offset' = Buffers(af_CurrentBuf) + ahead
  /\ af_BytesLeft' = Res1 - ahead
  /\ af_SeekOffset' = 0 /\ af_CurrentBuf' = 1 - af_CurrentBuf
  /\ Return(Current)
  /\ UNCHANGED filePos

SeekAsync ==
  /\ call \in Seeks /\ Returned
  /\ LET target == IF call = "SeekAsync_MODE_START" THEN numBytes ELSE Current + numBytes
     IN  IF Res1 < 0
         THEN /\ af_Packet' = Taken /\ Return(Failed)
              /\ UNCHANGED <<filePos, af_Offset, af_BytesLeft, af_CurrentBuf, af_SeekOffset>>
         ELSE IF target < MinBuf \/ target >= MaxBuf THEN SeekElsewhere(target)
         ELSE IF target < Current \/ target - Current <= af_BytesLeft
         THEN SeekInBuffer(target - Current)
         ELSE SeekAhead(target - Current)
  /\ UNCHANGED <<disk, mem, opened, numBytes, buffer>>

-----------------------------------------------------------------------------
(* CloseAsync(): a file that was written still has a part of its last buffer. *)
CloseNoFlush ==
  /\ call = "CloseAsync" /\ Returned /\ af_Packet' = Taken
  /\ Return(Res1)
  /\ UNCHANGED <<file, buffers, opened, numBytes, buffer>>
Close ==
  /\ call = "CloseAsync" /\ Returned /\ af_Packet' = Taken
  /\ \/ /\ ~af_ReadMode /\ Res1 >= 0 /\ af_BytesLeft < BufferSize
        /\ LET part == Bytes(Buffers(af_CurrentBuf), BufferSize - af_BytesLeft) IN
             /\ disk' = Written(part)
             /\ filePos' = filePos + Len(part)
             /\ Return(Len(part))
     \/ /\ ~af_ReadMode /\ Res1 >= 0 /\ af_BytesLeft < BufferSize
        /\ "write" \in trouble
        /\ Return(Failed) /\ UNCHANGED file
     \/ /\ af_ReadMode \/ Res1 < 0 \/ af_BytesLeft = BufferSize
        /\ Return(Res1) /\ UNCHANGED file
  /\ UNCHANGED <<buffers, opened, numBytes, buffer>>

(* The file system's steps, and those of the call that the server is in. *)
Handler == HandlerReads \/ HandlerWrites \/ HandlerFails
Progress ==
  \/ WaitPacketRetries \/ Refill \/ ReadStops \/ ReadServed
  \/ Flush \/ WriteServed \/ SeekAsync \/ Close

-----------------------------------------------------------------------------
(* Properties *)

(* The packet that is under way never has the buffer that the server still
   takes bytes from or puts bytes into: the file system reads and writes that
   memory at any moment (asyncio.c: SendPacket's callers). *)
BuffersApart ==
  ~Returned =>
    LET theirs == Buffers(af_Packet.arg2)..(Buffers(af_Packet.arg2) + BufferSize - 1)
        ours == IF af_ReadMode THEN af_Offset..(af_Offset + af_BytesLeft - 1)
                ELSE Buffers(af_CurrentBuf)..(Buffers(af_CurrentBuf) + BufferSize - 1)
    IN  theirs \cap ours = {}
========================================================================
