---------------------------- MODULE Transfer ----------------------------
(***************************************************************************)
(* The bytes of a transfer: do_file(), write_to_data() and read_from_data()*)
(* over the asynchronous file layer.  A download reads a chunk, sends what *)
(* the connection takes of it and seeks back over the rest; an upload      *)
(* writes what it receives.  One transfer after another is modelled, each  *)
(* with a file of its own.                                                 *)
(***************************************************************************)
EXTENDS AsyncFile

CONSTANTS
  MaxSize,     \* bound: bytes of a file
  MaxChunk     \* largest chunk that is read or received at once

ASSUME TransferAssumption == MaxSize \in Nat /\ MaxChunk \in Nat

VARIABLES
  stage,       \* where the transfer is between the calls
  start,       \* ftpdata.start: the offset where it begins
  sent,        \* download: bytes that the peer has received
  received,    \* upload: the position after the last byte received
  reply,       \* the reply that ended the transfer, "none" if it had none
  abor         \* did the peer end it with ABOR?

transferVars == <<stage, start, sent, received, reply, abor>>
vars == <<asyncVars, transferVars>>

(* Byte i of every file is i: a byte in the wrong place is seen at once. *)
FileOf(n) == [i \in 1..n |-> i - 1]
Between(a, b) == [i \in 1..(b - a) |-> a + i - 1]

OthersOfCall == UNCHANGED <<file, buffers, opened, af_Packet, result>>
TransferSame == UNCHANGED transferVars

-----------------------------------------------------------------------------
(* do_file(): a download with an offset seeks to it; an upload appends, and
   its offset is the length of the file. *)
DoFile ==
  /\ stage = "closed"
  /\ \E size \in 0..MaxSize, reading \in BOOLEAN :
       /\ OpenAsync(FileOf(size), reading)
       /\ IF reading
          THEN \E offset \in 0..(MaxSize + BlockSize) :
                 /\ start' = offset
                 /\ call' = IF offset = 0 THEN "none" ELSE "SeekAsync_MODE_START"
                 /\ numBytes' = offset
          ELSE start' = size /\ call' = "none" /\ numBytes' = 0
       /\ received' = size
  /\ stage' = "open" /\ sent' = <<>> /\ reply' = "pending" /\ abor' = FALSE

(* free_data() closes the file; the reply r is queued. *)
FreeData(r) ==
  /\ Begin("CloseAsync", 0, buffer)
  /\ stage' = "closing" /\ reply' = r

WriteToData ==
  /\ stage = "open" /\ call = "none" /\ af_ReadMode
  /\ \E maxlen \in 1..MaxChunk : Begin("ReadAsync", maxlen, <<>>)
  /\ stage' = "read"
  /\ OthersOfCall /\ UNCHANGED <<start, sent, received, reply, abor>>

(* How much of a chunk the connection takes. *)
AtEnd == Returned /\ Res1 = 0
Takes ==
  IF (IF AtEnd THEN "partial_end" ELSE "partial") \in trouble THEN 1..result ELSE {result}

SendNoSeek ==
  /\ stage = "read" /\ call = "none" /\ result > 0
  /\ \E n \in Takes : sent' = sent \o SubSeq(buffer, 1, n)
  /\ UNCHANGED <<call, numBytes, buffer>>
  /\ stage' = "open"
  /\ OthersOfCall /\ UNCHANGED <<start, received, reply, abor>>
Send ==
  /\ stage = "read" /\ call = "none" /\ result > 0
  /\ \E n \in Takes :
       /\ sent' = sent \o SubSeq(buffer, 1, n)
       /\ IF n < result THEN Begin("SeekAsync_MODE_CURRENT", n - result, buffer)
          ELSE UNCHANGED <<call, numBytes, buffer>>
  /\ stage' = "open"
  /\ OthersOfCall /\ UNCHANGED <<start, received, reply, abor>>

(* The end of the file, an error of the file (-1), or of the connection. *)
SendEndsAnyway ==
  /\ stage = "read" /\ call = "none"
  /\ \/ result <= 0 /\ FreeData("226")
     \/ result > 0 /\ FreeData("426")
  /\ OthersOfCall /\ UNCHANGED <<start, sent, received, abor>>
SendEnds ==
  /\ stage = "read" /\ call = "none"
  /\ \/ result = 0 /\ FreeData("226")
     \/ result # 0 /\ FreeData("426")
  /\ OthersOfCall /\ UNCHANGED <<start, sent, received, abor>>

ReadFromData ==
  /\ stage = "open" /\ call = "none" /\ ~af_ReadMode
  /\ \E len \in 1..MaxChunk :
       /\ received + len <= MaxSize + BufferSize
       /\ Begin("WriteAsync", len, Between(received, received + len))
       /\ received' = received + len
  /\ stage' = "write"
  /\ OthersOfCall /\ UNCHANGED <<start, sent, reply, abor>>

(* WriteFile() returned: -1 ends the transfer without a reply. *)
WriteReturns ==
  /\ stage = "write" /\ call = "none"
  /\ IF result = Failed THEN FreeData("none")
     ELSE stage' = "open" /\ UNCHANGED <<call, numBytes, buffer, reply>>
  /\ OthersOfCall /\ UNCHANGED <<start, sent, received, abor>>

(* The peer closes the connection, or it breaks: 226 in both cases. *)
RecvEnds ==
  /\ stage = "open" /\ call = "none" /\ ~af_ReadMode
  /\ FreeData("226")
  /\ OthersOfCall /\ UNCHANGED <<start, sent, received, abor>>

(* ABOR is answered with 226, however much of the file was moved: 226 says that
   the command was obeyed. *)
CmdAbor ==
  /\ stage = "open" /\ call = "none" /\ FreeData("226") /\ abor' = TRUE
  /\ OthersOfCall /\ UNCHANGED <<start, sent, received>>

(* The console's abort (426), the end of the session (no reply). *)
Abort ==
  /\ stage = "open" /\ call = "none"
  /\ \E r \in {"426", "none"} : FreeData(r)
  /\ OthersOfCall /\ UNCHANGED <<start, sent, received, abor>>

Closed ==
  /\ stage = "closing" /\ call = "none"
  /\ stage' = "closed"
  /\ UNCHANGED <<asyncVars, start, sent, received, reply, abor>>

Init ==
  /\ disk = <<>> /\ filePos = 0 /\ mem = [a \in Addresses |-> NoByte]
  /\ af_Offset = 0 /\ af_BytesLeft = BufferSize /\ af_CurrentBuf = 0
  /\ af_SeekOffset = 0 /\ af_ReadMode = FALSE /\ trouble = {}
  /\ af_Packet = [at |-> "none", arg2 |-> 0, res1 |-> 0]
  /\ call = "none" /\ numBytes = 0 /\ buffer = <<>> /\ result = 0
  /\ stage = "closed" /\ start = 0 /\ sent = <<>> /\ received = 0
  /\ reply = "none" /\ abor = FALSE

Server ==
  \/ DoFile \/ WriteToData \/ Send \/ SendEnds
  \/ ReadFromData \/ WriteReturns \/ RecvEnds \/ CmdAbor \/ Abort \/ Closed
Next == Server \/ ((Handler \/ Progress) /\ TransferSame)

Spec == Init /\ [][Next]_vars

(* The file system answers every packet in the end, whatever fails before, and
   the server goes on with its call. *)
FairSpec ==
  /\ Spec
  /\ SF_vars((HandlerReads \/ HandlerWrites) /\ TransferSame)
  /\ WF_vars(Progress /\ TransferSame)

-----------------------------------------------------------------------------
(* Properties *)

(* Type invariant; the position that the file layer believes in is a position
   in the file. *)
TypeOK ==
  /\ disk \in Seq(Int) /\ filePos \in 0..Len(disk)
  /\ mem \in [Addresses -> Int]
  /\ af_Offset \in 0..(2 * BufferSize) /\ af_BytesLeft \in 0..BufferSize
  /\ af_CurrentBuf \in {0, 1} /\ af_SeekOffset \in 0..(BlockSize - 1)
  /\ af_ReadMode \in BOOLEAN /\ trouble \in Troubles \cup {{}}
  /\ af_Packet \in [at : {"none", "handler", "port"}, arg2 : {0, 1},
                    res1 : -1..BufferSize]
  /\ call \in Calls /\ numBytes \in Int /\ buffer \in Seq(Int) /\ result \in Int
  /\ stage \in {"closed", "open", "read", "write", "closing"}
  /\ start \in Nat /\ sent \in Seq(Int) /\ received \in Nat
  /\ reply \in {"pending", "226", "426", "none"} /\ abor \in BOOLEAN

(* The peer of a download receives the bytes of the file from the offset on,
   each once and in order, however the chunks, the partial sends and the two
   buffers fall (write_to_data, SeekRelative). *)
SentInOrder == \A i \in DOMAIN sent : sent[i] = start + i - 1

(* The file of an upload holds what was there and then what was received, in
   order: a prefix of it, while the rest is in the buffers. *)
DiskInOrder ==
  /\ \A i \in DOMAIN disk : disk[i] = i - 1
  /\ ~af_ReadMode => Len(disk) <= received

(* 226 after an upload says that the file holds all that was received. *)
UploadComplete ==
  stage = "closed" /\ ~af_ReadMode /\ reply = "226" => Len(disk) = received

(* As long as the disk takes what is written to it, nothing is lost: the part
   that CloseAsync() writes from the last buffer included. *)
HealthyUploadComplete == "write" \notin trouble => UploadComplete

(* The transfer is a stream of bytes, and a download that is answered with 226 is
   complete unless its peer gave ABOR: module Stream. *)
Promise == INSTANCE Stream WITH
  download <- af_ReadMode,
  source <- IF af_ReadMode THEN Between(start, IF start < Len(disk) THEN Len(disk) ELSE start)
            ELSE Between(start, received),
  moved <- IF af_ReadMode THEN sent ELSE SubSeq(disk, start + 1, Len(disk)),
  reply <- IF stage = "closed" THEN reply ELSE "pending",
  abor <- stage = "closed" /\ abor
StreamSpec == Promise!Spec

(* Liveness: a transfer that is reading, writing or closing gets on: no call
   waits for a packet that is not under way. *)
CallsReturn == call # "none" ~> call = "none"
========================================================================
