-------------------------- MODULE ControlInput --------------------------
(***************************************************************************)
(* read_from_control(): the bytes that a peer sends on its control         *)
(* connection become commands.  TCP keeps their order and nothing else:    *)
(* recv() returns any number of the bytes that are under way.  What a call *)
(* leaves in ftpdata.input, also behind the end of its text, is where the  *)
(* next call goes on.                                                      *)
(***************************************************************************)
EXTENDS Integers, Sequences, SequencesExt, FiniteSetsExt

CONSTANTS
  Letters,   \* bytes that stand for themselves
  Options,   \* those of them that the peer uses as Telnet options
  Commands,  \* commands the peer may give: [verb, args], sequences of letters
  BufSize,   \* BUFSIZE - 10: the room of ftpdata.input
  MaxSaid,   \* bound: commands in one session
  Stale      \* may a piece of a line end in front of an old byte of input?

Eol == {"CR", "LF"}
White == Eol \cup {"SP"}
Byte == Letters \cup White \cup {"NUL", "IAC", "WILL", "DO", "DONT"}

ASSUME InputAssumption ==
  /\ Options \subseteq Letters
  /\ BufSize \in Nat \ {0} /\ MaxSaid \in Nat /\ Stale \in BOOLEAN
  /\ Letters \cap (White \cup {"NUL", "IAC", "WILL", "DO", "DONT"}) = {}
  /\ \A c \in Commands : c.verb \in Seq(Letters) /\ c.verb # <<>> /\ c.args \in Seq(Letters)

VARIABLES
  open,     \* the session is on ftp_list
  input,    \* ftpdata.input, a C string and what is behind it
  net,      \* bytes sent and not received yet
  sender,   \* the peer: "patient" (one command at a time), "hasty", or
            \* "gone" (it has closed the connection)
  said,     \* the commands the peer has given in this session
  done      \* the commands the server has looked up and run (or answered 500)

vars == <<open, input, net, sender, said, done>>

-----------------------------------------------------------------------------
(* ftpdata.input as a C string *)

Strlen(memory) == Min({i \in 1..(BufSize + 1) : memory[i] = "NUL"}) - 1
Text(memory) == SubSeq(memory, 1, Strlen(memory))

(* The bytes s stored behind the first n bytes; nothing else changes. *)
Stored(memory, n, s) ==
  SubSeq(memory, 1, n) \o s \o SubSeq(memory, n + Len(s) + 1, BufSize + 1)
Zeroed == [i \in 1..(BufSize + 1) |-> "NUL"]

-----------------------------------------------------------------------------
(* One line is parsed byte by byte.  Backspace and escape, which the parser
   drops, are left out, and so are the other kinds of white space. *)

Modes == {"lead", "verb", "gap", "args", "IAC", "offer", "skip", "tail", "rest"}
Parsing == [mode : Modes, back : Modes, verb : Seq(Byte), args : Seq(Byte),
            refused : Seq(Byte), rest : Seq(Byte)]
NoParse == [mode |-> "lead", back |-> "lead", verb |-> <<>>, args |-> <<>>,
            refused |-> <<>>, rest |-> <<>>]

(* The loop over the line: the first blank ends the verb, of which four
   letters are kept; IAC opens a Telnet sequence in either part. *)
InLine(p, b) ==
  CASE b \in Eol -> [p EXCEPT !.mode = "tail"]
    [] b = "IAC" -> [p EXCEPT !.back = p.mode, !.mode = "IAC"]
    [] b = "SP" /\ p.mode = "verb" -> [p EXCEPT !.mode = "gap"]
    [] b \notin Eol \cup {"IAC", "SP"} /\ p.mode = "verb" ->
         [p EXCEPT !.verb = IF Len(@) < 4 THEN Append(@, b) ELSE @]
    [] b \notin Eol \cup {"IAC"} /\ p.mode = "args" -> [p EXCEPT !.args = Append(@, b)]

(* DO and WILL are refused at once, DONT (WONT, IP) and its option are skipped. *)
AfterIac(b) ==
  CASE b \in {"DO", "WILL"} -> "offer"
    [] b = "DONT" -> "skip"
    [] OTHER -> "back"

parse_byte(p, b) ==
  CASE p.mode \in {"lead", "gap"} /\ b \in White -> p
    [] p.mode = "lead" /\ b \notin White -> InLine([p EXCEPT !.mode = "verb"], b)
    [] p.mode = "gap" /\ b \notin White -> InLine([p EXCEPT !.mode = "args"], b)
    [] p.mode \in {"verb", "args"} -> InLine(p, b)
    [] p.mode = "IAC" ->
         [p EXCEPT !.mode = IF AfterIac(b) = "back" THEN p.back ELSE AfterIac(b)]
    [] p.mode = "offer" -> [p EXCEPT !.refused = Append(@, b), !.mode = p.back]
    [] p.mode = "skip" -> [p EXCEPT !.mode = p.back]
    [] p.mode = "tail" /\ b \in White -> p
    [] p.mode = "rest" \/ (p.mode = "tail" /\ b \notin White) ->
         [p EXCEPT !.mode = "rest", !.rest = Append(@, b)]

parse == [text \in Seq(Byte) |->
  LET parsed[i \in 0..Len(text)] ==
        IF i = 0 THEN NoParse
         ELSE [p \in Parsing |-> parse_byte(p, text[i])][parsed[i - 1]]
  IN parsed[Len(text)]]

-----------------------------------------------------------------------------
(* read_from_control() *)

FreeFtp ==
  /\ open' = FALSE /\ net' = <<>>
  /\ UNCHANGED <<input, sender, said, done>>

(* One line is run; the text behind it moves to the front of input. *)
RestUnterminated(memory, rest) == Stored(memory, 0, rest)
RestMoved(memory, rest) == Stored(memory, 0, Append(rest, "NUL"))

RunEveryLine(memory) ==
  \E p \in {parse[Text(memory)]} :
    /\ input' = RestMoved(memory, p.rest)
    /\ done' = Append(done, [verb |-> p.verb, args |-> p.args, refused |-> p.refused])
RunLine(memory) ==
  \E p \in {parse[Text(memory)]} :
    /\ input' = RestMoved(memory, p.rest)
    /\ done' = IF p.verb = <<>> THEN done
               ELSE Append(done, [verb |-> p.verb, args |-> p.args, refused |-> p.refused])

(* recv() has returned n bytes in all, the last of them b: the loop ends at
   the end of a line, or gives up a line that does not fit. *)
EndsLineAtCr(b) == b = "CR"
EndsLine(b) == b \in Eol

Room == BufSize - Strlen(input)

Received(n) == Stored(input, Strlen(input), SubSeq(net, 1, n))

(* The last recv() of the call ended with a line end. *)
ReadLine ==
  /\ open
  /\ \E n \in 1..Min({Room, Len(net)}) :
       /\ EndsLine(net[n])
       /\ net' = SubSeq(net, n + 1, Len(net))
       /\ RunLine(Stored(input, Strlen(input), Append(SubSeq(net, 1, n), "NUL")))
  /\ UNCHANGED <<open, sender, said>>

(* Some of a line has come and then recv() would block: the call returns with
   the bytes stored and no NUL behind them. *)
ReadPiece ==
  /\ open
  /\ \E n \in 1..Min({Room - 1, Len(net)}) :
       /\ ~EndsLine(net[n])
       /\ Stale \/ Received(n)[Strlen(input) + n + 1] = "NUL"
       /\ net' = SubSeq(net, n + 1, Len(net))
       /\ input' = Received(n)
  /\ UNCHANGED <<open, sender, said, done>>

TooLongAtLimit == Room <= Len(net)
TooLong == Room <= Len(net) /\ ~EndsLine(net[Room])

(* input is full without a line end, or recv() returns 0: the connection is
   closed by the peer, or there was no room to receive into. *)
ReadFails ==
  /\ open
  /\ \/ Room = 0
     \/ TooLong
     \/ net = <<>> /\ sender = "gone"
  /\ FreeFtp

(* The select loop wakes up once a second when nothing arrives. *)
NothingToRead == open /\ net = <<>> /\ UNCHANGED vars

-----------------------------------------------------------------------------
(* The peer *)

(* What a command looks like on the wire: Telnet negotiation may come first. *)
Telnet == {<<>>} \cup {<<"IAC", k, o>> : k \in {"WILL", "DO", "DONT"}, o \in Options}
Refused(t) == IF t # <<>> /\ t[2] # "DONT" THEN <<t[3]>> ELSE <<>>
Wire(t, c, eol) == t \o c.verb \o (IF c.args = <<>> THEN <<>> ELSE <<"SP">> \o c.args) \o eol

Say ==
  /\ open /\ sender # "gone" /\ Len(said) < MaxSaid
  /\ sender = "patient" => Len(done) = Len(said)
  /\ \E t \in Telnet, c \in Commands, eol \in {<<"CR", "LF">>, <<"LF">>} :
       /\ net' = net \o Wire(t, c, eol)
       /\ said' = Append(said, [verb |-> SubSeq(c.verb, 1, Min({4, Len(c.verb)})),
                                args |-> c.args, refused |-> Refused(t)])
  /\ UNCHANGED <<open, input, sender, done>>

(* A patient peer closes when everything it said was done. *)
Close ==
  /\ open /\ sender # "gone"
  /\ sender = "patient" => Len(done) = Len(said)
  /\ sender' = "gone"
  /\ UNCHANGED <<open, input, net, said, done>>

(* new_ftp(): the struct of a new session is all zeros. *)
NewFtp ==
  /\ ~open
  /\ open' = TRUE /\ input' = Zeroed
  /\ net' = <<>> /\ said' = <<>> /\ done' = <<>>
  /\ sender' \in {"patient", "hasty"}

-----------------------------------------------------------------------------
Init ==
  /\ open = FALSE /\ input = Zeroed
  /\ net = <<>> /\ said = <<>> /\ done = <<>> /\ sender = "gone"

Read == ReadLine \/ ReadPiece \/ ReadFails
Next == Read \/ NothingToRead \/ Say \/ Close \/ NewFtp

Spec == Init /\ [][Next]_vars

(* The select loop runs read_from_control() whenever the connection is
   readable, and bytes that were sent arrive. *)
FairSpec == Spec /\ WF_vars(Read)

-----------------------------------------------------------------------------
(* Properties *)

(* Type invariant: the byte behind the buffer stays NUL whatever recv() stores, so
   that strlen() ends there (ftpd.c 1006), and no more commands are run than were
   given. *)
TypeOK ==
  /\ open \in BOOLEAN /\ sender \in {"patient", "hasty", "gone"}
  /\ input \in [1..(BufSize + 1) -> Byte]
  /\ input[BufSize + 1] = "NUL"
  /\ net \in Seq(Byte)
  /\ Len(done) <= Len(said)

(* The server runs the commands that were given, in their order, each once and
   with its own arguments, however recv() cuts the stream, and refuses the
   Telnet options that came with each (ftpd.c 1004-1093). *)
CommandsInOrder == IsPrefix(done, said)

(* A peer that waits for each answer is never hung up on for the length of its
   lines: what an earlier call left in input takes no room (ftpd.c 1011). *)
PatientPeerStays == sender = "patient" => open

(* A peer that waits for each answer and the server do not wait for each other: once
   its command was run nothing stays in input, where a line would lie unread and take
   room from the next one, and until then more bytes are under way, so that the
   select loop comes back (ftpd.c 1004-1020, 1085-1092). *)
PatientPeerHeard ==
  sender = "patient" =>
    IF Len(done) = Len(said) THEN Text(input) = <<>> ELSE net # <<>>

(* Liveness: a peer that waits for each answer gets it: every command that it
   gives is run, whatever pieces it comes in. *)
PatientPeerServed ==
  sender = "patient" /\ Len(done) < Len(said) ~> Len(done) = Len(said)
=============================================================================
