---------------------------- MODULE Replies ----------------------------
(***************************************************************************)
(* The reply queue of one control connection: output() appends lines to    *)
(* ftpdata.output, write_to_control() sends them, and everything that      *)
(* speaks to the peer (command handlers, the end of a transfer, the        *)
(* console of the operator, the idle timeout) goes through output().       *)
(*                                                                         *)
(* output(txt, 0) queues lines under the placeholder code "000-": they are *)
(* held back until the next numbered reply gives them its own code.        *)
(* The module also models the peer's user process as RFC 765 describes it  *)
(* (src/doc/rfc/765:1905-1920): a line "NNN-" opens a multi-line reply     *)
(* that only the line "NNN " closes.  The socket does not block, and       *)
(* write_to_control() takes a line that send() sent in part for sent: what *)
(* the peer gets then is one line made of two.                             *)
(***************************************************************************)
EXTENDS Integers, Sequences

CONSTANTS
  CommandCodes, \* the codes of the replies that plain commands make
  MaxBanner,    \* longest banner, help text or .message file, in lines
  MaxQueue,     \* bound: no handler runs when its lines might not fit
  MaxTorn,      \* bound: the same, once a line was torn; and the longest queue
                \* of which a line is torn
  FeatOverHeld, \* may FEAT be sent while console text is held back?
  OnePerCommand \* count the one reply that is due to a command (TRUE), or
                \* the replies that its handler queues (FALSE)

Hold == 0          \* the placeholder code of output(txt, 0): "000-"
Idle == 1          \* the user process is not inside a multi-line reply
NoCode == 2        \* a raw line that does not begin with a reply code
ServerCodes == {211, 220, 221, 226, 230, 250, 421, 501, 550}
Codes == ServerCodes \cup CommandCodes

ASSUME RepliesAssumption ==
  /\ CommandCodes \subseteq 200..599
  /\ MaxBanner \in Nat /\ MaxQueue \in Nat /\ MaxTorn \in Nat
  /\ FeatOverHeld \in BOOLEAN /\ OnePerCommand \in BOOLEAN

(* One line of text: its code, and whether '-' follows the code. *)
Line == [code : Codes \cup {Hold, NoCode}, more : BOOLEAN]
Final(c) == [code |-> c, more |-> FALSE]
Opening(c) == [code |-> c, more |-> TRUE]

VARIABLES
  alive,    \* the session exists (it is on ftp_list)
  queue,    \* ftpdata.output
  quiet,    \* FLAG_QUIET
  quit,     \* FLAG_QUIT
  sending,  \* write_to_control() is in its loop
  reading,  \* user process: code of the multi-line reply it is inside
  due,      \* user process: replies that are due to it and not complete yet,
            \* as long as no line was torn
  cut,      \* user process: the line whose end did not come, at most one
  torn      \* was a line of this session sent in part?

wire == <<cut, torn>>
vars == <<alive, queue, quiet, quit, sending, reading, due, wire>>

-----------------------------------------------------------------------------
(* output() *)

Repeat(line, n) == [i \in 1..n |-> line]

(* A numbered reply turns every placeholder in the queue into its own code. *)
ClaimHeadOnly(q, c) ==
  [i \in 1..Len(q) |-> IF i = 1 /\ q[i].code = Hold THEN Opening(c) ELSE q[i]]
ClaimClosing(q, c) ==
  [i \in 1..Len(q) |-> IF q[i].code = Hold THEN Final(c) ELSE q[i]]
Claim(q, c) ==
  [i \in 1..Len(q) |-> IF q[i].code = Hold THEN Opening(c) ELSE q[i]]

HeldText(q, isQuiet, n) == IF isQuiet THEN q ELSE q \o Repeat(Opening(Hold), n)

NumberedNoClaim(q, c) == Append(q, Final(c))
NumberedUnclosed(q, c) == Append(Claim(q, c), Opening(c))
Numbered(q, c) == Append(Claim(q, c), Final(c))

(* output(txt, -1): the line goes out as it is, and claims nothing. *)
Raw(q, lines) == q \o lines

-----------------------------------------------------------------------------
(* Handlers.  Each runs to its end before the select loop does anything else. *)

StatLines == 5
Bound == IF torn THEN MaxTorn ELSE MaxQueue
CanRun == alive /\ ~sending /\ Len(queue) + MaxBanner + StatLines <= Bound

Says(q, replies) ==
  /\ queue' = q
  /\ due' = IF torn THEN 0 ELSE due + replies
  /\ UNCHANGED <<alive, sending, reading, wire>>

(* new_ftp(): a connection is accepted; the greeting precedes the 220 line. *)
NewFtp ==
  /\ ~alive
  /\ alive' = TRUE
  /\ \E n \in 0..MaxBanner : queue' = Numbered(HeldText(<<>>, FALSE, n), 220)
  /\ quiet' = FALSE /\ quit' = FALSE
  /\ sending' = FALSE
  /\ reading' = Idle /\ due' = 1
  /\ cut' = <<>> /\ torn' = FALSE

(* A command with a one-line answer, or refused with one (500 to 553). *)
PlainCommand ==
  /\ CanRun
  /\ \E c \in CommandCodes : Says(Numbered(queue, c), 1)
  /\ UNCHANGED <<quiet, quit>>

(* HELP, and CWD/CDUP with a .message file: text, then the numbered line. *)
TextCommand ==
  /\ CanRun
  /\ \E n \in 0..MaxBanner :
       Says(Numbered(HeldText(queue, quiet, n), 250), 1)
  /\ UNCHANGED <<quiet, quit>>

(* PASS: a leading '-' sets FLAG_QUIET before the welcome banner is queued. *)
PassCommand ==
  /\ CanRun
  /\ \E dash \in BOOLEAN, n \in 0..MaxBanner :
       /\ quiet' = dash
       /\ Says(Numbered(HeldText(queue, dash, n), 230), 1)
  /\ UNCHANGED quit

QuitCommand ==
  /\ CanRun
  /\ \E n \in 0..MaxBanner :
       Says(Numbered(HeldText(queue, quiet, n), 221), 1)
  /\ quit' = TRUE
  /\ UNCHANGED quiet

(* ABOR while a data connection or a file is open: 226, then 200 (two replies). *)
AborCommand ==
  /\ CanRun
  /\ \E c \in CommandCodes : Says(Numbered(Numbered(queue, 226), c), 2)
  /\ UNCHANGED <<quiet, quit>>

(* REIN clears every flag of the session. *)
ReinCommand ==
  /\ CanRun
  /\ quiet' = FALSE /\ quit' = FALSE
  /\ Says(Numbered(queue, 220), 1)

(* FEAT writes its lines raw: "211-Extensions supported:" .. "211 end". *)
FeatCommand ==
  /\ CanRun
  /\ FeatOverHeld \/ \A i \in DOMAIN queue : queue[i].code # Hold
  /\ Says(Raw(queue, <<Opening(211), Final(NoCode), Final(211)>>), 1)
  /\ UNCHANGED <<quiet, quit>>

(* STAT: a text of StatLines lines with the code 211 before each of them. *)
StatCommand ==
  /\ CanRun
  /\ Says(Claim(queue, 211) \o Repeat(Final(211), StatLines),
          IF OnePerCommand THEN 1 ELSE StatLines)
  /\ UNCHANGED <<quiet, quit>>

(* RETR and LIST of a path that real_dir() refuses: it queues a 550, and so
   does the handler.  PORT with a LAN address: 501, and the command goes on. *)
TwiceAnswered ==
  /\ CanRun
  /\ \E c \in {501, 550}, d \in CommandCodes \cup {550} :
       Says(Numbered(Numbered(queue, c), d), IF OnePerCommand THEN 1 ELSE 2)
  /\ UNCHANGED <<quiet, quit>>

(* A transfer ends (read_from_data, write_to_data) or the operator aborts it. *)
TransferEnds ==
  /\ CanRun
  /\ Says(Numbered(queue, 226), 1)
  /\ UNCHANGED <<quiet, quit>>

(* The operator's console message: a heading and the text, held for later. *)
ConsoleMessage ==
  /\ CanRun
  /\ Says(HeldText(queue, quiet, 2), 0)
  /\ UNCHANGED <<quiet, quit>>

(* The operator's kick, and the idle timeout. *)
Kick ==
  /\ CanRun
  /\ Says(Numbered(queue, 421), 1)
  /\ quit' = TRUE
  /\ UNCHANGED quiet

-----------------------------------------------------------------------------
(* write_to_control() and the end of the session *)

SendableUnlessMore(q) == q # <<>> /\ q[1].code # Hold /\ ~q[1].more
Sendable(q) == q # <<>> /\ q[1].code # Hold

(* The select loop asks for writability only if the head is no placeholder. *)
WriteToControl ==
  /\ alive /\ ~sending /\ Sendable(queue)
  /\ sending' = TRUE
  /\ UNCHANGED <<alive, queue, quiet, quit, reading, due, wire>>

(* What RFC 765's user process makes of a line. *)
Receive(line) ==
  IF reading = Idle
  THEN IF line.code = NoCode THEN UNCHANGED <<reading, due>>
       ELSE /\ reading' = IF line.more THEN line.code ELSE Idle
            /\ due' = IF line.more \/ torn THEN due ELSE due - 1
  ELSE IF line = Final(reading)
       THEN reading' = Idle /\ due' = IF torn THEN due ELSE due - 1
       ELSE UNCHANGED <<reading, due>>

(* What stands on the line that ends with this one, given what came of the one
   before.  A few digits and a line that begins with a blank (FEAT's) may look like
   any reply. *)
Joined(line) ==
  IF cut = <<>> THEN {line}
  ELSE IF cut[1].code = NoCode /\ line.code = NoCode THEN {line} \cup {Final(c) : c \in Codes}
  ELSE {cut[1]}

SendLine ==
  /\ sending /\ Sendable(queue)
  /\ queue' = Tail(queue)
  /\ \E line \in Joined(Head(queue)) : Receive(line)
  /\ cut' = <<>>
  /\ UNCHANGED <<alive, quiet, quit, sending, torn>>

(* send() takes a part of the line, which is not sent again: the code and what is
   behind it, or less. *)
SendPart ==
  /\ sending /\ Sendable(queue) /\ Len(queue) <= MaxTorn
  /\ queue' = Tail(queue)
  /\ \E line \in {Head(queue), Final(NoCode)} : cut' = IF cut = <<>> THEN <<line>> ELSE cut
  /\ torn' = TRUE /\ due' = 0
  /\ UNCHANGED <<alive, quiet, quit, sending, reading>>

(* free_ftp(): the connection is closed and the queue is freed. *)
FreeFtpStillSending ==
  /\ alive' = FALSE /\ queue' = <<>>
  /\ quiet' = FALSE /\ quit' = FALSE
  /\ reading' = Idle /\ due' = 0 /\ cut' = <<>> /\ torn' = FALSE
  /\ UNCHANGED sending
FreeFtp ==
  /\ alive' = FALSE /\ queue' = <<>> /\ sending' = FALSE
  /\ quiet' = FALSE /\ quit' = FALSE
  /\ reading' = Idle /\ due' = 0 /\ cut' = <<>> /\ torn' = FALSE

(* The loop has nothing left that it may send: a quitting session is freed. *)
WriteDone ==
  /\ sending /\ ~Sendable(queue)
  /\ IF quit THEN FreeFtp
     ELSE sending' = FALSE /\ UNCHANGED <<alive, queue, quiet, quit, reading, due, wire>>

(* send() fails, recv() ends, or the socket has an exception. *)
ConnectionLost == alive /\ FreeFtp

-----------------------------------------------------------------------------
Init ==
  /\ alive = FALSE /\ queue = <<>> /\ quiet = FALSE /\ quit = FALSE
  /\ sending = FALSE /\ reading = Idle /\ due = 0 /\ cut = <<>> /\ torn = FALSE

Command ==
  \/ PlainCommand \/ TextCommand \/ PassCommand \/ QuitCommand
  \/ AborCommand \/ ReinCommand \/ FeatCommand \/ StatCommand \/ TwiceAnswered

Next ==
  \/ NewFtp \/ Command \/ TransferEnds \/ ConsoleMessage \/ Kick
  \/ WriteToControl \/ SendLine \/ SendPart \/ WriteDone \/ ConnectionLost

Spec == Init /\ [][Next]_vars

(* The loop runs at least once a second and the peer reads its connection. *)
Fairness == WF_vars(WriteToControl) /\ WF_vars(SendLine \/ SendPart) /\ WF_vars(WriteDone)

FairSpec == Spec /\ Fairness

-----------------------------------------------------------------------------
(* Properties *)

(* Type invariant; a session that is gone has no output left and is not being
   written to (free_ftp: ftpd.c 930-966), and what the peer has of a torn line is
   no placeholder. *)
TypeOK ==
  /\ alive \in BOOLEAN /\ quiet \in BOOLEAN /\ quit \in BOOLEAN
  /\ sending \in BOOLEAN /\ torn \in BOOLEAN
  /\ queue \in Seq(Line)
  /\ reading \in Codes \cup {Idle}
  /\ due \in Int
  /\ cut \in Seq(Line) /\ Len(cut) <= 1
  /\ cut # <<>> => torn /\ cut[1].code # Hold
  /\ sending => alive
  /\ ~alive => queue = <<>>

(* Text held for the next reply never stands in front of a reply that is
   already there, so no reply waits for another command to be let out. *)
NoBlockedReply ==
  queue # <<>> /\ queue[1].code = Hold => \A i \in DOMAIN queue : queue[i].code = Hold

(* RFC 765's promise to its user process (src/doc/rfc/765:1905-1920): when
   write_to_control stops, the peer is not left inside a multi-line reply.  A
   line of which send() took a part breaks it. *)
RepliesClose == alive /\ ~Sendable(queue) => reading = Idle

(* As long as every line went out whole, it is kept: each line "NNN-" that was
   sent was followed by its "NNN ", through held text, banners and FEAT. *)
RepliesAreClosed == ~torn => RepliesClose

(* Seen from the peer, as long as every line went out whole: each command and each
   event that owes a reply gets exactly that many.  When nothing sendable is
   queued, none is missing and none was left over. *)
RepliesMatchCommands == alive /\ ~torn /\ ~Sendable(queue) => due = 0

(* A session marked to quit always has a line that the select loop will ask
   to write, so that write_to_control gets to run and free it. *)
QuitGetsWritten == quit /\ ~sending => Sendable(queue)

(* Liveness: a reply that is in the queue is handed to send(), or the session
   ends. *)
ReplyPending == \E i \in DOMAIN queue : ~queue[i].more
RepliesDelivered == ReplyPending ~> ~ReplyPending
========================================================================
