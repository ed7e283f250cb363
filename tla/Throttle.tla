----------------------------- MODULE Throttle -----------------------------
(***************************************************************************)
(* How main() shares the bandwidth: every pass of its loop gives each      *)
(* transfer an equal part of maxcps, watches the data connections that     *)
(* have not used theirs up, serves what is ready, and starts the count of  *)
(* a transfer again when a new second has come (ftpdata.xfer).  The same   *)
(* pass says goodbye to sessions that have been idle for too long.         *)
(* Peers on the LAN (FLAG_SPEEDY) are not limited.  A pass finds that some *)
(* seconds have begun since the last one, more than one if the server was  *)
(* held up; what timer() makes of the clock is in module Statistics.       *)
(***************************************************************************)
EXTENDS Integers, FiniteSets

CONSTANTS
  Sessions,
  Lan,        \* sessions with FLAG_SPEEDY
  Limits,     \* the limits the operator chooses from, 0 is none
  MinChunk,   \* bytes moved at least, if there are as many: 16
  MaxFilebuf, \* bytes moved at most
  MaxSize,    \* bound: bytes of a file
  Timeout,    \* seconds a session may be idle, 0 is no timeout
  MaxLag      \* bound: seconds between two passes

ASSUME ThrottleAssumption ==
  /\ IsFiniteSet(Sessions) /\ Lan \subseteq Sessions
  /\ Limits # {} /\ Limits \subseteq Nat
  /\ MinChunk \in Nat \ {0} /\ MaxFilebuf \in Nat /\ MinChunk <= MaxFilebuf
  /\ MaxSize \in Nat /\ Timeout \in Nat /\ MaxLag \in Nat \ {0}

VARIABLES
  maxcps,  \* the limit, in bytes per second
  my_cps,  \* the part of one transfer
  ftp,     \* the sessions
  watch,   \* data connections in the sets of WaitSelect(), not served yet
  todo,    \* sessions that this pass has still to look at
  steady   \* the same transfers and limit since the counts began at 0

vars == <<maxcps, my_cps, ftp, watch, todo, steady>>

(* idle: seconds since ftpdata.started, while no file is open; left: bytes of
   the file that are still to be moved. *)
Session ==
  [on : BOOLEAN, quit : BOOLEAN, file : {"none", "RECV", "SEND"}, connected : BOOLEAN,
   left : Nat, xfer : Nat, idle : 0..(Timeout + 1)]
NoSession == [on |-> FALSE, quit |-> FALSE, file |-> "none", connected |-> FALSE,
              left |-> 0, xfer |-> 0, idle |-> 0]

Least(a, b) == IF a <= b THEN a ELSE b
range(min, x, max) == IF x > max THEN max ELSE IF x < min THEN min ELSE x

Limited == {s \in Sessions \ Lan : ftp[s].file # "none"}

-----------------------------------------------------------------------------
(* A pass, up to WaitSelect() *)

Share(limit) ==
  IF limit = 0 \/ Limited = {} THEN 0 ELSE limit \div Cardinality(Limited)

WatchedAtLimit(s, limit) ==
  /\ ftp[s].connected /\ ftp[s].file # "none"
  /\ s \in Lan \/ limit = 0 \/ (Share(limit) # 0 /\ ftp[s].xfer <= Share(limit))
Watched(s, limit) ==
  /\ ftp[s].connected /\ ftp[s].file # "none"
  /\ s \in Lan \/ limit = 0 \/ (Share(limit) # 0 /\ ftp[s].xfer < Share(limit))

(* A new second: the count of a transfer begins again. *)
NewCountOfWatched(f) == IF f.xfer < my_cps THEN [f EXCEPT !.xfer = 0] ELSE f
NewCount(f) == [f EXCEPT !.xfer = 0]
Older(f, seconds) ==
  IF ~f.on \/ seconds = 0 THEN f
  ELSE IF f.file = "none" THEN [f EXCEPT !.idle = Least(@ + seconds, Timeout + 1)]
  ELSE NewCount(f)

(* More than the timeout without a transfer: 421 and goodbye. *)
IdleToTheSecond(f) == f.on /\ f.file = "none" /\ Timeout > 0 /\ f.idle = Timeout
IdleTooLong(f) == f.on /\ f.file = "none" /\ Timeout > 0 /\ f.idle > Timeout
Checked(f) == [f EXCEPT !.quit = @ \/ IdleTooLong(f)]

(* The sessions of the last pass that are still to do had nothing ready.  The
   operator may have changed the limit.  watch is from before the count. *)
Pass(seconds) ==
  /\ maxcps' \in Limits
  /\ my_cps' = Share(maxcps')
  /\ watch' = {s \in Sessions : Watched(s, maxcps')}
  /\ todo' = {s \in Sessions : ftp[s].on}
  /\ ftp' = [s \in Sessions |-> Checked(Older(ftp[s], seconds))]
  /\ steady' = (seconds > 0 \/ (steady /\ maxcps' = maxcps))

-----------------------------------------------------------------------------
(* After it: each session is looked at once, and its control connection first. *)

Serve(s) ==
  /\ s \in todo
  /\ todo' = todo \ {s} /\ watch' = watch \ {s}
  /\ UNCHANGED <<maxcps, my_cps>>

FreeData(f) == [f EXCEPT !.file = "none", !.connected = FALSE, !.left = 0, !.xfer = 0, !.idle = 0]

(* new_ftp() *)
NewFtp(s) ==
  /\ ~ftp[s].on
  /\ ftp' = [ftp EXCEPT ![s] = [NoSession EXCEPT !.on = TRUE]]
  /\ UNCHANGED <<maxcps, my_cps, watch, todo, steady>>

(* write_to_control() wrote a line: a session that was told 421 is freed. *)
Written(s) ==
  /\ Serve(s) /\ ftp[s].quit
  /\ ftp' = [ftp EXCEPT ![s] = NoSession]
  /\ steady' = FALSE

(* A command that opens no file; during a transfer it is no sign of life. *)
Answer(s) ==
  /\ Serve(s)
  /\ ftp' = [ftp EXCEPT ![s].idle = IF ftp[s].file = "none" THEN 0 ELSE @]
  /\ UNCHANGED steady

(* A command that is refused before its handler runs, or a NOOP if the operator
   does not let it count: no sign of life. *)
Refuse(s) == Serve(s) /\ UNCHANGED <<ftp, steady>>

(* RETR, STOR and the like: over a connection that PORT made, or one that the
   peer has still to make. *)
Open(s) ==
  /\ Serve(s) /\ ftp[s].file = "none"
  /\ \E file \in {"RECV", "SEND"}, connected \in BOOLEAN, size \in 0..MaxSize :
       ftp' = [ftp EXCEPT ![s].file = file, ![s].connected = connected,
                          ![s].left = size, ![s].idle = 0]
  /\ steady' = FALSE

(* accept() on the connection of PASV. *)
Accept(s) ==
  /\ Serve(s) /\ ftp[s].file # "none" /\ ~ftp[s].connected
  /\ ftp' = [ftp EXCEPT ![s].connected = TRUE]
  /\ UNCHANGED steady

(* ABOR, or an error on the data connection. *)
Abort(s) ==
  /\ Serve(s) /\ ftp[s].file # "none"
  /\ ftp' = [ftp EXCEPT ![s] = FreeData(@)]
  /\ steady' = FALSE

(* write_to_data(): a chunk of what is left of the share; without a limit the
   chunk follows the speed of the transfer.  read_from_data() computes the same
   and takes all that has come. *)
ChunksWhole(s) ==
  IF ftp[s].file = "RECV" THEN {MaxFilebuf}
  ELSE IF s \notin Lan /\ my_cps # 0 THEN {range(MinChunk, my_cps, MaxFilebuf)}
  ELSE MinChunk..MaxFilebuf
Chunks(s) ==
  IF ftp[s].file = "RECV" THEN {MaxFilebuf}
  ELSE IF s \notin Lan /\ my_cps # 0 THEN {range(MinChunk, my_cps - ftp[s].xfer, MaxFilebuf)}
  ELSE MinChunk..MaxFilebuf

(* Of the chunk, any part may have come or be taken by the connection. *)
Move(s) ==
  /\ Serve(s) /\ s \in watch /\ ftp[s].file # "none" /\ ftp[s].connected
  /\ \/ /\ ftp[s].left = 0
        /\ ftp' = [ftp EXCEPT ![s] = FreeData(@)]
        /\ steady' = FALSE
     \/ /\ \E maxlen \in Chunks(s) : \E n \in 1..Least(ftp[s].left, maxlen) :
             ftp' = [ftp EXCEPT ![s].left = @ - n, ![s].xfer = @ + n]
        /\ UNCHANGED steady

-----------------------------------------------------------------------------
Init ==
  /\ maxcps \in Limits /\ my_cps = 0
  /\ ftp = [s \in Sessions |-> NoSession]
  /\ watch = {} /\ todo = {} /\ steady = FALSE

Next ==
  \/ \E seconds \in 0..MaxLag : Pass(seconds)
  \/ \E s \in Sessions :
       \/ NewFtp(s) \/ Written(s) \/ Answer(s) \/ Refuse(s)
       \/ Open(s) \/ Accept(s) \/ Abort(s) \/ Move(s)

Spec == Init /\ [][Next]_vars

(* The loop goes on and the clock with it; a connection that is watched again and
   again is ready at last, data and control connections alike. *)
FairSpec ==
  /\ Spec
  /\ WF_vars(\E seconds \in 1..MaxLag : Pass(seconds))
  /\ \A s \in Sessions : SF_vars(Move(s)) /\ SF_vars(Written(s))

-----------------------------------------------------------------------------
(* Properties *)

TypeOK ==
  /\ maxcps \in Limits /\ my_cps \in Nat /\ ftp \in [Sessions -> Session]
  /\ watch \subseteq Sessions /\ todo \subseteq Sessions /\ steady \in BOOLEAN

(* What a transfer may move beyond its part: the rest of the smallest chunk, or
   the rest of the buffer, because read_from_data() does not use the limit it has
   computed. *)
Excess(s) == IF ftp[s].file = "SEND" THEN MinChunk - 1 ELSE MaxFilebuf - 1

(* The limit is kept: while the transfers and the limit stay as they are, all of
   them together move no more than maxcps in a second, but for the excess. *)
WithinLimit ==
  steady /\ maxcps # 0 =>
    /\ Cardinality(Limited) * my_cps <= maxcps
    /\ \A s \in Limited : ftp[s].xfer <= my_cps + Excess(s)

(* Every transfer that has its connection ends, however the others come and go,
   if the limit gives each at least a byte. *)
TransfersMove ==
  \A s \in Sessions : ftp[s].file # "none" /\ ftp[s].connected ~> ftp[s].file = "none"

(* A session does not stay without transfers and without commands for ever: it
   either sends commands again and again or is told to go. *)
IdleTold ==
  \A s \in Sessions :
    <>[](ftp[s].on /\ ftp[s].file = "none") => []<><<Answer(s)>>_vars
=============================================================================
