----------------------------- MODULE Server -----------------------------
(***************************************************************************)
(* The sessions of the server: the list ftp_list of struct ftpdata, what   *)
(* each command handler, each socket event of the select loop, each button *)
(* of the operator and the idle timeout does to it, with the descriptors   *)
(* of the data connections and the listing files that exist besides.       *)
(*                                                                         *)
(* Everything runs in one task: a handler is one step.  A command that is  *)
(* refused changes nothing but the reply queue, which module Replies       *)
(* models, so refusals are no steps here.  What the disk, the network and  *)
(* the peer decide (does a path exist, does connect() work, is a password  *)
(* right) is a free choice; Commands and Faults say what the peers of an   *)
(* instance send and what may go wrong in it.                              *)
(***************************************************************************)
EXTENDS Integers, FiniteSets

CONSTANTS
  Sessions,     \* places for sessions (struct ftpdata)
  Users,        \* accounts of user_list
  Guarded,      \* accounts with a password
  Anon,         \* may accounts without a password log in? ("anon" setting)
  Limit,        \* Limit[u]: sessions allowed for account u, 0 for any number
  Ip,           \* Ip[s]: address of the peer of s
  Connections,  \* the "connections" setting, 0 for any number
  Fds,          \* descriptors available to data connections
  Commands,     \* the commands that the peers send
  Faults        \* what may fail: "open" (OpenFile), "lock" (Lock of a listed
                \* directory), "disk" (writing a file), "exception" (select
                \* reports one on a data connection)

CommandNames == {"USER", "USER again", "PASS", "REIN", "QUIT", "PORT", "PASV",
                 "REST", "RNFR", "CWD", "LIST", "RETR", "STOR", "APPE", "ABOR"}

ASSUME ServerAssumption ==
  /\ IsFiniteSet(Sessions) /\ Guarded \subseteq Users
  /\ Anon \in BOOLEAN /\ Limit \in [Users -> Nat] /\ Connections \in Nat
  /\ Fds \subseteq Nat
  /\ Commands \subseteq CommandNames
  /\ Faults \subseteq {"open", "lock", "disk", "exception"}

NoUser == [user |-> "NULL"]     \* ftp->user is NULL
Unknown == [user |-> "-1"]      \* ftp->user is (void*)-1: no such account
NoFd == -1
Account(u) == [account |-> u]
Accounts == {Account(u) : u \in Users}

DataFlags == {"SEND", "RECV", "LIST", "CONNECTED"}
Flags == DataFlags \cup {"ONLINE", "QUIT"}

(* struct ftpdata; start is the restart offset, zero or not. *)
Ftpdata ==
  [user : Accounts \cup {NoUser, Unknown}, flags : SUBSET Flags,
   data : Fds \cup {NoFd}, pdata : Fds \cup {NoFd},
   file : {"none", "read", "write"}, filename : {"", "temp", "arg"},
   start : {0, 1}]

Fresh ==
  [user |-> NoUser, flags |-> {}, data |-> NoFd, pdata |-> NoFd,
   file |-> "none", filename |-> "", start |-> 0]

VARIABLES
  ftp_list,   \* the sessions on the list
  opencount,  \* how many the server believes there are
  open,       \* the operator's open/closed switch
  ftp,        \* the struct of each session (Fresh when it is not on the list)
  fds,        \* descriptors of data connections that are open
  temps,      \* sessions whose listing file exists on disk
  owed        \* sessions that were sent 150 and not yet 226, 425 or 426

vars == <<ftp_list, opencount, open, ftp, fds, temps, owed>>

-----------------------------------------------------------------------------
(* Helpers *)

HasConnection(r) == r.data # NoFd \/ r.pdata # NoFd

(* The select loop waits for data, or for the peer on the listening socket.  A
   connection that was reported is left alone in a pass that has no bandwidth for it
   (ftpd.c 1438-1444): module Throttle says when, and that its turn comes.  Here it
   may take any time to be reported. *)
Watched(r) == r.data # NoFd /\ "CONNECTED" \in r.flags
Listening(r) == r.data = NoFd /\ r.pdata # NoFd

(* free_data() of session s when its struct is r and the listing files onDisk
   exist: what is left of the struct, the descriptors and the listings. *)
ClearedKeepingFlags(r) ==
  [r EXCEPT !.data = NoFd, !.pdata = NoFd, !.file = "none",
            !.filename = "", !.start = 0]
ClearedLosingQuit(r) ==
  [r EXCEPT !.data = NoFd, !.pdata = NoFd, !.file = "none",
            !.filename = "", !.start = 0, !.flags = @ \cap {"ONLINE"}]
ClearedKeepingSocket(r) ==
  [r EXCEPT !.file = "none", !.filename = "", !.start = 0, !.flags = @ \ DataFlags]
Cleared(r) ==
  [r EXCEPT !.data = NoFd, !.pdata = NoFd, !.file = "none",
            !.filename = "", !.start = 0, !.flags = @ \ DataFlags]

Closed(r) == fds \ {r.data, r.pdata}
KeepListing(s, r, onDisk) == onDisk
DeleteListing(s, r, onDisk) ==
  IF "LIST" \in r.flags /\ r.filename = "temp" THEN onDisk \ {s} ELSE onDisk

FreeData(s, r, onDisk) ==
  /\ ftp' = [ftp EXCEPT ![s] = Cleared(r)]
  /\ fds' = Closed(r)
  /\ temps' = DeleteListing(s, r, onDisk)

(* The transfer of s ends with a reply that completes it, or without one. *)
Completes(s) == owed' = owed \ {s}
Silently == UNCHANGED owed

Set(s, r) == ftp' = [ftp EXCEPT ![s] = r]
OthersSame == UNCHANGED <<ftp_list, opencount, open>>
OnlyStruct == OthersSame /\ UNCHANGED <<fds, temps, owed>>

(* read_from_control: while a file is open only QUIT and ABOR are accepted,
   and before the login only USER, PASS and QUIT. *)
MayRunAlways(s, name) ==
  /\ s \in ftp_list /\ name \in Commands
  /\ "ONLINE" \notin ftp[s].flags => name \in {"USER", "PASS", "QUIT"}
MayRun(s, name) ==
  /\ s \in ftp_list /\ name \in Commands
  /\ ftp[s].file # "none" => name \in {"QUIT", "ABOR"}
  /\ "ONLINE" \notin ftp[s].flags => name \in {"USER", "PASS", "QUIT"}

-----------------------------------------------------------------------------
(* Connections and logins *)

NewFtp(s) ==
  /\ s \notin ftp_list /\ open
  /\ Connections = 0 \/ opencount < Connections
  /\ ftp_list' = ftp_list \cup {s} /\ opencount' = opencount + 1
  /\ UNCHANGED <<open, ftp, fds, temps, owed>>

(* free_ftp() *)
FreeFtpUncounted(s) ==
  /\ s \in ftp_list /\ ftp_list' = ftp_list \ {s}
  /\ ftp' = [ftp EXCEPT ![s] = Fresh]
  /\ fds' = Closed(ftp[s]) /\ temps' = DeleteListing(s, ftp[s], temps)
  /\ owed' = owed \ {s}
  /\ UNCHANGED <<open, opencount>>
FreeFtp(s) ==
  /\ s \in ftp_list /\ ftp_list' = ftp_list \ {s} /\ opencount' = opencount - 1
  /\ ftp' = [ftp EXCEPT ![s] = Fresh]
  /\ fds' = Closed(ftp[s]) /\ temps' = DeleteListing(s, ftp[s], temps)
  /\ owed' = owed \ {s}
  /\ UNCHANGED open

User(s) ==
  /\ MayRun(s, IF "ONLINE" \in ftp[s].flags THEN "USER again" ELSE "USER")
  /\ \E u \in Accounts \cup {Unknown} : Set(s, [ftp[s] EXCEPT !.user = u])
  /\ OnlyStruct

(* PASS counts the sessions that gave the same account, its own included. *)
SameAccount(s) ==
  {t \in ftp_list : /\ ftp[t].user = ftp[s].user
                    /\ (\E u \in Guarded : ftp[s].user = Account(u)) \/ Ip[t] = Ip[s]}
OneTooMany(s, u) == Limit[u] # 0 /\ Cardinality(SameAccount(s)) > Limit[u] + 1
OverLimit(s, u) == Limit[u] # 0 /\ Cardinality(SameAccount(s)) > Limit[u]

PassAccepted(s) ==
  /\ MayRun(s, "PASS") /\ "ONLINE" \notin ftp[s].flags
  /\ \E u \in Users : /\ ftp[s].user = Account(u)
                      /\ u \in Guarded \/ Anon
                      /\ ~OverLimit(s, u)
  /\ Set(s, [ftp[s] EXCEPT !.flags = @ \cup {"ONLINE"}])
  /\ OnlyStruct

(* A wrong password is possible for every guarded account. *)
PassRejected(s) ==
  /\ MayRun(s, "PASS") /\ "ONLINE" \notin ftp[s].flags
  /\ \/ ftp[s].user = Unknown
     \/ \E u \in Users : /\ ftp[s].user = Account(u)
                         /\ u \in Guarded \/ ~Anon \/ OverLimit(s, u)
  /\ Set(s, [ftp[s] EXCEPT !.user = NoUser])
  /\ OnlyStruct

(* REIN clears every flag, and leaves the data connections and the offset. *)
ReinKeepingFlags(s) ==
  /\ MayRun(s, "REIN")
  /\ Set(s, [ftp[s] EXCEPT !.user = NoUser, !.filename = ""])
  /\ OnlyStruct
Rein(s) ==
  /\ MayRun(s, "REIN")
  /\ Set(s, [ftp[s] EXCEPT !.user = NoUser, !.filename = "", !.flags = {}])
  /\ OnlyStruct

Quit(s) ==
  /\ MayRun(s, "QUIT")
  /\ Set(s, [ftp[s] EXCEPT !.flags = @ \cup {"QUIT"}])
  /\ OnlyStruct

-----------------------------------------------------------------------------
(* Data connections and transfers: the commands *)

(* The old connection of an earlier PORT or PASV is forgotten, not closed. *)
Port(s) ==
  /\ MayRun(s, "PORT")
  /\ \E f \in Fds \ fds :
       /\ Set(s, [ftp[s] EXCEPT !.data = f, !.flags = @ \cup {"CONNECTED"}])
       /\ fds' = fds \cup {f}
  /\ OthersSame /\ UNCHANGED <<temps, owed>>

(* socket(), bind() or connect() fails; ftp->data is overwritten before. *)
PortFails(s) ==
  /\ MayRun(s, "PORT")
  /\ FreeData(s, [ftp[s] EXCEPT !.data = NoFd], temps)
  /\ OthersSame /\ Silently

Pasv(s) ==
  /\ MayRun(s, "PASV")
  /\ \/ /\ \E f \in Fds \ Closed(ftp[s]) :
             /\ Set(s, [Cleared(ftp[s]) EXCEPT !.pdata = f])
             /\ fds' = Closed(ftp[s]) \cup {f}
        /\ temps' = DeleteListing(s, ftp[s], temps)
     \/ FreeData(s, ftp[s], temps)
  /\ OthersSame /\ Silently

Rest(s) ==
  /\ MayRun(s, "REST")
  /\ \E n \in {0, 1} : Set(s, [ftp[s] EXCEPT !.start = n])
  /\ OnlyStruct

Rnfr(s) ==
  /\ MayRun(s, "RNFR")
  /\ Set(s, [ftp[s] EXCEPT !.filename = "arg"])
  /\ OnlyStruct

Cwd(s) ==
  /\ MayRun(s, "CWD")
  /\ Set(s, [ftp[s] EXCEPT !.filename = ""])
  /\ OnlyStruct

(* do_file(): appending sets the offset to the length of the file. *)
DoFile(s, r, mode, append, onDisk) ==
  \/ /\ ~HasConnection(r)
     /\ FreeData(s, r, onDisk) /\ Silently
  \/ /\ HasConnection(r) /\ "open" \in Faults
     /\ Set(s, r) /\ temps' = onDisk /\ UNCHANGED <<fds, owed>>
  \/ /\ HasConnection(r)
     /\ \E n \in IF append /\ "LIST" \notin r.flags THEN {0, 1} ELSE {r.start} :
          Set(s, [r EXCEPT !.file = mode, !.start = n])
     /\ owed' = owed \cup {s}
     /\ temps' = onDisk /\ UNCHANGED fds

(* LIST, NLST: the listing is written to a temporary file first.  The path is
   refused; the file cannot be created; the directory cannot be locked, and
   free_data() deletes nothing because the file is still open; or it is sent. *)
List(s) ==
  /\ MayRun(s, "LIST")
  /\ \/ FreeData(s, ftp[s], temps) /\ Silently
     \/ FreeData(s, [ftp[s] EXCEPT !.filename = "temp"], temps) /\ Silently
     \/ /\ "lock" \in Faults
        /\ FreeData(s, [ftp[s] EXCEPT !.flags = @ \ {"LIST"}], temps \cup {s}) /\ Silently
     \/ DoFile(s, [ftp[s] EXCEPT !.filename = "temp", !.flags = @ \cup {"LIST", "SEND"}],
               "read", FALSE, temps \cup {s})
  /\ OthersSame

Retr(s) ==
  /\ MayRun(s, "RETR")
  /\ DoFile(s, [ftp[s] EXCEPT !.filename = "arg", !.flags = @ \cup {"SEND"}],
            "read", FALSE, temps)
  /\ OthersSame

Stor(s) ==
  /\ MayRun(s, "STOR")
  /\ DoFile(s, [ftp[s] EXCEPT !.filename = "arg", !.flags = @ \cup {"RECV"}],
            "write", ftp[s].start # 0, temps)
  /\ OthersSame

Appe(s) ==
  /\ MayRun(s, "APPE")
  /\ DoFile(s, [ftp[s] EXCEPT !.filename = "arg", !.flags = @ \cup {"RECV"}],
            "write", TRUE, temps)
  /\ OthersSame

Abor(s) ==
  /\ MayRun(s, "ABOR")
  /\ ftp[s].file # "none" \/ HasConnection(ftp[s])
  /\ FreeData(s, ftp[s], temps) /\ Completes(s)
  /\ OthersSame

-----------------------------------------------------------------------------
(* Data connections and transfers: the events of the select loop *)

AcceptUnflagged(s) ==
  /\ s \in ftp_list /\ Listening(ftp[s])
  /\ \E f \in Fds \ fds : Set(s, [ftp[s] EXCEPT !.data = f]) /\ fds' = fds \cup {f}
  /\ OthersSame /\ UNCHANGED <<temps, owed>>
AcceptData(s) ==
  /\ s \in ftp_list /\ Listening(ftp[s])
  /\ \E f \in Fds \ fds :
       /\ Set(s, [ftp[s] EXCEPT !.data = f, !.flags = @ \cup {"CONNECTED"}])
       /\ fds' = fds \cup {f}
  /\ OthersSame /\ UNCHANGED <<temps, owed>>

AcceptFails(s) ==
  /\ s \in ftp_list /\ Listening(ftp[s])
  /\ FreeData(s, ftp[s], temps) /\ Completes(s)
  /\ OthersSame

(* read_from_data: the peer closed the connection, or it broke (226 as well). *)
RecvEnds(s) ==
  /\ s \in ftp_list /\ Watched(ftp[s]) /\ "RECV" \in ftp[s].flags
  /\ FreeData(s, ftp[s], temps) /\ Completes(s)
  /\ OthersSame

(* WriteFile() returns -1: the disk is full, or no file is open. *)
RecvWriteFails(s) ==
  /\ s \in ftp_list /\ Watched(ftp[s]) /\ "RECV" \in ftp[s].flags
  /\ "disk" \in Faults \/ ftp[s].file = "none"
  /\ FreeData(s, ftp[s], temps) /\ Silently
  /\ OthersSame

(* write_to_data: end of file (226), or an error of the file or the connection
   (426); ReadFile() of no file is such an error. *)
SendEndsSilently(s) ==
  /\ s \in ftp_list /\ Watched(ftp[s]) /\ "SEND" \in ftp[s].flags
  /\ FreeData(s, ftp[s], temps) /\ Silently
  /\ OthersSame
SendEnds(s) ==
  /\ s \in ftp_list /\ Watched(ftp[s]) /\ "SEND" \in ftp[s].flags
  /\ FreeData(s, ftp[s], temps) /\ Completes(s)
  /\ OthersSame

DataException(s) ==
  /\ s \in ftp_list /\ Watched(ftp[s]) /\ "exception" \in Faults
  /\ FreeData(s, ftp[s], temps) /\ Silently
  /\ OthersSame

-----------------------------------------------------------------------------
(* The operator, the idle timeout, and the end of a session *)

KickDangling(s) ==
  /\ Set(s, [ftp[s] EXCEPT !.flags = @ \cup {"QUIT"}])
  /\ OnlyStruct
Kick(s) ==
  /\ s \in ftp_list
  /\ Set(s, [ftp[s] EXCEPT !.flags = @ \cup {"QUIT"}])
  /\ OnlyStruct

Abort(s) ==
  /\ s \in ftp_list
  /\ FreeData(s, ftp[s], temps) /\ Completes(s)
  /\ OthersSame

Timeout(s) ==
  /\ s \in ftp_list /\ ftp[s].file = "none"
  /\ Set(s, [ftp[s] EXCEPT !.flags = @ \cup {"QUIT"}])
  /\ OnlyStruct

OpenClose == open' = ~open /\ UNCHANGED <<ftp_list, opencount, ftp, fds, temps, owed>>

(* The control connection becomes writable and the session is to quit: every
   setting of the flag queues a reply first (Replies, QuitGetsWritten). *)
WriteGoodbye(s) == "QUIT" \in ftp[s].flags /\ FreeFtp(s)

(* The control connection ends, breaks, or has an exception. *)
Hangup(s) == FreeFtp(s)

Init ==
  /\ ftp_list = {} /\ opencount = 0 /\ open = TRUE
  /\ ftp = [s \in Sessions |-> Fresh]
  /\ fds = {} /\ temps = {} /\ owed = {}

LoginStep(s) ==
  NewFtp(s) \/ User(s) \/ PassAccepted(s) \/ PassRejected(s) \/ Rein(s) \/ Quit(s)
TransferCommand(s) ==
  \/ Port(s) \/ PortFails(s) \/ Pasv(s) \/ Rest(s) \/ Rnfr(s) \/ Cwd(s)
  \/ List(s) \/ Retr(s) \/ Stor(s) \/ Appe(s) \/ Abor(s)
DataEvent(s) ==
  \/ AcceptData(s) \/ AcceptFails(s) \/ RecvEnds(s) \/ RecvWriteFails(s)
  \/ SendEnds(s) \/ DataException(s)
ControlEvent(s) ==
  Kick(s) \/ Abort(s) \/ Timeout(s) \/ WriteGoodbye(s) \/ Hangup(s)

Next ==
  \/ OpenClose
  \/ \E s \in Sessions :
       LoginStep(s) \/ TransferCommand(s) \/ DataEvent(s) \/ ControlEvent(s)

Spec == Init /\ [][Next]_vars

(* The loop runs at least once a second and serves every writable socket. *)
FairSpec == Spec /\ \A s \in Sessions : WF_vars(WriteGoodbye(s))

-----------------------------------------------------------------------------
(* Properties *)

(* Type invariant; a struct that is off the list is nobody's: nothing that
   still holds a pointer to it (the operator's list of sessions, a later pass
   of the loop) may have written to it. *)
TypeOK ==
  /\ ftp_list \subseteq Sessions /\ opencount \in Int /\ open \in BOOLEAN
  /\ ftp \in [Sessions -> Ftpdata]
  /\ fds \subseteq Fds /\ temps \subseteq Sessions /\ owed \subseteq Sessions
  /\ \A s \in Sessions \ ftp_list : ftp[s] = Fresh

(* The counter that the "connections" setting is compared with is the number
   of sessions on the list, so the limit is a limit on the sessions. *)
CountMatches ==
  /\ opencount = Cardinality(ftp_list)
  /\ Connections # 0 => Cardinality(ftp_list) <= Connections

(* No account has more sessions logged in than its limit; for an account
   without a password the limit is for each address (cmd_pass). *)
LoggedIn(u) == {s \in ftp_list : "ONLINE" \in ftp[s].flags /\ ftp[s].user = Account(u)}
SessionLimit ==
  \A u \in Users : Limit[u] # 0 =>
    IF u \in Guarded THEN Cardinality(LoggedIn(u)) <= Limit[u]
    ELSE \A s \in Sessions : Cardinality({t \in LoggedIn(u) : Ip[t] = Ip[s]}) <= Limit[u]

(* Whoever is logged in, transfers, or has FLAG_RECV set has an account:
   free_data(), the command table and the listings read ftp->user's fields
   without a test. *)
AccountPresent ==
  \A s \in Sessions :
    "ONLINE" \in ftp[s].flags \/ "RECV" \in ftp[s].flags \/ ftp[s].file # "none"
    => ftp[s].user \in Accounts

(* Each descriptor that a struct holds is open, and is held once: nobody
   closes, reads or writes the connection of another session. *)
Holds(s, f) == f # NoFd /\ (ftp[s].data = f \/ ftp[s].pdata = f)
DescriptorsOwned ==
  \A s \in Sessions :
    /\ \A f \in Fds : Holds(s, f) =>
         f \in fds /\ \A t \in Sessions : Holds(t, f) => t = s
    /\ ftp[s].data # NoFd => ftp[s].data # ftp[s].pdata

(* While a file is open, the select loop watches a socket that lets the
   transfer go on: there is no idle timeout then to end a stuck session. *)
TransferWatched ==
  \A s \in Sessions : ftp[s].file # "none" => Watched(ftp[s]) \/ Listening(ftp[s])

(* The flags say what is done with the open file, as ftpd.h documents them:
   it is sent or received but not both, the way it was opened, and the file
   that will be deleted after sending is the listing. *)
FlagsDescribeFile ==
  \A s \in Sessions : ftp[s].file # "none" =>
    /\ "SEND" \in ftp[s].flags <=> ftp[s].file = "read"
    /\ "RECV" \in ftp[s].flags <=> ftp[s].file = "write"
    /\ "LIST" \in ftp[s].flags => ftp[s].filename = "temp"

(* A peer that was told 150 gets a completion reply before the transfer is
   dropped: no transfer ends in silence. *)
TransferAnswered == \A s \in owed : ftp[s].file # "none"

(* A listing file exists only while its session will delete it. *)
ListingsDeleted ==
  \A s \in temps : s \in ftp_list /\ "LIST" \in ftp[s].flags /\ ftp[s].filename = "temp"

(* A session without an account is in the state of a new connection. *)
ReinIsFresh ==
  \A s \in ftp_list : ftp[s].user = NoUser =>
    ~HasConnection(ftp[s]) /\ ftp[s].start = 0 /\ ftp[s].file = "none"

(* Every open descriptor of a data connection belongs to a session that can
   still close it. *)
NoDescriptorLost == \A f \in fds : \E s \in ftp_list : Holds(s, f)

(* As long as its file stays open, nothing changes a transfer: not its user,
   name, offset, direction or listening socket, nor its data connection once
   there is one. *)
Undisturbed(s) ==
  ftp[s].file # "none" /\ ftp'[s].file # "none" =>
    /\ ftp'[s].user = ftp[s].user /\ ftp'[s].filename = ftp[s].filename
    /\ ftp'[s].start = ftp[s].start /\ ftp'[s].pdata = ftp[s].pdata
    /\ ftp'[s].flags \cap {"SEND", "RECV", "LIST"} = ftp[s].flags \cap {"SEND", "RECV", "LIST"}
    /\ ftp[s].data # NoFd => ftp'[s].data = ftp[s].data
TransferUndisturbed == [][\A s \in Sessions : Undisturbed(s)]_vars

(* Liveness: a session that is to quit (QUIT, the operator's kick, the idle
   timeout) leaves the list. *)
KickedLeaves == \A s \in Sessions : "QUIT" \in ftp[s].flags ~> s \notin ftp_list
========================================================================
