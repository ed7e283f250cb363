-------------------------- MODULE Server_proofs --------------------------
(***************************************************************************)
(* Proofs about the sessions, for every set of sessions, accounts, limits, *)
(* descriptors, commands and faults.                                       *)
(*                                                                         *)
(* What a handler does to a session depends on its own struct only, so the *)
(* invariant is mostly about one struct (StructOK), and one lemma (SetOK)  *)
(* carries it from the struct of a step to all of them.  It says more than *)
(* the properties: a transfer needs a login, and a data connection is      *)
(* flagged as connected from the step that creates it (unless REIN cleared *)
(* the flag), which is why the loop never stops watching it.               *)
(***************************************************************************)
EXTENDS Server, FiniteSetTheorems, TLAPS

StructOK(r) ==
  /\ r \in Ftpdata
  /\ "RECV" \in r.flags \/ r.file # "none" => "ONLINE" \in r.flags
  /\ "USER again" \notin Commands /\ "ONLINE" \in r.flags => r.user \in Accounts
  /\ "REIN" \notin Commands /\ r.data # NoFd => "CONNECTED" \in r.flags
  /\ r.file # "none" => HasConnection(r)

(* The invariant about the list and its structs, and about the rest. *)
ListInv ==
  /\ ftp_list \subseteq Sessions /\ open \in BOOLEAN
  /\ CountMatches
  /\ ftp \in [Sessions -> Ftpdata]
  /\ \A s \in Sessions : StructOK(ftp[s])
  /\ \A s \in Sessions \ ftp_list : ftp[s] = Fresh

RestInv == fds \subseteq Fds /\ temps \subseteq Sessions /\ owed \subseteq Sessions

-----------------------------------------------------------------------------
(* One struct *)

LEMMA FreshOK == StructOK(Fresh)
BY DEF StructOK, Fresh, Ftpdata, NoFd

LEMMA ClearedOK ==
  ASSUME NEW r, StructOK(r)
  PROVE  /\ StructOK(Cleared(r))
         /\ Cleared(r).data = NoFd /\ Cleared(r).pdata = NoFd
BY DEF StructOK, Cleared, Ftpdata, DataFlags, Flags, NoFd

(* free_data() overwrites both descriptors, whatever they were. *)
LEMMA ClearedAnyway ==
  ASSUME NEW r, StructOK(r), NEW d, NEW n
  PROVE  /\ Cleared([r EXCEPT !.data = d]) = Cleared(r)
         /\ Cleared([r EXCEPT !.filename = n]) = Cleared(r)
BY DEF StructOK, Cleared, Ftpdata

LEMMA QuitOK ==
  ASSUME NEW r, StructOK(r)
  PROVE  StructOK([r EXCEPT !.flags = @ \cup {"QUIT"}])
BY DEF StructOK, Ftpdata, Flags, DataFlags, HasConnection

LEMMA ConnectOK ==
  ASSUME NEW r, StructOK(r), NEW f \in Fds
  PROVE  /\ StructOK([r EXCEPT !.data = f, !.flags = @ \cup {"CONNECTED"}])
         /\ StructOK([Cleared(r) EXCEPT !.pdata = f])
<1>0. f # NoFd
  BY ServerAssumption DEF NoFd
<1>1. StructOK([r EXCEPT !.data = f, !.flags = @ \cup {"CONNECTED"}])
  <2> DEFINE q == [r EXCEPT !.data = f, !.flags = @ \cup {"CONNECTED"}]
  <2>1. q \in Ftpdata
    BY DEF StructOK, Ftpdata, Flags, DataFlags
  <2>2. /\ q.data = f /\ q.pdata = r.pdata /\ q.file = r.file /\ q.user = r.user
        /\ q.flags = r.flags \cup {"CONNECTED"}
    BY DEF StructOK, Ftpdata
  <2> HIDE DEF q
  <2>3. /\ "RECV" \in q.flags <=> "RECV" \in r.flags
        /\ "ONLINE" \in q.flags <=> "ONLINE" \in r.flags
        /\ "CONNECTED" \in q.flags
    BY <2>2
  <2>4. StructOK(q)
    BY <1>0, <2>1, <2>2, <2>3 DEF StructOK, HasConnection
  <2> QED  BY <2>4 DEF q
<1>2. StructOK([Cleared(r) EXCEPT !.pdata = f])
  <2> DEFINE c == Cleared(r)
             q == [c EXCEPT !.pdata = f]
  <2>1. StructOK(c) /\ c.data = NoFd /\ c.file = "none"
    BY ClearedOK DEF StructOK, Cleared, Ftpdata
  <2> HIDE DEF c
  <2>2. /\ q \in Ftpdata /\ q.data = NoFd /\ q.file = "none"
        /\ q.flags = c.flags /\ q.user = c.user
    BY <2>1 DEF StructOK, Ftpdata
  <2> HIDE DEF q
  <2>3. StructOK(q)
    BY <2>1, <2>2 DEF StructOK
  <2> QED  BY <2>3 DEF q, c
<1> QED  BY <1>1, <1>2

(* USER, PASS and REIN. *)
LEMMA LoginOK ==
  ASSUME NEW r, StructOK(r)
  PROVE  /\ \A u \in Accounts \cup {Unknown} :
              ("ONLINE" \in r.flags => "USER again" \in Commands)
              => StructOK([r EXCEPT !.user = u])
         /\ r.user \in Accounts => StructOK([r EXCEPT !.flags = @ \cup {"ONLINE"}])
         /\ "ONLINE" \notin r.flags => StructOK([r EXCEPT !.user = NoUser])
         /\ "REIN" \in Commands /\ r.file = "none" =>
              StructOK([r EXCEPT !.user = NoUser, !.filename = "", !.flags = {}])
<1>1. ASSUME NEW u \in Accounts \cup {Unknown},
             "ONLINE" \in r.flags => "USER again" \in Commands
      PROVE  StructOK([r EXCEPT !.user = u])
  BY <1>1 DEF StructOK, Ftpdata, HasConnection
<1>2. ASSUME r.user \in Accounts
      PROVE  StructOK([r EXCEPT !.flags = @ \cup {"ONLINE"}])
  BY <1>2 DEF StructOK, Ftpdata, Flags, HasConnection
<1>3. ASSUME "ONLINE" \notin r.flags
      PROVE  StructOK([r EXCEPT !.user = NoUser])
  BY <1>3 DEF StructOK, Ftpdata, HasConnection
<1>4. ASSUME "REIN" \in Commands, r.file = "none"
      PROVE  StructOK([r EXCEPT !.user = NoUser, !.filename = "", !.flags = {}])
  BY <1>4 DEF StructOK, Ftpdata
<1> QED  BY <1>1, <1>2, <1>3, <1>4

LEMMA FieldsOK ==
  ASSUME NEW r, StructOK(r)
  PROVE  /\ \A n \in {"", "temp", "arg"} : StructOK([r EXCEPT !.filename = n])
         /\ \A n \in {0, 1} : StructOK([r EXCEPT !.start = n])
<1>1. \A n \in {"", "temp", "arg"} : StructOK([r EXCEPT !.filename = n])
  BY DEF StructOK, Ftpdata, HasConnection
<1>2. \A n \in {0, 1} : StructOK([r EXCEPT !.start = n])
  BY DEF StructOK, Ftpdata, HasConnection
<1> QED  BY <1>1, <1>2

(* A transfer command of a logged-in session: the name and the flags that it
   sets before do_file(), and the file that do_file() opens. *)
LEMMA TransferOK ==
  ASSUME NEW r, StructOK(r), "ONLINE" \in r.flags, NEW D \in SUBSET DataFlags,
         NEW name \in {"temp", "arg"}
  PROVE  LET q == [r EXCEPT !.filename = name, !.flags = @ \cup D]
         IN  /\ StructOK(q) /\ "ONLINE" \in q.flags
             /\ q.data = r.data /\ q.pdata = r.pdata
<1> DEFINE q == [r EXCEPT !.filename = name, !.flags = @ \cup D]
<1>1. q \in Ftpdata
  BY DEF StructOK, Ftpdata, Flags
<1>2. /\ q.flags = r.flags \cup D /\ q.user = r.user /\ q.file = r.file
      /\ q.data = r.data /\ q.pdata = r.pdata
  BY DEF StructOK, Ftpdata
<1> HIDE DEF q
<1>3. StructOK(q)
  BY <1>1, <1>2 DEF StructOK, HasConnection
<1>4. "ONLINE" \in q.flags
  BY <1>2
<1> QED  BY <1>2, <1>3, <1>4 DEF q

LEMMA OpenedOK ==
  ASSUME NEW r, StructOK(r), "ONLINE" \in r.flags, HasConnection(r),
         NEW mode \in {"read", "write"}, NEW n \in {0, 1}
  PROVE  StructOK([r EXCEPT !.file = mode, !.start = n])
BY DEF StructOK, Ftpdata, HasConnection

-----------------------------------------------------------------------------
(* From one struct to the list *)

LEMMA SetOK ==
  ASSUME ListInv, NEW s \in ftp_list, NEW q, StructOK(q), Set(s, q), OthersSame
  PROVE  ListInv'
<1>1. ftp' \in [Sessions -> Ftpdata] /\ \A t \in Sessions : StructOK(ftp'[t])
  BY DEF ListInv, Set, StructOK
<1>2. \A t \in Sessions \ ftp_list' : ftp'[t] = Fresh
  BY DEF ListInv, Set, OthersSame
<1> QED  BY <1>1, <1>2 DEF ListInv, OthersSame, CountMatches, StructOK

LEMMA FreeDataOK ==
  ASSUME ListInv, RestInv, NEW s \in ftp_list, NEW r, StructOK(r),
         NEW T \in SUBSET Sessions,
         FreeData(s, r, T), OthersSame, owed' \subseteq owed
  PROVE  ListInv' /\ RestInv'
<1>1. ListInv'
  BY ClearedOK, SetOK DEF FreeData, Set
<1>2. RestInv'
  BY DEF RestInv, FreeData, Closed, DeleteListing
<1> QED  BY <1>1, <1>2

LEMMA OnlyStructOK ==
  ASSUME ListInv, RestInv, NEW s \in ftp_list, NEW q, StructOK(q), Set(s, q), OnlyStruct
  PROVE  ListInv' /\ RestInv'
<1>1. ListInv'
  BY SetOK DEF OnlyStruct
<1> QED  BY <1>1 DEF OnlyStruct, RestInv

LEMMA DoFileOK ==
  ASSUME ListInv, RestInv, NEW s \in ftp_list,
         "ONLINE" \in ftp[s].flags,
         NEW D \in SUBSET DataFlags, NEW name \in {"temp", "arg"},
         NEW mode \in {"read", "write"}, NEW append \in BOOLEAN,
         NEW T \in SUBSET Sessions,
         DoFile(s, [ftp[s] EXCEPT !.filename = name, !.flags = @ \cup D], mode, append, T),
         OthersSame
  PROVE  ListInv' /\ RestInv'
<1> DEFINE q == [ftp[s] EXCEPT !.filename = name, !.flags = @ \cup D]
<1>1. StructOK(ftp[s]) /\ s \in Sessions
  BY DEF ListInv
<1>2. StructOK(q) /\ "ONLINE" \in q.flags
  BY <1>1, TransferOK
<1>3. q.start \in {0, 1}
  BY <1>2 DEF StructOK, Ftpdata
<1>4. DoFile(s, q, mode, append, T)
  OBVIOUS
<1> HIDE DEF q
<1>5. CASE FreeData(s, q, T) /\ Silently
  BY <1>2, <1>5, FreeDataOK DEF Silently
<1>6. CASE Set(s, q) /\ temps' = T /\ UNCHANGED <<fds, owed>>
  BY <1>2, <1>6, SetOK DEF RestInv
<1>7. CASE /\ HasConnection(q)
           /\ \E n \in {0, 1} : Set(s, [q EXCEPT !.file = mode, !.start = n])
           /\ owed' = owed \cup {s} /\ temps' = T /\ UNCHANGED fds
  <2>1. PICK n \in {0, 1} : Set(s, [q EXCEPT !.file = mode, !.start = n])
    BY <1>7
  <2>2. ListInv'
    BY <2>1, <1>2, <1>7, OpenedOK, SetOK
  <2> QED  BY <2>2, <1>1, <1>7 DEF RestInv
<1> QED  BY <1>3, <1>4, <1>5, <1>6, <1>7 DEF DoFile

LEMMA InitInv == Init => ListInv /\ RestInv
<1> SUFFICES ASSUME Init PROVE ListInv /\ RestInv
  OBVIOUS
<1>1. open \in BOOLEAN
  BY Zenon DEF Init
<1>2. Cardinality({}) = 0
  BY FS_EmptySet
<1>3. Fresh \in Ftpdata
  BY FreshOK DEF StructOK
<1> QED
  BY <1>1, <1>2, <1>3, FreshOK, ServerAssumption DEF Init, ListInv, RestInv, CountMatches

(* The steps that change the list. *)
LEMMA ListStepOK ==
  ASSUME ListInv, RestInv, NEW s \in Sessions, NewFtp(s) \/ FreeFtp(s)
  PROVE  ListInv' /\ RestInv'
<1>1. IsFiniteSet(ftp_list) /\ Cardinality(ftp_list) \in Nat
  BY ServerAssumption, FS_Subset, FS_CardinalityType DEF ListInv
<1>2. CASE NewFtp(s)
  <2>1. Cardinality(ftp_list') = Cardinality(ftp_list) + 1
    BY <1>1, <1>2, FS_AddElement DEF NewFtp
  <2>2. CountMatches'
    BY <2>1, <1>1, <1>2, ServerAssumption DEF NewFtp, ListInv, CountMatches
  <2> QED  BY <2>2, <1>2 DEF NewFtp, ListInv, RestInv, StructOK
<1>3. CASE FreeFtp(s)
  <2>1. Cardinality(ftp_list') = Cardinality(ftp_list) - 1
    BY <1>1, <1>3, FS_RemoveElement DEF FreeFtp
  <2>2. CountMatches'
    BY <2>1, <1>1, <1>3, ServerAssumption DEF FreeFtp, ListInv, CountMatches
  <2>3. /\ ftp' \in [Sessions -> Ftpdata]
        /\ \A t \in Sessions : StructOK(ftp'[t])
        /\ \A t \in Sessions \ ftp_list' : ftp'[t] = Fresh
    BY <1>3, FreshOK DEF FreeFtp, ListInv, StructOK
  <2>4. RestInv'
    BY <1>3 DEF FreeFtp, RestInv, Closed, DeleteListing
  <2> QED  BY <2>2, <2>3, <2>4, <1>3 DEF FreeFtp, ListInv
<1> QED  BY <1>2, <1>3

LEMMA LoginStepOK ==
  ASSUME ListInv, RestInv, NEW s \in Sessions, LoginStep(s)
  PROVE  ListInv' /\ RestInv'
<1> DEFINE r == ftp[s]
<1>1. StructOK(r)
  BY DEF ListInv
<1>2. CASE NewFtp(s)
  BY <1>2, ListStepOK
<1>3. CASE User(s)
  <2>1. s \in ftp_list /\ ("ONLINE" \in r.flags => "USER again" \in Commands)
    BY <1>3 DEF User, MayRun
  <2>2. PICK u \in Accounts \cup {Unknown} : Set(s, [r EXCEPT !.user = u])
    BY <1>3 DEF User
  <2>3. StructOK([r EXCEPT !.user = u])
    BY <1>1, <2>1, LoginOK
  <2> QED  BY <2>1, <2>2, <2>3, <1>3, OnlyStructOK DEF User
<1>4. CASE PassAccepted(s)
  <2>1. r.user \in Accounts
    BY <1>4 DEF PassAccepted, Accounts
  <2>2. StructOK([r EXCEPT !.flags = @ \cup {"ONLINE"}])
    BY <1>1, <2>1, LoginOK
  <2> QED  BY <2>2, <1>4, OnlyStructOK DEF PassAccepted, MayRun
<1>5. CASE PassRejected(s)
  <2>1. StructOK([r EXCEPT !.user = NoUser])
    BY <1>1, <1>5, LoginOK DEF PassRejected
  <2> QED  BY <2>1, <1>5, OnlyStructOK DEF PassRejected, MayRun
<1>6. CASE Rein(s)
  <2>1. "REIN" \in Commands /\ r.file = "none" /\ s \in ftp_list
    BY <1>6 DEF Rein, MayRun
  <2>2. StructOK([r EXCEPT !.user = NoUser, !.filename = "", !.flags = {}])
    BY <1>1, <2>1, LoginOK
  <2> QED  BY <2>1, <2>2, <1>6, OnlyStructOK DEF Rein
<1>7. CASE Quit(s)
  BY <1>1, <1>7, QuitOK, OnlyStructOK DEF Quit, MayRun
<1> QED  BY <1>2, <1>3, <1>4, <1>5, <1>6, <1>7 DEF LoginStep

LEMMA TransferCommandOK ==
  ASSUME ListInv, RestInv, NEW s \in Sessions, TransferCommand(s)
  PROVE  ListInv' /\ RestInv'
<1> DEFINE r == ftp[s]
<1>1. StructOK(r)
  BY DEF ListInv
<1>2. s \in ftp_list /\ OthersSame
  BY DEF TransferCommand, Port, PortFails, Pasv, Rest, Rnfr, Cwd, List, Retr, Stor,
         Appe, Abor, MayRun, OnlyStruct
<1>3. temps \in SUBSET Sessions /\ temps \cup {s} \in SUBSET Sessions
  BY DEF RestInv
<1>4. CASE Port(s)
  <2>1. PICK f \in Fds : /\ Set(s, [r EXCEPT !.data = f, !.flags = @ \cup {"CONNECTED"}])
                         /\ fds' = fds \cup {f}
    BY <1>4 DEF Port
  <2>2. ListInv'
    BY <1>1, <1>2, <2>1, ConnectOK, SetOK
  <2> QED  BY <2>1, <2>2, <1>4 DEF Port, RestInv
<1>5. CASE PortFails(s)
  <2>1. FreeData(s, [r EXCEPT !.data = NoFd], temps)
    BY <1>5 DEF PortFails
  <2>2. Set(s, Cleared(r))
    BY <1>1, <2>1, ClearedAnyway DEF FreeData, Set
  <2>3. ListInv'
    BY <1>1, <1>2, <2>2, ClearedOK, SetOK
  <2> QED  BY <2>1, <2>3, <1>5 DEF PortFails, FreeData, Closed, DeleteListing, RestInv, Silently
<1>6. CASE Pasv(s)
  <2>1. CASE FreeData(s, r, temps)
    BY <1>1, <1>2, <1>3, <1>6, <2>1, FreeDataOK DEF Pasv, Silently
  <2>2. CASE \E f \in Fds : /\ Set(s, [Cleared(r) EXCEPT !.pdata = f])
                            /\ fds' = Closed(r) \cup {f}
                            /\ temps' = DeleteListing(s, r, temps)
    <3>1. PICK f \in Fds : /\ Set(s, [Cleared(r) EXCEPT !.pdata = f])
                           /\ fds' = Closed(r) \cup {f}
                           /\ temps' = DeleteListing(s, r, temps)
      BY <2>2
    <3>2. ListInv'
      BY <1>1, <1>2, <3>1, ConnectOK, SetOK
    <3> QED  BY <3>1, <3>2, <1>6 DEF Pasv, Silently, Closed, DeleteListing, RestInv
  <2> QED  BY <1>6, <2>1, <2>2 DEF Pasv
<1>7. CASE Rest(s)
  <2>1. PICK n \in {0, 1} : Set(s, [r EXCEPT !.start = n])
    BY <1>7 DEF Rest
  <2> QED  BY <2>1, <1>1, <1>2, <1>7, FieldsOK, OnlyStructOK DEF Rest
<1>8. CASE Rnfr(s)
  BY <1>1, <1>2, <1>8, FieldsOK, OnlyStructOK DEF Rnfr
<1>9. CASE Cwd(s)
  BY <1>1, <1>2, <1>9, FieldsOK, OnlyStructOK DEF Cwd
<1>10. CASE List(s)
  <2>1. CASE FreeData(s, r, temps) /\ Silently
    BY <1>1, <1>2, <1>3, <2>1, FreeDataOK DEF Silently
  <2>2. CASE FreeData(s, [r EXCEPT !.filename = "temp"], temps) /\ Silently
    BY <1>1, <1>2, <1>3, <2>2, FieldsOK, FreeDataOK DEF Silently
  <2>3. CASE /\ FreeData(s, [r EXCEPT !.flags = @ \ {"LIST"}], temps \cup {s})
             /\ Silently
    <3>1. StructOK([r EXCEPT !.flags = @ \ {"LIST"}])
      BY <1>1 DEF StructOK, Ftpdata, HasConnection
    <3> QED  BY <1>2, <1>3, <2>3, <3>1, FreeDataOK DEF Silently
  <2>4. CASE DoFile(s, [r EXCEPT !.filename = "temp", !.flags = @ \cup {"LIST", "SEND"}],
                    "read", FALSE, temps \cup {s})
    <3>1. "ONLINE" \in r.flags
      BY <1>10 DEF List, MayRun
    <3>2. {"LIST", "SEND"} \in SUBSET DataFlags /\ FALSE \in BOOLEAN
      BY DEF DataFlags
    <3> QED  BY <1>2, <1>3, <2>4, <3>1, <3>2, DoFileOK
  <2> QED  BY <1>10, <2>1, <2>2, <2>3, <2>4 DEF List
<1>11. CASE Retr(s)
  <2>1. "ONLINE" \in r.flags /\ {"SEND"} \in SUBSET DataFlags /\ FALSE \in BOOLEAN
    BY <1>11 DEF Retr, MayRun, DataFlags
  <2> QED  BY <1>2, <1>3, <1>11, <2>1, DoFileOK DEF Retr
<1>12. CASE Stor(s)
  <2>1. "ONLINE" \in r.flags /\ {"RECV"} \in SUBSET DataFlags
    BY <1>12 DEF Stor, MayRun, DataFlags
  <2>2. (r.start # 0) \in BOOLEAN
    OBVIOUS
  <2> QED  BY <1>2, <1>3, <1>12, <2>1, <2>2, DoFileOK DEF Stor
<1>13. CASE Appe(s)
  <2>1. "ONLINE" \in r.flags /\ {"RECV"} \in SUBSET DataFlags /\ TRUE \in BOOLEAN
    BY <1>13 DEF Appe, MayRun, DataFlags
  <2> QED  BY <1>2, <1>3, <1>13, <2>1, DoFileOK DEF Appe
<1>14. CASE Abor(s)
  <2>1. FreeData(s, r, temps) /\ owed' \subseteq owed
    BY <1>14 DEF Abor, Completes
  <2> QED  BY <1>1, <1>2, <1>3, <2>1, FreeDataOK
<1> QED
  BY <1>4, <1>5, <1>6, <1>7, <1>8, <1>9, <1>10, <1>11, <1>12, <1>13, <1>14
  DEF TransferCommand

LEMMA DataEventOK ==
  ASSUME ListInv, RestInv, NEW s \in Sessions, DataEvent(s)
  PROVE  ListInv' /\ RestInv'
<1> DEFINE r == ftp[s]
<1>1. StructOK(r)
  BY DEF ListInv
<1>2. s \in ftp_list /\ OthersSame
  BY DEF DataEvent, AcceptData, AcceptFails, RecvEnds, RecvWriteFails, SendEnds,
         DataException
<1>3. CASE AcceptData(s)
  <2>1. PICK f \in Fds : /\ Set(s, [r EXCEPT !.data = f, !.flags = @ \cup {"CONNECTED"}])
                         /\ fds' = fds \cup {f}
    BY <1>3 DEF AcceptData
  <2>2. ListInv'
    BY <1>1, <1>2, <2>1, ConnectOK, SetOK
  <2> QED  BY <2>1, <2>2, <1>3 DEF AcceptData, RestInv
<1>4. CASE ~AcceptData(s)
  <2>1. FreeData(s, r, temps) /\ owed' \subseteq owed
    BY <1>4 DEF DataEvent, AcceptFails, RecvEnds, RecvWriteFails, SendEnds,
                DataException, Completes, Silently
  <2>2. temps \in SUBSET Sessions
    BY DEF RestInv
  <2> QED  BY <1>1, <1>2, <2>1, <2>2, FreeDataOK
<1> QED  BY <1>3, <1>4

LEMMA ControlEventOK ==
  ASSUME ListInv, RestInv, NEW s \in Sessions, ControlEvent(s)
  PROVE  ListInv' /\ RestInv'
<1>1. StructOK(ftp[s])
  BY DEF ListInv
<1>2. CASE Kick(s) \/ Timeout(s)
  BY <1>1, <1>2, QuitOK, OnlyStructOK DEF Kick, Timeout
<1>3. CASE Abort(s)
  <2>1. FreeData(s, ftp[s], temps) /\ owed' \subseteq owed /\ temps \in SUBSET Sessions
    BY <1>3 DEF Abort, Completes, RestInv
  <2> QED  BY <1>1, <1>3, <2>1, FreeDataOK DEF Abort
<1>4. CASE WriteGoodbye(s) \/ Hangup(s)
  BY <1>4, ListStepOK DEF WriteGoodbye, Hangup
<1> QED  BY <1>2, <1>3, <1>4 DEF ControlEvent

LEMMA NextInv == ListInv /\ RestInv /\ [Next]_vars => ListInv' /\ RestInv'
<1> SUFFICES ASSUME ListInv, RestInv, [Next]_vars PROVE ListInv' /\ RestInv'
  OBVIOUS
<1>1. CASE OpenClose
  <2>1. open' \in BOOLEAN
    BY <1>1, Zenon DEF OpenClose
  <2> QED  BY <1>1, <2>1 DEF OpenClose, ListInv, RestInv, CountMatches, StructOK
<1>2. CASE \E s \in Sessions :
             LoginStep(s) \/ TransferCommand(s) \/ DataEvent(s) \/ ControlEvent(s)
  BY <1>2, LoginStepOK, TransferCommandOK, DataEventOK, ControlEventOK
<1>3. CASE UNCHANGED vars
  BY <1>3 DEF vars, ListInv, RestInv, CountMatches, StructOK
<1> QED  BY <1>1, <1>2, <1>3 DEF Next

LEMMA Invariance == Spec => [](ListInv /\ RestInv)
BY InitInv, NextInv, PTL DEF Spec

-----------------------------------------------------------------------------
(* The descriptors *)

(* A step that gives session s the struct q. *)
LEMMA HoldOK ==
  ASSUME ListInv, DescriptorsOwned, NEW s \in Sessions, NEW q, Set(s, q),
         q.data \in Fds \cup {NoFd}, q.pdata \in Fds \cup {NoFd},
         \A t \in Sessions \ {s} : \A f \in Fds :
           Holds(t, f) => f \in fds' /\ f # q.data /\ f # q.pdata,
         q.data # NoFd => q.data \in fds' /\ q.data # q.pdata,
         q.pdata # NoFd => q.pdata \in fds'
  PROVE  DescriptorsOwned'
<1>1. ftp'[s] = q /\ \A t \in Sessions \ {s} : ftp'[t] = ftp[t]
  BY DEF ListInv, Set
<1>2. \A t \in Sessions \ {s} : \A f \in Fds : Holds(t, f)' <=> Holds(t, f)
  BY <1>1 DEF Holds
<1>3. \A f \in Fds : Holds(s, f)' <=> f # NoFd /\ (q.data = f \/ q.pdata = f)
  BY <1>1 DEF Holds
<1>4. ASSUME NEW t \in Sessions, NEW f \in Fds, Holds(t, f)'
      PROVE  f \in fds' /\ \A u \in Sessions : Holds(u, f)' => u = t
  <2>1. CASE t = s
    BY <2>1, <1>2, <1>3, <1>4
  <2>2. CASE t # s
    BY <2>2, <1>2, <1>3, <1>4 DEF DescriptorsOwned
  <2> QED  BY <2>1, <2>2
<1>5. \A t \in Sessions : ftp'[t].data # NoFd => ftp'[t].data # ftp'[t].pdata
  BY <1>1 DEF DescriptorsOwned
<1> QED  BY <1>4, <1>5 DEF DescriptorsOwned

(* What the struct of s says, and what the others may hold. *)
LEMMA HeldNow ==
  ASSUME ListInv, DescriptorsOwned, NEW s \in Sessions
  PROVE  /\ ftp[s].data \in Fds \cup {NoFd} /\ ftp[s].pdata \in Fds \cup {NoFd}
         /\ NoFd \notin Fds
         /\ \A t \in Sessions \ {s} : \A f \in Fds :
              Holds(t, f) => f \in fds /\ f # ftp[s].data /\ f # ftp[s].pdata
         /\ ftp[s].data # NoFd => ftp[s].data \in fds /\ ftp[s].data # ftp[s].pdata
         /\ ftp[s].pdata # NoFd => ftp[s].pdata \in fds
<1>1. /\ ftp[s].data \in Fds \cup {NoFd} /\ ftp[s].pdata \in Fds \cup {NoFd}
      /\ NoFd \notin Fds
  <2>1. ftp[s] \in Ftpdata
    BY DEF ListInv
  <2>2. NoFd \notin Fds
    BY ServerAssumption DEF NoFd
  <2> QED  BY <2>1, <2>2 DEF Ftpdata
<1>2. \A f \in Fds : f = ftp[s].data \/ f = ftp[s].pdata => Holds(s, f)
  BY <1>1 DEF Holds
<1> QED  BY <1>1, <1>2 DEF DescriptorsOwned

LEMMA SameHeld ==
  ASSUME ListInv, DescriptorsOwned, NEW s \in Sessions, NEW q, Set(s, q),
         q.data = ftp[s].data, q.pdata = ftp[s].pdata, fds' = fds
  PROVE  DescriptorsOwned'
BY HeldNow, HoldOK

LEMMA FreedHeld ==
  ASSUME ListInv, DescriptorsOwned, NEW s \in Sessions, NEW r, StructOK(r),
         NEW T, FreeData(s, r, T),
         r.data \in {ftp[s].data, NoFd}, r.pdata = ftp[s].pdata
  PROVE  DescriptorsOwned'
<1> DEFINE q == Cleared(r)
<1>1. q.data = NoFd /\ q.pdata = NoFd /\ Set(s, q)
  BY ClearedOK DEF FreeData, Set
<1> HIDE DEF q
<1>2. fds' = fds \ {r.data, r.pdata}
  BY DEF FreeData, Closed
<1> QED  BY <1>1, <1>2, HeldNow, HoldOK

LEMMA ConnectHeld ==
  ASSUME ListInv, DescriptorsOwned, NEW s \in Sessions, NEW f \in Fds \ fds,
         Set(s, [ftp[s] EXCEPT !.data = f, !.flags = @ \cup {"CONNECTED"}]),
         fds' = fds \cup {f}
  PROVE  DescriptorsOwned'
<1> DEFINE q == [ftp[s] EXCEPT !.data = f, !.flags = @ \cup {"CONNECTED"}]
<1>1. q.data = f /\ q.pdata = ftp[s].pdata /\ Set(s, q)
  BY DEF ListInv, StructOK, Ftpdata
<1> HIDE DEF q
<1> QED  BY <1>1, HeldNow, HoldOK

LEMMA DoFileHeld ==
  ASSUME ListInv, DescriptorsOwned, NEW s \in Sessions,
         "ONLINE" \in ftp[s].flags, NEW D \in SUBSET DataFlags,
         NEW name \in {"temp", "arg"}, NEW mode, NEW append, NEW T,
         DoFile(s, [ftp[s] EXCEPT !.filename = name, !.flags = @ \cup D], mode, append, T)
  PROVE  DescriptorsOwned'
<1> DEFINE q == [ftp[s] EXCEPT !.filename = name, !.flags = @ \cup D]
<1>1. StructOK(q) /\ q.data = ftp[s].data /\ q.pdata = ftp[s].pdata
  <2>1. StructOK(ftp[s])
    BY DEF ListInv
  <2>2. StructOK(q)
    BY <2>1, TransferOK
  <2>3. q.data = ftp[s].data /\ q.pdata = ftp[s].pdata
    BY <2>1 DEF StructOK, Ftpdata
  <2> QED  BY <2>2, <2>3
<1>2. DoFile(s, q, mode, append, T)
  OBVIOUS
<1> HIDE DEF q
<1>3. CASE FreeData(s, q, T)
  BY <1>1, <1>3, FreedHeld
<1>4. CASE Set(s, q) /\ fds' = fds
  BY <1>1, <1>4, SameHeld
<1>5. CASE fds' = fds /\ \E n : Set(s, [q EXCEPT !.file = mode, !.start = n])
  <2>1. PICK n : Set(s, [q EXCEPT !.file = mode, !.start = n])
    BY <1>5
  <2>2. /\ [q EXCEPT !.file = mode, !.start = n].data = ftp[s].data
        /\ [q EXCEPT !.file = mode, !.start = n].pdata = ftp[s].pdata
    BY <1>1 DEF StructOK, Ftpdata
  <2> QED  BY <2>1, <2>2, <1>5, SameHeld
<1> QED  BY <1>2, <1>3, <1>4, <1>5 DEF DoFile

LEMMA DescriptorsStep ==
  ASSUME ListInv, DescriptorsOwned, [Next]_vars
  PROVE  DescriptorsOwned'
<1>1. CASE ftp' = ftp /\ fds' = fds
  BY <1>1 DEF DescriptorsOwned, Holds
<1>2. ASSUME NEW s \in Sessions, LoginStep(s) \/ Kick(s) \/ Timeout(s)
      PROVE  DescriptorsOwned'
  <2> DEFINE r == ftp[s]
  <2>1. r \in Ftpdata
    BY DEF ListInv
  <2>2. CASE NewFtp(s)
    BY <2>2, <1>1 DEF NewFtp
  <2>3. CASE User(s)
    <3>1. PICK u : Set(s, [r EXCEPT !.user = u])
      BY <2>3 DEF User
    <3>2. [r EXCEPT !.user = u].data = r.data /\ [r EXCEPT !.user = u].pdata = r.pdata
      BY <2>1 DEF Ftpdata
    <3> QED  BY <3>1, <3>2, <2>3, SameHeld DEF User, OnlyStruct
  <2>4. ASSUME ~NewFtp(s), ~User(s) PROVE DescriptorsOwned'
    <3>1. \/ Set(s, [r EXCEPT !.flags = @ \cup {"ONLINE"}])
          \/ Set(s, [r EXCEPT !.flags = @ \cup {"QUIT"}])
          \/ Set(s, [r EXCEPT !.user = NoUser])
          \/ Set(s, [r EXCEPT !.user = NoUser, !.filename = "", !.flags = {}])
      BY <1>2, <2>4 DEF LoginStep, PassAccepted, PassRejected, Rein, Quit, Kick, Timeout
    <3>2. fds' = fds
      BY <1>2, <2>4 DEF LoginStep, PassAccepted, PassRejected, Rein, Quit, Kick,
                        Timeout, OnlyStruct
    <3>3. \A q \in {[r EXCEPT !.flags = @ \cup {"ONLINE"}],
                   [r EXCEPT !.flags = @ \cup {"QUIT"}],
                   [r EXCEPT !.user = NoUser],
                   [r EXCEPT !.user = NoUser, !.filename = "", !.flags = {}]} :
            q.data = r.data /\ q.pdata = r.pdata
      BY <2>1 DEF Ftpdata
    <3> QED  BY <3>1, <3>2, <3>3, SameHeld
  <2> QED  BY <2>2, <2>3, <2>4
<1>3. ASSUME NEW s \in Sessions, TransferCommand(s)
      PROVE  DescriptorsOwned'
  <2> DEFINE r == ftp[s]
  <2>1. StructOK(r) /\ r \in Ftpdata
    BY DEF ListInv, StructOK
  <2>2. CASE Port(s)
    BY <2>2, ConnectHeld DEF Port
  <2>3. CASE PortFails(s)
    <3> DEFINE q == [r EXCEPT !.data = NoFd]
    <3>1. q.data = NoFd /\ q.pdata = r.pdata /\ StructOK(q)
      <4>1. r.file = "none"
        BY <2>3 DEF PortFails, MayRun
      <4> QED  BY <2>1, <4>1 DEF StructOK, Ftpdata
    <3>2. FreeData(s, q, temps)
      BY <2>3 DEF PortFails
    <3> HIDE DEF q
    <3> QED  BY <3>1, <3>2, FreedHeld
  <2>4. CASE Pasv(s)
    <3>1. CASE FreeData(s, r, temps)
      BY <2>1, <3>1, FreedHeld
    <3>2. CASE \E f \in Fds \ Closed(r) : /\ Set(s, [Cleared(r) EXCEPT !.pdata = f])
                                          /\ fds' = Closed(r) \cup {f}
      <4>1. PICK f \in Fds \ Closed(r) : /\ Set(s, [Cleared(r) EXCEPT !.pdata = f])
                                         /\ fds' = Closed(r) \cup {f}
        BY <3>2
      <4> DEFINE q == [Cleared(r) EXCEPT !.pdata = f]
      <4>2. q.data = NoFd /\ q.pdata = f
        BY <2>1 DEF Cleared, Ftpdata
      <4>3. Set(s, q)
        BY <4>1
      <4> HIDE DEF q
      <4>4. f \notin fds \/ f = r.data \/ f = r.pdata
        BY <4>1 DEF Closed
      <4>5. \A t \in Sessions \ {s} : \A g \in Fds : Holds(t, g) => g \in fds' /\ g # f
        BY <4>1, <4>4, HeldNow DEF Closed
      <4> QED  BY <4>1, <4>2, <4>3, <4>5, HeldNow, HoldOK
    <3> QED  BY <2>4, <3>1, <3>2 DEF Pasv
  <2>5. CASE Rest(s) \/ Rnfr(s) \/ Cwd(s)
    <3>1. PICK n, m : Set(s, [r EXCEPT !.filename = n]) \/ Set(s, [r EXCEPT !.start = m])
      BY <2>5 DEF Rest, Rnfr, Cwd
    <3>2. fds' = fds
      BY <2>5 DEF Rest, Rnfr, Cwd, OnlyStruct
    <3>3. /\ [r EXCEPT !.filename = n].data = r.data /\ [r EXCEPT !.start = m].data = r.data
          /\ [r EXCEPT !.filename = n].pdata = r.pdata /\ [r EXCEPT !.start = m].pdata = r.pdata
      BY <2>1 DEF Ftpdata
    <3> QED  BY <3>1, <3>2, <3>3, SameHeld
  <2>6. CASE List(s)
    <3>1. ASSUME NEW q, NEW T, FreeData(s, q, T), StructOK(q),
                 q.data = r.data, q.pdata = r.pdata
          PROVE  DescriptorsOwned'
      BY <3>1, FreedHeld
    <3>2. /\ StructOK([r EXCEPT !.filename = "temp"])
          /\ [r EXCEPT !.filename = "temp"].data = r.data
          /\ [r EXCEPT !.filename = "temp"].pdata = r.pdata
      BY <2>1, FieldsOK DEF Ftpdata
    <3>3. /\ StructOK([r EXCEPT !.flags = @ \ {"LIST"}])
          /\ [r EXCEPT !.flags = @ \ {"LIST"}].data = r.data
          /\ [r EXCEPT !.flags = @ \ {"LIST"}].pdata = r.pdata
      BY <2>1 DEF StructOK, Ftpdata, HasConnection
    <3>4. "ONLINE" \in r.flags /\ {"LIST", "SEND"} \in SUBSET DataFlags
      BY <2>6 DEF List, MayRun, DataFlags
    <3>5. CASE DoFile(s, [r EXCEPT !.filename = "temp", !.flags = @ \cup {"LIST", "SEND"}],
                      "read", FALSE, temps \cup {s})
      BY <3>4, <3>5, DoFileHeld
    <3> QED  BY <2>1, <2>6, <3>1, <3>2, <3>3, <3>5 DEF List
  <2>7. CASE Retr(s)
    <3>1. "ONLINE" \in r.flags /\ {"SEND"} \in SUBSET DataFlags
      BY <2>7 DEF Retr, MayRun, DataFlags
    <3> QED  BY <2>7, <3>1, DoFileHeld DEF Retr
  <2>8. CASE Stor(s) \/ Appe(s)
    <3>1. "ONLINE" \in r.flags /\ {"RECV"} \in SUBSET DataFlags
      BY <2>8 DEF Stor, Appe, MayRun, DataFlags
    <3> QED  BY <2>8, <3>1, DoFileHeld DEF Stor, Appe
  <2>9. CASE Abor(s)
    BY <2>1, <2>9, FreedHeld DEF Abor
  <2> QED  BY <1>3, <2>2, <2>3, <2>4, <2>5, <2>6, <2>7, <2>8, <2>9 DEF TransferCommand
<1>4. ASSUME NEW s \in Sessions, DataEvent(s) \/ Abort(s)
      PROVE  DescriptorsOwned'
  <2>1. StructOK(ftp[s])
    BY DEF ListInv
  <2>2. CASE AcceptData(s)
    BY <2>2, ConnectHeld DEF AcceptData
  <2>3. CASE ~AcceptData(s)
    <3>1. FreeData(s, ftp[s], temps)
      BY <1>4, <2>3 DEF DataEvent, AcceptFails, RecvEnds, RecvWriteFails, SendEnds,
                        DataException, Abort
    <3> QED  BY <2>1, <3>1, FreedHeld
  <2> QED  BY <2>2, <2>3
<1>5. ASSUME NEW s \in Sessions, FreeFtp(s)
      PROVE  DescriptorsOwned'
  <2>1. Set(s, Fresh) /\ fds' = fds \ {ftp[s].data, ftp[s].pdata}
    BY <1>5 DEF FreeFtp, Set, Closed
  <2>2. Fresh.data = NoFd /\ Fresh.pdata = NoFd
    BY DEF Fresh
  <2> QED  BY <2>1, <2>2, HeldNow, HoldOK
<1>6. CASE OpenClose \/ UNCHANGED vars
  BY <1>1, <1>6 DEF OpenClose, vars
<1> QED
  BY <1>2, <1>3, <1>4, <1>5, <1>6 DEF Next, ControlEvent, WriteGoodbye, Hangup

-----------------------------------------------------------------------------
(* What a reader should know of *)

(* The variables keep their types, and nothing writes to a struct that is off
   the list. *)
THEOREM TypeCorrect == Spec => []TypeOK
<1>1. ListInv /\ RestInv => TypeOK
  <2> SUFFICES ASSUME ListInv, RestInv PROVE TypeOK
    OBVIOUS
  <2>1. IsFiniteSet(ftp_list) /\ Cardinality(ftp_list) \in Nat
    BY ServerAssumption, FS_Subset, FS_CardinalityType DEF ListInv
  <2> QED  BY <2>1 DEF ListInv, RestInv, CountMatches, TypeOK
<1> QED  BY <1>1, Invariance, PTL

(* The count of sessions is right and the "connections" limit is kept. *)
THEOREM SessionsAreCounted == Spec => []CountMatches
<1>1. ListInv /\ RestInv => CountMatches
  BY DEF ListInv
<1> QED  BY <1>1, Invariance, PTL

(* If no session gives USER after its login, every session that is logged in,
   transfers or has FLAG_RECV set has an account. *)
THEOREM AccountsArePresent ==
  ASSUME "USER again" \notin Commands
  PROVE  Spec => []AccountPresent
<1>1. ListInv /\ RestInv => AccountPresent
  BY DEF ListInv, StructOK, AccountPresent
<1> QED  BY <1>1, Invariance, PTL

(* If no session gives REIN, every open file has a socket that the loop
   watches for it, whatever fails. *)
THEOREM TransfersAreWatched ==
  ASSUME "REIN" \notin Commands
  PROVE  Spec => []TransferWatched
<1>1. ListInv /\ RestInv => TransferWatched
  BY DEF ListInv, StructOK, TransferWatched, Watched, Listening, HasConnection
<1> QED  BY <1>1, Invariance, PTL

(* No two sessions hold the same descriptor, and every descriptor held is
   open: for any number of descriptors, down to none. *)
THEOREM DescriptorsAreOwned == Spec => []DescriptorsOwned
<1>1. Init => DescriptorsOwned
  <2> SUFFICES ASSUME Init PROVE DescriptorsOwned
    OBVIOUS
  <2>1. \A s \in Sessions : ftp[s].data = NoFd /\ ftp[s].pdata = NoFd
    BY DEF Init, Fresh
  <2> QED  BY <2>1 DEF DescriptorsOwned, Holds
<1>2. ListInv /\ DescriptorsOwned /\ [Next]_vars => DescriptorsOwned'
  BY DescriptorsStep
<1>3. Spec => []ListInv
  BY Invariance, PTL
<1> QED  BY <1>1, <1>2, <1>3, PTL DEF Spec

-----------------------------------------------------------------------------
(***************************************************************************)
(* The limit on the sessions of an account, for every number of sessions,  *)
(* accounts and addresses.  PASS is the only step that logs a session in,  *)
(* and it counts more than the sessions that are logged in: every session  *)
(* that gave the name.  Every other step leaves at most the logins that    *)
(* there were (NoNewLogin), as long as nobody who is logged in gives       *)
(* another name: USER does not ask for the password again.                 *)
(***************************************************************************)

(* The struct q that s gets is logged in only if s was, as the same user. *)
Keeps(s, q) ==
  "ONLINE" \in q.flags => "ONLINE" \in ftp[s].flags /\ q.user = ftp[s].user

NoNewLogin(s) ==
  /\ ftp_list' \subseteq ftp_list
  /\ \E q : Set(s, q) /\ Keeps(s, q)

LEMMA FreedKeeps ==
  ASSUME NEW s \in Sessions, NEW r \in Ftpdata, NEW T, Keeps(s, r),
         FreeData(s, r, T), OthersSame
  PROVE  NoNewLogin(s)
<1> DEFINE q == Cleared(r)
<1>1. q.flags \subseteq r.flags /\ q.user = r.user
  BY DEF Cleared, Ftpdata
<1>2. Set(s, q)
  BY DEF FreeData, Set
<1> HIDE DEF q
<1> QED  BY <1>1, <1>2 DEF NoNewLogin, Keeps, OthersSame

(* Flags other than FLAG_ONLINE, and fields other than the user. *)
LEMMA FlagKeeps ==
  ASSUME NEW s \in Sessions, ftp[s] \in Ftpdata
  PROVE  /\ \A D \in SUBSET (Flags \ {"ONLINE"}) : Keeps(s, [ftp[s] EXCEPT !.flags = @ \cup D])
         /\ \A D \in SUBSET Flags : Keeps(s, [ftp[s] EXCEPT !.flags = @ \ D])
         /\ \A n : Keeps(s, [ftp[s] EXCEPT !.filename = n])
         /\ \A n : Keeps(s, [ftp[s] EXCEPT !.start = n])
         /\ \A f : Keeps(s, [ftp[s] EXCEPT !.data = f])
         /\ \A f : Keeps(s, [ftp[s] EXCEPT !.data = f, !.flags = @ \cup {"CONNECTED"}])
<1>1. \A D \in SUBSET (Flags \ {"ONLINE"}) : Keeps(s, [ftp[s] EXCEPT !.flags = @ \cup D])
  BY DEF Keeps, Ftpdata
<1>2. \A D \in SUBSET Flags : Keeps(s, [ftp[s] EXCEPT !.flags = @ \ D])
  BY DEF Keeps, Ftpdata
<1>3. /\ \A n : Keeps(s, [ftp[s] EXCEPT !.filename = n])
      /\ \A n : Keeps(s, [ftp[s] EXCEPT !.start = n])
      /\ \A f : Keeps(s, [ftp[s] EXCEPT !.data = f])
  BY DEF Keeps, Ftpdata
<1>4. \A f : Keeps(s, [ftp[s] EXCEPT !.data = f, !.flags = @ \cup {"CONNECTED"}])
  BY DEF Keeps, Ftpdata
<1> QED  BY <1>1, <1>2, <1>3, <1>4

LEMMA DoFileKeeps ==
  ASSUME ListInv, NEW s \in Sessions, NEW D \in SUBSET DataFlags,
         NEW name \in {"temp", "arg"}, NEW mode, NEW append, NEW T,
         DoFile(s, [ftp[s] EXCEPT !.filename = name, !.flags = @ \cup D], mode, append, T),
         OthersSame
  PROVE  NoNewLogin(s)
<1> DEFINE q == [ftp[s] EXCEPT !.filename = name, !.flags = @ \cup D]
<1>1. q \in Ftpdata /\ Keeps(s, q)
  <2>1. ftp[s] \in Ftpdata
    BY DEF ListInv
  <2>2. ftp[s].flags \cup D \in SUBSET Flags /\ "ONLINE" \notin D
    BY <2>1 DEF Ftpdata, Flags, DataFlags
  <2> QED  BY <2>1, <2>2 DEF Ftpdata, Keeps
<1>2. DoFile(s, q, mode, append, T)
  OBVIOUS
<1> HIDE DEF q
<1>3. CASE FreeData(s, q, T)
  BY <1>1, <1>3, FreedKeeps
<1>4. CASE Set(s, q)
  BY <1>1, <1>4 DEF NoNewLogin, OthersSame
<1>5. CASE \E n : Set(s, [q EXCEPT !.file = mode, !.start = n])
  <2>1. PICK n : Set(s, [q EXCEPT !.file = mode, !.start = n])
    BY <1>5
  <2>2. Keeps(s, [q EXCEPT !.file = mode, !.start = n])
    BY <1>1 DEF Keeps, Ftpdata
  <2> QED  BY <2>1, <2>2 DEF NoNewLogin, OthersSame
<1> QED  BY <1>2, <1>3, <1>4, <1>5 DEF DoFile

LEMMA CommandKeeps ==
  ASSUME ListInv, NEW s \in Sessions, TransferCommand(s)
  PROVE  NoNewLogin(s)
<1> DEFINE r == ftp[s]
<1>1. r \in Ftpdata
  BY DEF ListInv
<1>2. OthersSame
  BY DEF TransferCommand, Port, PortFails, Pasv, Rest, Rnfr, Cwd, List, Retr, Stor,
         Appe, Abor, OnlyStruct
<1>3. Keeps(s, r)
  BY DEF Keeps
<1>4. CASE Port(s) \/ Rest(s) \/ Rnfr(s) \/ Cwd(s)
  <2>1. PICK n : \/ Set(s, [r EXCEPT !.data = n, !.flags = @ \cup {"CONNECTED"}])
                 \/ Set(s, [r EXCEPT !.filename = n]) \/ Set(s, [r EXCEPT !.start = n])
    BY <1>4 DEF Port, Rest, Rnfr, Cwd
  <2> QED  BY <1>1, <1>2, <2>1, FlagKeeps DEF NoNewLogin, OthersSame
<1>5. CASE PortFails(s)
  <2>1. [r EXCEPT !.data = NoFd] \in Ftpdata
    BY <1>1 DEF Ftpdata
  <2> QED  BY <1>1, <1>2, <1>5, <2>1, FlagKeeps, FreedKeeps DEF PortFails
<1>6. CASE Pasv(s)
  <2>1. CASE FreeData(s, r, temps)
    BY <1>1, <1>2, <1>3, <2>1, FreedKeeps
  <2>2. CASE \E f : Set(s, [Cleared(r) EXCEPT !.pdata = f])
    <3>1. PICK f : Set(s, [Cleared(r) EXCEPT !.pdata = f])
      BY <2>2
    <3>2. Keeps(s, [Cleared(r) EXCEPT !.pdata = f])
      BY <1>1 DEF Keeps, Cleared, Ftpdata
    <3> QED  BY <1>2, <3>1, <3>2 DEF NoNewLogin, OthersSame
  <2> QED  BY <1>6, <2>1, <2>2 DEF Pasv
<1>7. CASE List(s)
  <2>1. CASE FreeData(s, r, temps)
    BY <1>1, <1>2, <1>3, <2>1, FreedKeeps
  <2>2. CASE FreeData(s, [r EXCEPT !.filename = "temp"], temps)
    <3>1. [r EXCEPT !.filename = "temp"] \in Ftpdata
      BY <1>1 DEF Ftpdata
    <3> QED  BY <1>1, <1>2, <2>2, <3>1, FlagKeeps, FreedKeeps
  <2>3. CASE FreeData(s, [r EXCEPT !.flags = @ \ {"LIST"}], temps \cup {s})
    <3>1. [r EXCEPT !.flags = @ \ {"LIST"}] \in Ftpdata
      BY <1>1 DEF Ftpdata
    <3>2. {"LIST"} \in SUBSET Flags
      BY DEF Flags, DataFlags
    <3> QED  BY <1>1, <1>2, <2>3, <3>1, <3>2, FlagKeeps, FreedKeeps
  <2>4. CASE DoFile(s, [r EXCEPT !.filename = "temp", !.flags = @ \cup {"LIST", "SEND"}],
                    "read", FALSE, temps \cup {s})
    <3>1. {"LIST", "SEND"} \in SUBSET DataFlags
      BY DEF DataFlags
    <3> QED  BY <1>2, <2>4, <3>1, DoFileKeeps
  <2> QED  BY <1>7, <2>1, <2>2, <2>3, <2>4 DEF List
<1>8. CASE Retr(s) \/ Stor(s) \/ Appe(s)
  <2>1. {"SEND"} \in SUBSET DataFlags /\ {"RECV"} \in SUBSET DataFlags
    BY DEF DataFlags
  <2> QED  BY <1>2, <1>8, <2>1, DoFileKeeps DEF Retr, Stor, Appe
<1>9. CASE Abor(s)
  BY <1>1, <1>2, <1>3, <1>9, FreedKeeps DEF Abor
<1> QED  BY <1>4, <1>5, <1>6, <1>7, <1>8, <1>9 DEF TransferCommand

LEMMA EventKeeps ==
  ASSUME ListInv, NEW s \in Sessions, DataEvent(s) \/ ControlEvent(s)
  PROVE  NoNewLogin(s)
<1>1. ftp[s] \in Ftpdata /\ Keeps(s, ftp[s])
  BY DEF ListInv, Keeps
<1>2. CASE AcceptData(s)
  <2>1. PICK f : Set(s, [ftp[s] EXCEPT !.data = f, !.flags = @ \cup {"CONNECTED"}])
    BY <1>2 DEF AcceptData
  <2> QED  BY <1>1, <1>2, <2>1, FlagKeeps DEF AcceptData, NoNewLogin, OthersSame
<1>3. CASE Kick(s) \/ Timeout(s)
  <2>1. Set(s, [ftp[s] EXCEPT !.flags = @ \cup {"QUIT"}]) /\ OthersSame
    BY <1>3 DEF Kick, Timeout, OnlyStruct
  <2>2. {"QUIT"} \in SUBSET (Flags \ {"ONLINE"})
    BY DEF Flags
  <2> QED  BY <1>1, <2>1, <2>2, FlagKeeps DEF NoNewLogin, OthersSame
<1>4. CASE WriteGoodbye(s) \/ Hangup(s)
  <2>1. Set(s, Fresh) /\ ftp_list' \subseteq ftp_list
    BY <1>4 DEF WriteGoodbye, Hangup, FreeFtp, Set
  <2>2. Keeps(s, Fresh)
    BY DEF Keeps, Fresh
  <2> QED  BY <2>1, <2>2 DEF NoNewLogin
<1>5. CASE Abort(s) \/ (DataEvent(s) /\ ~AcceptData(s))
  <2>1. FreeData(s, ftp[s], temps) /\ OthersSame
    BY <1>5 DEF DataEvent, AcceptFails, RecvEnds, RecvWriteFails, SendEnds,
                DataException, Abort
  <2> QED  BY <1>1, <2>1, FreedKeeps
<1> QED  BY <1>2, <1>3, <1>4, <1>5 DEF ControlEvent

LEMMA LoginKeeps ==
  ASSUME ListInv, "USER again" \notin Commands, NEW s \in Sessions, LoginStep(s),
         ~NewFtp(s), ~PassAccepted(s)
  PROVE  NoNewLogin(s)
<1> DEFINE r == ftp[s]
<1>1. r \in Ftpdata
  BY DEF ListInv
<1>2. CASE User(s)
  <2>1. PICK u : Set(s, [r EXCEPT !.user = u])
    BY <1>2 DEF User
  <2>2. "ONLINE" \notin r.flags /\ OthersSame
    BY <1>2 DEF User, MayRun, OnlyStruct
  <2>3. Keeps(s, [r EXCEPT !.user = u])
    BY <1>1, <2>2 DEF Keeps, Ftpdata
  <2> QED  BY <2>1, <2>2, <2>3 DEF NoNewLogin, OthersSame
<1>3. CASE PassRejected(s)
  <2>1. /\ Set(s, [r EXCEPT !.user = NoUser]) /\ "ONLINE" \notin r.flags
        /\ OthersSame
    BY <1>3 DEF PassRejected, OnlyStruct
  <2>2. Keeps(s, [r EXCEPT !.user = NoUser])
    BY <1>1, <2>1 DEF Keeps, Ftpdata
  <2> QED  BY <2>1, <2>2 DEF NoNewLogin, OthersSame
<1>4. CASE Rein(s)
  <2>1. Set(s, [r EXCEPT !.user = NoUser, !.filename = "", !.flags = {}]) /\ OthersSame
    BY <1>4 DEF Rein, OnlyStruct
  <2>2. Keeps(s, [r EXCEPT !.user = NoUser, !.filename = "", !.flags = {}])
    BY <1>1 DEF Keeps, Ftpdata
  <2> QED  BY <2>1, <2>2 DEF NoNewLogin, OthersSame
<1>5. CASE Quit(s)
  <2>1. Set(s, [r EXCEPT !.flags = @ \cup {"QUIT"}]) /\ OthersSame
    BY <1>5 DEF Quit, OnlyStruct
  <2>2. {"QUIT"} \in SUBSET (Flags \ {"ONLINE"})
    BY DEF Flags
  <2> QED  BY <1>1, <2>1, <2>2, FlagKeeps DEF NoNewLogin, OthersSame
<1> QED  BY <1>2, <1>3, <1>4, <1>5 DEF LoginStep

-----------------------------------------------------------------------------
(* From the logins to the limit *)

(* The sessions that the limit of u counts together with s. *)
Counted(u, s) ==
  IF u \in Guarded THEN LoggedIn(u) ELSE {t \in LoggedIn(u) : Ip[t] = Ip[s]}
LimitInv ==
  \A u \in Users : Limit[u] # 0 =>
    \A s \in Sessions : Cardinality(Counted(u, s)) <= Limit[u]

LEMMA Smaller ==
  ASSUME NEW A \in SUBSET Sessions, NEW B \in SUBSET A, NEW n \in Nat, Cardinality(A) <= n
  PROVE  Cardinality(B) <= n
<1>1. IsFiniteSet(A)
  BY ServerAssumption, FS_Subset
<1>2. Cardinality(A) \in Nat /\ Cardinality(B) \in Nat /\ Cardinality(B) <= Cardinality(A)
  BY <1>1, FS_Subset, FS_CardinalityType
<1> QED  BY <1>2

LEMMA NoneCounted ==
  ASSUME NEW A, A = {}, NEW n \in Nat
  PROVE  Cardinality(A) <= n
<1>1. Cardinality(A) = 0
  BY FS_EmptySet
<1> QED  BY <1>1

LEMMA FewerLogins ==
  ASSUME ListInv, LimitInv, \A u \in Users : LoggedIn(u)' \subseteq LoggedIn(u)
  PROVE  LimitInv'
<1> SUFFICES ASSUME NEW u \in Users, Limit[u] # 0, NEW s \in Sessions
             PROVE  Cardinality(Counted(u, s)') <= Limit[u]
  BY DEF LimitInv
<1>1. Counted(u, s)' \subseteq Counted(u, s) /\ Counted(u, s) \in SUBSET Sessions
  BY DEF Counted, LoggedIn, ListInv
<1>2. Cardinality(Counted(u, s)) <= Limit[u] /\ Limit[u] \in Nat
  BY ServerAssumption DEF LimitInv
<1> QED  BY <1>1, <1>2, Smaller

LEMMA PassKeepsLimit ==
  ASSUME ListInv, LimitInv, NEW s \in Sessions, PassAccepted(s)
  PROVE  LimitInv'
<1>1. PICK v \in Users : ftp[s].user = Account(v) /\ ~OverLimit(s, v)
  BY DEF PassAccepted
<1> DEFINE q == [ftp[s] EXCEPT !.flags = @ \cup {"ONLINE"}]
<1>2. /\ ftp_list' = ftp_list /\ s \in ftp_list /\ ftp'[s] = q
      /\ \A t \in Sessions \ {s} : ftp'[t] = ftp[t]
  BY DEF PassAccepted, MayRun, OnlyStruct, OthersSame, Set, ListInv
<1>3. q.user = Account(v)
  BY <1>1 DEF ListInv, Ftpdata
<1> HIDE DEF q
<1>4. \A u, w \in Users : Account(u) = Account(w) => u = w
  BY DEF Account
<1>5. ftp_list \subseteq Sessions
  BY DEF ListInv
<1>6. \A u \in Users : u # v => LoggedIn(u)' \subseteq LoggedIn(u)
  BY <1>2, <1>3, <1>4, <1>5 DEF LoggedIn
<1>7. LoggedIn(v)' \subseteq LoggedIn(v) \cup {s}
  BY <1>2, <1>5 DEF LoggedIn
<1> SUFFICES ASSUME NEW u \in Users, Limit[u] # 0, NEW t \in Sessions
             PROVE  Cardinality(Counted(u, t)') <= Limit[u]
  BY DEF LimitInv
<1>8. Limit[u] \in Nat /\ Cardinality(Counted(u, t)) <= Limit[u]
  BY ServerAssumption DEF LimitInv
<1>9. Counted(u, t) \in SUBSET Sessions /\ SameAccount(s) \in SUBSET Sessions
  BY <1>5 DEF Counted, LoggedIn, SameAccount
<1>10. CASE u # v \/ (u \notin Guarded /\ Ip[t] # Ip[s])
  <2>1. Counted(u, t)' \subseteq Counted(u, t)
    BY <1>6, <1>7, <1>10 DEF Counted
  <2> QED  BY <1>8, <1>9, <2>1, Smaller
<1>11. CASE u = v /\ (u \in Guarded \/ Ip[t] = Ip[s])
  <2>1. LoggedIn(v) \cup {s} \subseteq {w \in ftp_list : ftp[w].user = ftp[s].user}
    BY <1>1, <1>2 DEF LoggedIn
  <2>2. Counted(u, t)' \subseteq SameAccount(s)
    BY <1>1, <1>7, <1>11, <2>1 DEF Counted, SameAccount
  <2>3. Cardinality(SameAccount(s)) \in Nat
    BY <1>9, ServerAssumption, FS_Subset, FS_CardinalityType
  <2>4. Cardinality(SameAccount(s)) <= Limit[u]
    BY <1>1, <1>8, <1>11, <2>3 DEF OverLimit
  <2> QED  BY <1>8, <1>9, <2>2, <2>4, Smaller
<1> QED  BY <1>10, <1>11

LEMMA LimitStep ==
  ASSUME "USER again" \notin Commands, ListInv, LimitInv, [Next]_vars
  PROVE  LimitInv'
<1>1. CASE UNCHANGED <<ftp_list, ftp>>
  BY <1>1, FewerLogins DEF LoggedIn
<1>2. ASSUME NEW s \in Sessions, NoNewLogin(s)
      PROVE  LimitInv'
  <2>1. PICK q : Set(s, q) /\ Keeps(s, q)
    BY <1>2 DEF NoNewLogin
  <2>2. ftp'[s] = q /\ \A t \in Sessions \ {s} : ftp'[t] = ftp[t]
    BY <2>1 DEF Set, ListInv
  <2>3. ftp_list \subseteq Sessions /\ ftp_list' \subseteq ftp_list
    BY <1>2 DEF NoNewLogin, ListInv
  <2>4. \A u \in Users : LoggedIn(u)' \subseteq LoggedIn(u)
    BY <2>1, <2>2, <2>3 DEF LoggedIn, Keeps
  <2> QED  BY <2>4, FewerLogins
<1>3. ASSUME NEW s \in Sessions, NewFtp(s)
      PROVE  LimitInv'
  <2>1. "ONLINE" \notin ftp[s].flags
    <3>1. ftp[s] = Fresh
      BY <1>3 DEF NewFtp, ListInv
    <3>2. "ONLINE" \notin Fresh.flags
      BY DEF Fresh
    <3> QED  BY <3>1, <3>2
  <2>2. \A u \in Users : LoggedIn(u)' \subseteq LoggedIn(u)
    BY <1>3, <2>1 DEF NewFtp, LoggedIn
  <2> QED  BY <2>2, FewerLogins
<1>4. ASSUME NEW s \in Sessions, LoginStep(s), ~NewFtp(s)
      PROVE  LimitInv'
  BY <1>2, <1>4, LoginKeeps, PassKeepsLimit
<1>5. ASSUME NEW s \in Sessions, TransferCommand(s) \/ DataEvent(s) \/ ControlEvent(s)
      PROVE  LimitInv'
  BY <1>2, <1>5, CommandKeeps, EventKeeps
<1>6. CASE OpenClose \/ UNCHANGED vars
  BY <1>1, <1>6 DEF OpenClose, vars
<1> QED  BY <1>3, <1>4, <1>5, <1>6 DEF Next

(* If no session gives USER after its login, no account ever has more sessions
   logged in than its limit, whatever the order of the logins: the count that
   PASS makes includes the sessions still before their own PASS. *)
THEOREM LimitsAreKept ==
  ASSUME "USER again" \notin Commands
  PROVE  Spec => []SessionLimit
<1>1. ASSUME Init PROVE LimitInv
  <2> SUFFICES ASSUME NEW u \in Users, NEW s \in Sessions
               PROVE  Cardinality(Counted(u, s)) <= Limit[u]
    BY DEF LimitInv
  <2>1. Counted(u, s) = {}
    BY <1>1 DEF Init, Counted, LoggedIn
  <2>2. Limit[u] \in Nat
    BY ServerAssumption
  <2> QED  BY <2>1, <2>2, NoneCounted
<1>2. ListInv /\ LimitInv /\ [Next]_vars => LimitInv'
  BY LimitStep
<1>3. ASSUME ListInv, LimitInv PROVE SessionLimit
  <2> SUFFICES ASSUME NEW u \in Users, Limit[u] # 0
               PROVE  IF u \in Guarded THEN Cardinality(LoggedIn(u)) <= Limit[u]
                      ELSE \A s \in Sessions :
                             Cardinality({t \in LoggedIn(u) : Ip[t] = Ip[s]}) <= Limit[u]
    BY DEF SessionLimit
  <2>1. CASE u \notin Guarded
    BY <1>3, <2>1 DEF LimitInv, Counted
  <2>2. CASE u \in Guarded /\ Sessions # {}
    BY <1>3, <2>2 DEF LimitInv, Counted
  <2>3. CASE u \in Guarded /\ Sessions = {}
    <3>1. LoggedIn(u) = {}
      BY <1>3, <2>3 DEF ListInv, LoggedIn
    <3>2. Limit[u] \in Nat
      BY ServerAssumption
    <3> QED  BY <2>3, <3>1, <3>2, NoneCounted
  <2> QED  BY <2>1, <2>2, <2>3
<1>4. Spec => []ListInv
  BY Invariance, PTL
<1> QED  BY <1>1, <1>2, <1>3, <1>4, PTL DEF Spec

-----------------------------------------------------------------------------
(***************************************************************************)
(* Proofs about the transfers of the sessions: what a step may do to an    *)
(* open file, to the flags that describe it, to the listing on disk and to *)
(* the reply that the peer is waiting for.                                 *)
(*                                                                         *)
(* One lemma (StepShape) sorts the steps of the server by what they do to  *)
(* a transfer: it ends, it begins, it fails to begin, or it goes on.  The  *)
(* properties follow from these four shapes, each from the faults that it  *)
(* really has to exclude, which are fewer than the run server_transfer     *)
(* excludes.                                                               *)
(***************************************************************************)

Work == {"SEND", "RECV", "LIST"}

Ends(s) ==
  /\ \E q : Set(s, q) /\ q.file = "none" /\ q.flags \cap Work = {}
  /\ temps' \subseteq temps \cup {s} /\ owed' \subseteq owed
  /\ s \in temps' =>
       \/ "lock" \in Faults
       \/ /\ s \in temps
          /\ ftp[s].file = "none" \/ ~("LIST" \in ftp[s].flags /\ ftp[s].filename = "temp")
  /\ s \in owed' => ftp[s].file = "none" \/ "disk" \in Faults \/ "exception" \in Faults

Begins(s, mode, name, D) ==
  /\ ftp[s].file = "none"
  /\ \E q : /\ Set(s, q) /\ q.file = mode /\ q.filename = name
            /\ q.flags = ftp[s].flags \cup D
  /\ temps' = IF "LIST" \in D THEN temps \cup {s} ELSE temps
  /\ owed' = owed \cup {s}

FailsToBegin(s) ==
  /\ "open" \in Faults /\ ftp[s].file = "none"
  /\ \E q : Set(s, q) /\ q.file = "none"
  /\ UNCHANGED owed

GoesOn(s) ==
  /\ \E q :
       /\ Set(s, q) /\ q.file = ftp[s].file
       /\ q.flags \cap Work = ftp[s].flags \cap Work
       /\ ftp[s].file # "none" =>
            /\ q.user = ftp[s].user /\ q.filename = ftp[s].filename
            /\ q.start = ftp[s].start /\ q.pdata = ftp[s].pdata
            /\ ftp[s].data # NoFd => q.data = ftp[s].data
  /\ UNCHANGED <<temps, owed>>

Shape(s) ==
  \/ Ends(s) \/ FailsToBegin(s) \/ GoesOn(s)
  \/ Begins(s, "read", "temp", {"LIST", "SEND"})
  \/ Begins(s, "read", "arg", {"SEND"})
  \/ Begins(s, "write", "arg", {"RECV"})

-----------------------------------------------------------------------------
(* The shapes of the steps *)

(* free_data() of a struct with the flags of s, and perhaps another name. *)
LEMMA FreedEnds ==
  ASSUME NEW s \in Sessions, NEW r \in Ftpdata, NEW T \in SUBSET (temps \cup {s}),
         FreeData(s, r, T), owed' \subseteq owed,
         s \in T => \/ "lock" \in Faults
                    \/ "LIST" \in r.flags /\ r.filename = "temp"
                    \/ /\ s \in temps
                       /\ \/ ftp[s].file = "none"
                          \/ ftp[s].flags = r.flags /\ ftp[s].filename = r.filename,
         s \in owed' => ftp[s].file = "none" \/ "disk" \in Faults \/ "exception" \in Faults
  PROVE  Ends(s)
<1> DEFINE q == Cleared(r)
<1>1. Set(s, q)
  BY DEF FreeData, Set
<1>2. q.file = "none" /\ q.flags \cap Work = {}
  BY DEF Cleared, Ftpdata, Work, DataFlags
<1> HIDE DEF q
<1>3. temps' \subseteq temps \cup {s}
  BY DEF FreeData, DeleteListing
<1>4. s \in temps' => s \in T /\ ~("LIST" \in r.flags /\ r.filename = "temp")
  BY DEF FreeData, DeleteListing
<1> QED  BY <1>1, <1>2, <1>3, <1>4 DEF Ends

LEMMA Goes ==
  ASSUME ListInv, NEW s \in Sessions, NEW D, D \cap Work = {},
         Set(s, [ftp[s] EXCEPT !.flags = @ \cup D]), UNCHANGED <<temps, owed>>
  PROVE  GoesOn(s)
<1> DEFINE q == [ftp[s] EXCEPT !.flags = @ \cup D]
<1>1. /\ q.user = ftp[s].user /\ q.filename = ftp[s].filename /\ q.data = ftp[s].data
      /\ q.start = ftp[s].start /\ q.pdata = ftp[s].pdata /\ q.file = ftp[s].file
      /\ q.flags = ftp[s].flags \cup D
  BY DEF ListInv, Ftpdata
<1> HIDE DEF q
<1>2. Set(s, q)
  BY DEF q
<1> QED  BY <1>1, <1>2 DEF GoesOn

(* do_file() of LIST, RETR, STOR and APPE. *)
LEMMA DoFileShape ==
  ASSUME ListInv, NEW s \in Sessions, ftp[s].file = "none",
         NEW mode \in {"read", "write"}, NEW name \in {"temp", "arg"},
         NEW D \in SUBSET Work, "LIST" \in D => name = "temp",
         NEW append,
         DoFile(s, [ftp[s] EXCEPT !.filename = name, !.flags = @ \cup D], mode, append,
                IF "LIST" \in D THEN temps \cup {s} ELSE temps)
  PROVE  Ends(s) \/ FailsToBegin(s) \/ Begins(s, mode, name, D)
<1> DEFINE q == [ftp[s] EXCEPT !.filename = name, !.flags = @ \cup D]
           T == IF "LIST" \in D THEN temps \cup {s} ELSE temps
<1>1. /\ q \in Ftpdata /\ q.file = "none" /\ q.filename = name
      /\ q.flags = ftp[s].flags \cup D
  <2>1. ftp[s] \in Ftpdata
    BY DEF ListInv
  <2>2. ftp[s].flags \cup D \in SUBSET Flags
    BY <2>1 DEF Ftpdata, Work, Flags, DataFlags
  <2> QED  BY <2>1, <2>2 DEF Ftpdata
<1>2. DoFile(s, q, mode, append, T)
  OBVIOUS
<1> HIDE DEF q
<1>3. CASE FreeData(s, q, T) /\ Silently
  <2>1. T \in SUBSET (temps \cup {s}) /\ owed' \subseteq owed
    BY <1>3 DEF Silently
  <2>2. s \in T => ("LIST" \in q.flags /\ q.filename = "temp") \/ s \in temps
    BY <1>1
  <2> QED  BY <1>1, <1>3, <2>1, <2>2, FreedEnds
<1>4. CASE "open" \in Faults /\ Set(s, q) /\ UNCHANGED owed
  BY <1>1, <1>4 DEF FailsToBegin
<1>5. CASE /\ \E n : Set(s, [q EXCEPT !.file = mode, !.start = n])
           /\ owed' = owed \cup {s} /\ temps' = T
  <2>1. PICK n : Set(s, [q EXCEPT !.file = mode, !.start = n])
    BY <1>5
  <2>2. /\ [q EXCEPT !.file = mode, !.start = n].file = mode
        /\ [q EXCEPT !.file = mode, !.start = n].filename = name
        /\ [q EXCEPT !.file = mode, !.start = n].flags = ftp[s].flags \cup D
    BY <1>1 DEF Ftpdata
  <2> QED  BY <1>5, <2>1, <2>2 DEF Begins
<1> QED  BY <1>2, <1>3, <1>4, <1>5 DEF DoFile

LEMMA LoginShape ==
  ASSUME ListInv, NEW s \in Sessions, LoginStep(s), ~NewFtp(s)
  PROVE  Ends(s) \/ GoesOn(s)
<1> DEFINE r == ftp[s]
<1>1. r \in Ftpdata
  BY DEF ListInv
<1>2. ASSUME r.file = "none", NEW u, Set(s, [r EXCEPT !.user = u]), OnlyStruct
      PROVE  GoesOn(s)
  <2>1. /\ [r EXCEPT !.user = u].file = r.file
        /\ [r EXCEPT !.user = u].flags = r.flags
    BY <1>1 DEF Ftpdata
  <2> QED  BY <1>2, <2>1 DEF GoesOn, OnlyStruct
<1>3. CASE User(s) \/ PassRejected(s)
  BY <1>2, <1>3 DEF User, PassRejected, MayRun
<1>4. CASE PassAccepted(s)
  <2>1. Set(s, [r EXCEPT !.flags = @ \cup {"ONLINE"}]) /\ OnlyStruct
    BY <1>4 DEF PassAccepted
  <2>2. {"ONLINE"} \cap Work = {}
    BY DEF Work
  <2> QED  BY <2>1, <2>2, Goes DEF OnlyStruct
<1>5. CASE Quit(s)
  <2>1. Set(s, [r EXCEPT !.flags = @ \cup {"QUIT"}]) /\ OnlyStruct
    BY <1>5 DEF Quit
  <2>2. {"QUIT"} \cap Work = {}
    BY DEF Work
  <2> QED  BY <2>1, <2>2, Goes DEF OnlyStruct
<1>6. CASE Rein(s)
  <2> DEFINE q == [r EXCEPT !.user = NoUser, !.filename = "", !.flags = {}]
  <2>1. r.file = "none" /\ Set(s, q) /\ OnlyStruct
    BY <1>6 DEF Rein, MayRun
  <2>2. q.file = "none" /\ q.flags \cap Work = {}
    BY <1>1, <2>1 DEF Ftpdata
  <2> QED  BY <2>1, <2>2 DEF Ends, OnlyStruct
<1> QED  BY <1>3, <1>4, <1>5, <1>6 DEF LoginStep

LEMMA CommandShape ==
  ASSUME ListInv, NEW s \in Sessions, TransferCommand(s)
  PROVE  Shape(s)
<1> DEFINE r == ftp[s]
<1>1. r \in Ftpdata
  BY DEF ListInv
<1>2. ~Abor(s) => r.file = "none"
  BY DEF TransferCommand, Port, PortFails, Pasv, Rest, Rnfr, Cwd, List, Retr, Stor,
         Appe, MayRun
<1>3. ASSUME r.file = "none", NEW q \in Ftpdata, FreeData(s, q, temps), Silently
      PROVE  Ends(s)
  BY <1>3, FreedEnds DEF Silently
<1>4. CASE Port(s)
  <2>1. PICK f : Set(s, [r EXCEPT !.data = f, !.flags = @ \cup {"CONNECTED"}])
    BY <1>4 DEF Port
  <2>2. /\ [r EXCEPT !.data = f, !.flags = @ \cup {"CONNECTED"}].file = r.file
        /\ [r EXCEPT !.data = f, !.flags = @ \cup {"CONNECTED"}].flags
             = r.flags \cup {"CONNECTED"}
    BY <1>1 DEF Ftpdata
  <2>3. GoesOn(s)
    BY <1>2, <1>4, <2>1, <2>2 DEF GoesOn, Port, MayRun, Work
  <2> QED  BY <2>3 DEF Shape
<1>5. CASE PortFails(s)
  <2>1. [r EXCEPT !.data = NoFd] \in Ftpdata
    BY <1>1 DEF Ftpdata
  <2> QED  BY <1>3, <1>5, <2>1 DEF PortFails, MayRun, Shape
<1>6. CASE Pasv(s)
  <2>1. r.file = "none" /\ Silently
    BY <1>6 DEF Pasv, MayRun
  <2>2. CASE FreeData(s, r, temps)
    BY <1>1, <1>3, <2>1, <2>2 DEF Shape
  <2>3. CASE \E f : /\ Set(s, [Cleared(r) EXCEPT !.pdata = f])
                    /\ temps' = DeleteListing(s, r, temps)
    <3>1. PICK f : Set(s, [Cleared(r) EXCEPT !.pdata = f])
      BY <2>3
    <3>2. /\ [Cleared(r) EXCEPT !.pdata = f].file = "none"
          /\ [Cleared(r) EXCEPT !.pdata = f].flags \cap Work = {}
      BY <1>1 DEF Cleared, Ftpdata, Work, DataFlags
    <3>3. Ends(s)
      BY <2>1, <2>3, <3>1, <3>2 DEF Ends, DeleteListing, Silently
    <3> QED  BY <3>3 DEF Shape
  <2> QED  BY <1>6, <2>2, <2>3 DEF Pasv
<1>7. CASE Rest(s) \/ Rnfr(s) \/ Cwd(s)
  <2>1. PICK n, m : Set(s, [r EXCEPT !.filename = n]) \/ Set(s, [r EXCEPT !.start = m])
    BY <1>7 DEF Rest, Rnfr, Cwd
  <2>2. /\ [r EXCEPT !.filename = n].file = r.file /\ [r EXCEPT !.start = m].file = r.file
        /\ [r EXCEPT !.filename = n].flags = r.flags /\ [r EXCEPT !.start = m].flags = r.flags
    BY <1>1 DEF Ftpdata
  <2>3. r.file = "none" /\ UNCHANGED <<temps, owed>>
    BY <1>7 DEF Rest, Rnfr, Cwd, MayRun, OnlyStruct
  <2>4. GoesOn(s)
    BY <2>1, <2>2, <2>3 DEF GoesOn
  <2> QED  BY <2>4 DEF Shape
<1>8. CASE List(s)
  <2>1. r.file = "none"
    BY <1>8 DEF List, MayRun
  <2>2. CASE FreeData(s, r, temps) /\ Silently
    BY <1>1, <1>3, <2>1, <2>2 DEF Shape
  <2>3. CASE FreeData(s, [r EXCEPT !.filename = "temp"], temps) /\ Silently
    <3>1. [r EXCEPT !.filename = "temp"] \in Ftpdata
      BY <1>1 DEF Ftpdata
    <3> QED  BY <1>3, <2>1, <2>3, <3>1 DEF Shape
  <2>4. CASE /\ "lock" \in Faults /\ Silently
             /\ FreeData(s, [r EXCEPT !.flags = @ \ {"LIST"}], temps \cup {s})
    <3> DEFINE q == [r EXCEPT !.flags = @ \ {"LIST"}]
               T == temps \cup {s}
    <3>1. q \in Ftpdata
      BY <1>1 DEF Ftpdata
    <3>2. FreeData(s, q, T) /\ "lock" \in Faults
      BY <2>4
    <3>3. T \in SUBSET (temps \cup {s}) /\ owed' \subseteq owed
      BY <2>4 DEF Silently
    <3> HIDE DEF q, T
    <3>4. Ends(s)
      BY <2>1, <3>1, <3>2, <3>3, FreedEnds
    <3> QED  BY <3>4 DEF Shape
  <2>5. CASE DoFile(s, [r EXCEPT !.filename = "temp", !.flags = @ \cup {"LIST", "SEND"}],
                    "read", FALSE, temps \cup {s})
    <3>1. {"LIST", "SEND"} \in SUBSET Work
      BY DEF Work
    <3> QED  BY <2>1, <2>5, <3>1, DoFileShape DEF Shape
  <2> QED  BY <1>8, <2>2, <2>3, <2>4, <2>5 DEF List
<1>9. CASE Retr(s)
  <2>1. r.file = "none" /\ {"SEND"} \in SUBSET Work
    BY <1>9 DEF Retr, MayRun, Work
  <2> QED  BY <1>9, <2>1, DoFileShape DEF Retr, Shape
<1>10. CASE Stor(s) \/ Appe(s)
  <2>1. r.file = "none" /\ {"RECV"} \in SUBSET Work
    BY <1>10 DEF Stor, Appe, MayRun, Work
  <2> QED  BY <1>10, <2>1, DoFileShape DEF Stor, Appe, Shape
<1>11. CASE Abor(s)
  BY <1>1, <1>11, FreedEnds DEF Abor, Completes, Shape
<1> QED
  BY <1>4, <1>5, <1>6, <1>7, <1>8, <1>9, <1>10, <1>11 DEF TransferCommand

LEMMA EventShape ==
  ASSUME ListInv, NEW s \in Sessions, DataEvent(s) \/ ControlEvent(s)
  PROVE  Shape(s)
<1> DEFINE r == ftp[s]
<1>1. r \in Ftpdata
  BY DEF ListInv
<1>2. CASE AcceptData(s)
  <2>1. PICK f : Set(s, [r EXCEPT !.data = f, !.flags = @ \cup {"CONNECTED"}])
    BY <1>2 DEF AcceptData
  <2> DEFINE q == [r EXCEPT !.data = f, !.flags = @ \cup {"CONNECTED"}]
  <2>2. /\ q.user = r.user /\ q.filename = r.filename /\ q.start = r.start
        /\ q.pdata = r.pdata /\ q.file = r.file /\ q.flags = r.flags \cup {"CONNECTED"}
    BY <1>1 DEF Ftpdata
  <2>3. Set(s, q)
    BY <2>1
  <2> HIDE DEF q
  <2>4. r.data = NoFd /\ UNCHANGED <<temps, owed>>
    BY <1>2 DEF AcceptData, Listening
  <2>5. GoesOn(s)
    BY <2>2, <2>3, <2>4 DEF GoesOn, Work
  <2> QED  BY <2>5 DEF Shape
<1>3. CASE Kick(s) \/ Timeout(s)
  <2>1. Set(s, [r EXCEPT !.flags = @ \cup {"QUIT"}]) /\ OnlyStruct
    BY <1>3 DEF Kick, Timeout
  <2>2. {"QUIT"} \cap Work = {}
    BY DEF Work
  <2> QED  BY <2>1, <2>2, Goes DEF OnlyStruct, Shape
<1>4. CASE WriteGoodbye(s) \/ Hangup(s)
  <2>1. /\ Set(s, Fresh) /\ owed' = owed \ {s}
        /\ temps' = DeleteListing(s, r, temps)
    BY <1>4 DEF WriteGoodbye, Hangup, FreeFtp, Set
  <2>2. Fresh.file = "none" /\ Fresh.flags \cap Work = {}
    BY DEF Fresh
  <2>3. Ends(s)
    BY <2>1, <2>2 DEF Ends, DeleteListing
  <2> QED  BY <2>3 DEF Shape
<1>5. CASE Abort(s) \/ (DataEvent(s) /\ ~AcceptData(s))
  <2>1. /\ FreeData(s, r, temps) /\ owed' \subseteq owed
        /\ s \in owed' => r.file = "none" \/ "disk" \in Faults \/ "exception" \in Faults
    BY <1>5 DEF DataEvent, AcceptFails, RecvEnds, RecvWriteFails, SendEnds,
                DataException, Abort, Completes, Silently
  <2> QED  BY <1>1, <2>1, FreedEnds DEF Shape
<1> QED  BY <1>2, <1>3, <1>4, <1>5 DEF ControlEvent

LEMMA StepShape ==
  ASSUME ListInv, [Next]_vars
  PROVE  UNCHANGED <<ftp, temps, owed>> \/ \E s \in Sessions : Shape(s)
<1>1. CASE OpenClose \/ UNCHANGED vars
  BY <1>1 DEF OpenClose, vars
<1>2. ASSUME NEW s \in Sessions, LoginStep(s)
      PROVE  UNCHANGED <<ftp, temps, owed>> \/ Shape(s)
  BY <1>2, LoginShape DEF NewFtp, Shape
<1>3. ASSUME NEW s \in Sessions, TransferCommand(s) \/ DataEvent(s) \/ ControlEvent(s)
      PROVE  Shape(s)
  BY <1>3, CommandShape, EventShape
<1> QED  BY <1>1, <1>2, <1>3 DEF Next

-----------------------------------------------------------------------------
(* The properties *)

(* The flags and the name of one struct describe its file: FlagsDescribeFile,
   and no flag of a transfer without a file. *)
FlagsOK(r) ==
  /\ "SEND" \in r.flags <=> r.file = "read"
  /\ "RECV" \in r.flags <=> r.file = "write"
  /\ "LIST" \in r.flags => r.file = "read" /\ r.filename = "temp"
FlagsInv == \A s \in Sessions : FlagsOK(ftp[s])

LEMMA SetRange ==
  ASSUME ListInv, NEW s \in Sessions, NEW q, Set(s, q)
  PROVE  /\ ftp'[s] = q
         /\ \A t \in Sessions \ {s} : ftp'[t] = ftp[t]
BY DEF ListInv, Set

LEMMA FlagsStep ==
  ASSUME "open" \notin Faults, ListInv, FlagsInv, [Next]_vars
  PROVE  FlagsInv'
<1>1. CASE UNCHANGED <<ftp, temps, owed>>
  BY <1>1 DEF FlagsInv, FlagsOK
<1>2. ASSUME NEW s \in Sessions, Shape(s)
      PROVE  FlagsInv'
  <2>1. FlagsOK(ftp[s]) /\ ftp[s] \in Ftpdata
    BY DEF FlagsInv, ListInv
  <2>2. ASSUME NEW q, Set(s, q), FlagsOK(q)
        PROVE  FlagsInv'
    BY <2>2, SetRange DEF FlagsInv
  <2>3. CASE Ends(s)
    BY <2>2, <2>3 DEF Ends, FlagsOK, Work
  <2>4. CASE GoesOn(s)
    <3>1. PICK q :
            /\ Set(s, q) /\ q.file = ftp[s].file
            /\ q.flags \cap Work = ftp[s].flags \cap Work
            /\ ftp[s].file # "none" => q.filename = ftp[s].filename
      BY <2>4 DEF GoesOn
    <3>2. \A f \in Work : f \in q.flags <=> f \in ftp[s].flags
      BY <3>1
    <3>3. FlagsOK(q)
      BY <2>1, <3>1, <3>2 DEF FlagsOK, Work
    <3> QED  BY <2>2, <3>1, <3>3
  <2>5. ASSUME NEW mode, NEW name, NEW D, Begins(s, mode, name, D),
               \/ mode = "read" /\ name = "temp" /\ D = {"LIST", "SEND"}
               \/ mode = "read" /\ name = "arg" /\ D = {"SEND"}
               \/ mode = "write" /\ name = "arg" /\ D = {"RECV"}
        PROVE  FlagsInv'
    <3>1. PICK q : /\ Set(s, q) /\ q.file = mode /\ q.filename = name
                   /\ q.flags = ftp[s].flags \cup D
      BY <2>5 DEF Begins
    <3>2. ftp[s].file = "none"
      BY <2>5 DEF Begins
    <3>3. ftp[s].flags \cap Work = {}
      BY <2>1, <3>2 DEF FlagsOK, Work
    <3>4. FlagsOK(q)
      BY <2>5, <3>1, <3>3 DEF FlagsOK, Work
    <3> QED  BY <2>2, <3>1, <3>4
  <2> QED  BY <1>2, <2>3, <2>4, <2>5 DEF Shape, FailsToBegin
<1> QED  BY <1>1, <1>2, StepShape

LEMMA FlagsInit == Init => FlagsInv
<1> SUFFICES ASSUME Init, NEW s \in Sessions PROVE FlagsOK(ftp[s])
  BY DEF FlagsInv
<1>1. ftp[s].flags = {} /\ ftp[s].file = "none"
  BY DEF Init, Fresh
<1> QED  BY <1>1 DEF FlagsOK

(* If opening a file never fails after the flags are set, the flags of every
   open file say what is done with it, and no listing of another file is
   deleted: whatever else fails, and whatever the peers send. *)
THEOREM FlagsDescribeFiles ==
  ASSUME "open" \notin Faults
  PROVE  Spec => []FlagsDescribeFile
<1>1. FlagsInv => FlagsDescribeFile
  BY DEF FlagsInv, FlagsOK, FlagsDescribeFile
<1>2. ListInv /\ FlagsInv /\ [Next]_vars => FlagsInv'
  BY FlagsStep
<1>3. Spec => []ListInv
  BY Invariance, PTL
<1> QED  BY FlagsInit, <1>1, <1>2, <1>3, PTL DEF Spec

(* A listing on disk belongs to a session that sends it. *)
ListingsInv ==
  temps \subseteq Sessions /\ \A s \in temps : "LIST" \in ftp[s].flags

LEMMA ListingsStep ==
  ASSUME "open" \notin Faults, "lock" \notin Faults,
         ListInv, FlagsInv, ListingsInv, [Next]_vars
  PROVE  ListingsInv'
<1>1. CASE UNCHANGED <<ftp, temps, owed>>
  BY <1>1 DEF ListingsInv
<1>2. ASSUME NEW s \in Sessions, Shape(s)
      PROVE  ListingsInv'
  <2>1. \A t \in Sessions \ {s} : ftp'[t] = ftp[t]
    <3>1. \E q : Set(s, q)
      BY <1>2 DEF Shape, Ends, FailsToBegin, GoesOn, Begins
    <3> QED  BY <3>1, SetRange
  <2>2. ASSUME temps' \subseteq temps \cup {s},
               s \in temps' => "LIST" \in ftp'[s].flags
        PROVE  ListingsInv'
    BY <2>1, <2>2 DEF ListingsInv
  <2>3. FlagsOK(ftp[s])
    BY DEF FlagsInv
  <2>4. CASE Ends(s)
    <3>1. s \notin temps'
      BY <2>3, <2>4 DEF Ends, ListingsInv, FlagsOK
    <3> QED  BY <2>2, <2>4, <3>1 DEF Ends
  <2>5. CASE GoesOn(s)
    <3>1. PICK q : Set(s, q) /\ q.flags \cap Work = ftp[s].flags \cap Work
      BY <2>5 DEF GoesOn
    <3>2. ftp'[s] = q
      BY <3>1, SetRange
    <3>3. temps' = temps /\ "LIST" \in Work
      BY <2>5 DEF GoesOn, Work
    <3> QED  BY <2>2, <3>1, <3>2, <3>3 DEF ListingsInv
  <2>6. ASSUME NEW mode, NEW name, NEW D, Begins(s, mode, name, D)
        PROVE  ListingsInv'
    <3>1. PICK q : Set(s, q) /\ q.flags = ftp[s].flags \cup D
      BY <2>6 DEF Begins
    <3>2. ftp'[s] = q
      BY <3>1, SetRange
    <3>3. temps' = IF "LIST" \in D THEN temps \cup {s} ELSE temps
      BY <2>6 DEF Begins
    <3> QED  BY <2>2, <3>1, <3>2, <3>3 DEF ListingsInv
  <2> QED  BY <1>2, <2>4, <2>5, <2>6 DEF Shape, FailsToBegin
<1> QED  BY <1>1, <1>2, StepShape

(* If opening a file and locking a directory never fail, a listing file exists
   only while the session that will delete it is there: disk faults, lost
   connections and kicks leave none behind. *)
THEOREM ListingsAreDeleted ==
  ASSUME "open" \notin Faults, "lock" \notin Faults
  PROVE  Spec => []ListingsDeleted
<1>1. Init => ListingsInv
  BY DEF Init, ListingsInv
<1>2. ASSUME ListInv, FlagsInv, ListingsInv PROVE ListingsDeleted
  <2> SUFFICES ASSUME NEW s \in temps
               PROVE  s \in ftp_list /\ "LIST" \in ftp[s].flags /\ ftp[s].filename = "temp"
    BY DEF ListingsDeleted
  <2>1. s \in Sessions /\ "LIST" \in ftp[s].flags
    BY <1>2 DEF ListingsInv
  <2>2. ftp[s].filename = "temp"
    BY <1>2, <2>1 DEF FlagsInv, FlagsOK
  <2>3. ftp[s] # Fresh
    <3>1. "LIST" \notin Fresh.flags
      BY DEF Fresh
    <3> QED  BY <2>1, <3>1
  <2> QED  BY <1>2, <2>1, <2>2, <2>3 DEF ListInv
<1>3. ListInv /\ FlagsInv /\ ListingsInv /\ [Next]_vars => FlagsInv' /\ ListingsInv'
  BY FlagsStep, ListingsStep
<1>4. Spec => []ListInv
  BY Invariance, PTL
<1> QED  BY FlagsInit, <1>1, <1>2, <1>3, <1>4, PTL DEF Spec

(* A disk that does not fail and no exception on a data connection: every
   transfer that was announced ends with a reply, even if opening files and
   locking directories may fail. *)
THEOREM TransfersAreAnswered ==
  ASSUME "disk" \notin Faults, "exception" \notin Faults
  PROVE  Spec => []TransferAnswered
<1>1. Init => TransferAnswered
  BY DEF Init, TransferAnswered
<1>2. ASSUME ListInv, RestInv, TransferAnswered, [Next]_vars
      PROVE  TransferAnswered'
  <2>1. CASE UNCHANGED <<ftp, temps, owed>>
    BY <1>2, <2>1 DEF TransferAnswered
  <2>2. ASSUME NEW s \in Sessions, Shape(s)
        PROVE  TransferAnswered'
    <3>1. \A t \in Sessions \ {s} : ftp'[t] = ftp[t]
      <4>1. \E q : Set(s, q)
        BY <2>2 DEF Shape, Ends, FailsToBegin, GoesOn, Begins
      <4> QED  BY <1>2, <4>1, SetRange
    <3>2. ASSUME owed' \subseteq owed \cup {s}, s \in owed' => ftp'[s].file # "none"
          PROVE  TransferAnswered'
      BY <1>2, <3>1, <3>2 DEF TransferAnswered, RestInv
    <3>3. CASE Ends(s)
      <4>1. s \notin owed'
        BY <1>2, <3>3 DEF Ends, TransferAnswered
      <4> QED  BY <3>2, <3>3, <4>1 DEF Ends
    <3>4. CASE FailsToBegin(s)
      <4>1. s \notin owed'
        BY <1>2, <3>4 DEF FailsToBegin, TransferAnswered
      <4> QED  BY <3>2, <3>4, <4>1 DEF FailsToBegin
    <3>5. CASE GoesOn(s)
      <4>1. PICK q : Set(s, q) /\ q.file = ftp[s].file
        BY <3>5 DEF GoesOn
      <4>2. ftp'[s].file = ftp[s].file
        BY <1>2, <4>1, SetRange
      <4> QED  BY <1>2, <3>2, <3>5, <4>2 DEF GoesOn, TransferAnswered
    <3>6. ASSUME NEW mode \in {"read", "write"}, NEW name, NEW D,
                 Begins(s, mode, name, D)
          PROVE  TransferAnswered'
      <4>1. PICK q : Set(s, q) /\ q.file = mode
        BY <3>6 DEF Begins
      <4>2. ftp'[s].file # "none"
        BY <1>2, <4>1, SetRange
      <4> QED  BY <3>2, <3>6, <4>2 DEF Begins
    <3> QED  BY <2>2, <3>3, <3>4, <3>5, <3>6 DEF Shape
  <2> QED  BY <1>2, <2>1, <2>2, StepShape
<1> QED  BY <1>1, <1>2, Invariance, PTL DEF Spec

(* Nothing changes a transfer while its file stays open, for every choice of
   the commands and of the faults. *)
THEOREM TransfersAreUndisturbed == Spec => TransferUndisturbed
<1>1. ASSUME ListInv, [Next]_vars, NEW s \in Sessions
      PROVE  Undisturbed(s)
  <2>1. CASE ftp' = ftp
    BY <2>1 DEF Undisturbed
  <2>2. ASSUME NEW t \in Sessions, t # s, Shape(t)
        PROVE  Undisturbed(s)
    <3>1. \E q : Set(t, q)
      BY <2>2 DEF Shape, Ends, FailsToBegin, GoesOn, Begins
    <3>2. ftp'[s] = ftp[s]
      BY <1>1, <2>2, <3>1, SetRange
    <3> QED  BY <3>2 DEF Undisturbed
  <2>3. CASE GoesOn(s)
    <3>1. PICK q :
            /\ Set(s, q) /\ q.flags \cap Work = ftp[s].flags \cap Work
            /\ ftp[s].file # "none" =>
                 /\ q.user = ftp[s].user /\ q.filename = ftp[s].filename
                 /\ q.start = ftp[s].start /\ q.pdata = ftp[s].pdata
                 /\ ftp[s].data # NoFd => q.data = ftp[s].data
      BY <2>3 DEF GoesOn
    <3>2. ftp'[s] = q
      BY <1>1, <3>1, SetRange
    <3> QED  BY <3>1, <3>2 DEF Undisturbed, Work
  <2>4. CASE Shape(s) /\ ~GoesOn(s)
    <3>1. ftp[s].file = "none" \/ \E q : Set(s, q) /\ q.file = "none"
      BY <2>4 DEF Shape, Ends, FailsToBegin, Begins
    <3>2. ftp[s].file = "none" \/ ftp'[s].file = "none"
      BY <1>1, <3>1, SetRange
    <3> QED  BY <3>2 DEF Undisturbed
  <2> QED  BY <1>1, <2>1, <2>2, <2>3, <2>4, StepShape
<1>2. ListInv /\ [Next]_vars => [\A s \in Sessions : Undisturbed(s)]_vars
  BY <1>1
<1>3. Spec => []ListInv
  BY Invariance, PTL
<1> QED  BY <1>2, <1>3, PTL DEF Spec, TransferUndisturbed
=============================================================================
