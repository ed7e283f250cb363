-------------------------- MODULE Directories --------------------------
(***************************************************************************)
(* Sessions that move through the virtual directories and work on files    *)
(* (CWD, CDUP, DELE, MKD, RMD, RNFR, RNTO, STOR, APPE, LIST), while the    *)
(* operator replaces the list of accounts and the list of aliases that the *)
(* sessions point into (GetUsers, GetPath).  A session remembers its       *)
(* account and its alias as pointers, and its directory twice: as the path *)
(* that the peer sees and as the place on the volume (ftpdata.cd).         *)
(***************************************************************************)
EXTENDS VirtualPath

CONSTANTS
  Sessions,
  UserLists,   \* the account lists the operator may put together
  AliasLists,  \* the alias lists the operator may put together
  Args,        \* arguments that peers give
  Places,      \* bound: the places where files and directories may be made
  StartDirs, StartFiles, \* what the volumes hold at first
  UserAgain,   \* do peers send USER while they are logged in?
  KickedServed \* may a session that was told 421 be served before it is freed?

Null == 0      \* a pointer that is NULL
Unknown == -1  \* ftpdata.user after USER with an unknown name
Freed == -2    \* a pointer to an entry of a list that was freed
               \* n > 0: a pointer to the n-th entry of the list in use

Account == [name : STRING, groups : SUBSET Groups]

(* What the volumes hold is in directories that exist. *)
InDirectories(d, f) ==
  \A x \in d \cup f : \A n \in 1..(Len(x) - 1) : SubSeq(x, 1, n) \in d

ASSUME DirectoriesAssumption ==
  /\ KickedServed \in BOOLEAN /\ UserAgain \in BOOLEAN
  /\ UserLists # {} /\ \A list \in UserLists : list \in Seq(Account)
  /\ AliasLists # {} /\ \A list \in AliasLists : list \in Seq(Alias)
  /\ \A a \in Args : a.from \in {"here", "root", "colon"} /\ a.names \in Seq(Names \cup {".."})
  /\ \A p \in Places \cup StartDirs : p \in Place
  /\ StartFiles \subseteq Places /\ StartDirs \cap StartFiles = {}
  /\ InDirectories(StartDirs, StartFiles)

VARIABLES
  users,    \* user_list: [name, groups]
  aliases,  \* access_list: [alias, path, read, write, delete, subdirs]
  ftp,      \* the sessions
  dirs,     \* the directories on the volumes
  files,    \* the files on the volumes
  pages     \* pages of the settings window that are open

vars == <<users, aliases, ftp, dirs, files, pages>>

NoSession == [on |-> FALSE, online |-> FALSE, quit |-> FALSE, user |-> Null,
              access |-> Null, path |-> Nowhere, cd |-> <<>>, filename |-> <<>>,
              moved |-> FALSE]

(* The groups that a command runs with: bit 0 if nobody has logged in. *)
GroupsOf(list, u) == IF u = Null THEN {0} ELSE list[u].groups

Lists == <<users, aliases, pages>>
Tree == <<dirs, files>>

-----------------------------------------------------------------------------
(* Sessions *)

NewFtp(s) ==
  /\ ~ftp[s].on
  /\ ftp' = [ftp EXCEPT ![s] = [NoSession EXCEPT !.on = TRUE]]
  /\ UNCHANGED <<Lists, Tree>>

(* free_ftp(): QUIT, a hangup, or the 421 has been written. *)
FreeFtp(s) ==
  /\ ftp[s].on
  /\ ftp' = [ftp EXCEPT ![s] = NoSession]
  /\ UNCHANGED <<Lists, Tree>>

(* read_from_control() runs a handler: the session's own directory must give
   one of the rights that the command table asks for. *)
Served(s) == ftp[s].on /\ (KickedServed \/ ~ftp[s].quit)
Rights(a, need) ==
  CASE need = "read" -> a.read [] need = "write" -> a.write [] need = "delete" -> a.delete
MayRun(s, needs) ==
  /\ Served(s) /\ ftp[s].online
  /\ ftp[s].access # Null =>
       \A n \in needs : GroupsOf(users, ftp[s].user) \cap Rights(aliases[ftp[s].access], n) # {}

(* USER: the account of that name, or the pointer -1.  A peer that is logged in
   stays so under the other account; that it names an unknown one is left out,
   for the next command would look for its rights at -1. *)
UserCommand(s) ==
  /\ Served(s) /\ (ftp[s].online => UserAgain)
  /\ \E u \in {Unknown} \cup DOMAIN users :
       /\ ftp[s].online => u # Unknown
       /\ ftp' = [ftp EXCEPT ![s].user = u, ![s].moved = FALSE]
  /\ UNCHANGED <<Lists, Tree>>

(* PASS: a refusal forgets the account; a login goes to "/" if there is such an
   alias, and otherwise leaves the session without a directory. *)
PassCommand(s) ==
  /\ Served(s) /\ ~ftp[s].online /\ ftp[s].user # Null
  /\ \/ ftp' = [ftp EXCEPT ![s].user = Null]
     \/ /\ ftp[s].user # Unknown
        /\ LET i == RealDir(aliases, users[ftp[s].user].groups, Root) IN
           ftp' = [ftp EXCEPT
             ![s].online = TRUE, ![s].access = i,
             ![s].path = IF i = 0 THEN @ ELSE aliases[i].alias,
             ![s].cd = IF i = 0 THEN @ ELSE aliases[i].path,
             ![s].moved = TRUE]
  /\ UNCHANGED <<Lists, Tree>>

(* REIN: the alias stays where it was. *)
ReinCommand(s) ==
  /\ MayRun(s, {})
  /\ ftp' = [ftp EXCEPT ![s].user = Null, ![s].path = Nowhere, ![s].cd = <<>>,
                        ![s].filename = <<>>, ![s].online = FALSE, ![s].moved = FALSE]
  /\ UNCHANGED <<Lists, Tree>>

-----------------------------------------------------------------------------
(* Changing the directory *)

Holder(s) == GroupsOf(users, ftp[s].user)
Resolve(s, p) == RealDir(aliases, Holder(s), p)
PlaceOf(s, p) == FilePath(aliases, Resolve(s, p), p)

(* The directory must exist, unless it is one of the virtual ones. *)
EntersKeepingPlace(s, p) ==
  /\ Resolve(s, p) # 0
  /\ PlaceOf(s, p) \in dirs \cup {<<>>}
  /\ ftp' = [ftp EXCEPT ![s].access = Resolve(s, p), ![s].path = p,
                        ![s].filename = <<>>, ![s].moved = TRUE]
Enters(s, p) ==
  /\ Resolve(s, p) # 0
  /\ PlaceOf(s, p) \in dirs \cup {<<>>}
  /\ ftp' = [ftp EXCEPT ![s].access = Resolve(s, p), ![s].path = p,
                        ![s].cd = PlaceOf(s, p), ![s].filename = <<>>, ![s].moved = TRUE]

(* The empty path is no directory: nothing is looked up. *)
EntersNowhere(s) ==
  ftp' = [ftp EXCEPT ![s].access = Null, ![s].path = Nowhere, ![s].cd = <<>>,
                     ![s].filename = <<>>, ![s].moved = TRUE]

CdupCommand(s) ==
  /\ MayRun(s, {})
  /\ IF ftp[s].path = Nowhere THEN EntersNowhere(s) ELSE Enters(s, Parent(ftp[s].path))
  /\ UNCHANGED <<Lists, Tree>>

(* CWD: ".." and "/" are both answered like CDUP. *)
CwdCommand(s) ==
  /\ MayRun(s, {})
  /\ \E a \in Args \ {Up, Absolute(<<>>)} :
       \E p \in AddPath(ftp[s].path, a) :
         IF p = Nowhere THEN EntersNowhere(s) ELSE Enters(s, p)
  /\ UNCHANGED <<Lists, Tree>>

-----------------------------------------------------------------------------
(* Files.  A command that real_dir(), the rights in the alias or the file
   system refuse changes nothing. *)

Holds(d, p) == StartsWith(d, p)
Exists(p) == p \in dirs \cup files

(* The right n in the alias that holds the path p. *)
GrantedAnywhere(s, p, n) == Resolve(s, p) # 0
Granted(s, p, n) ==
  Resolve(s, p) # 0 /\ Holder(s) \cap Rights(aliases[Resolve(s, p)], n) # {}

(* The file system's part: only in a directory that exists. *)
CanMake(p) == p \in Places /\ ~Exists(p) /\ Parent(p) \in dirs
Empty(p) == \A q \in dirs \cup files : Holds(p, q) => q = p

DeleCommand(s) ==
  /\ MayRun(s, {"delete"})
  /\ \E a \in Args : \E p \in AddPath(ftp[s].path, a) :
       /\ Granted(s, p, "delete")
       /\ PlaceOf(s, p) \in files
       /\ files' = files \ {PlaceOf(s, p)}
  /\ UNCHANGED <<Lists, ftp, dirs>>

RmdCommand(s) ==
  /\ MayRun(s, {"delete"})
  /\ \E a \in Args : \E p \in AddPath(ftp[s].path, a) :
       /\ Granted(s, p, "delete")
       /\ PlaceOf(s, p) \in dirs /\ Empty(PlaceOf(s, p))
       /\ Len(PlaceOf(s, p)) > 1
       /\ dirs' = dirs \ {PlaceOf(s, p)}
  /\ UNCHANGED <<Lists, ftp, files>>

MkdCommand(s) ==
  /\ MayRun(s, {"write"})
  /\ \E a \in Args : \E p \in AddPath(ftp[s].path, a) :
       /\ Granted(s, p, "write")
       /\ CanMake(PlaceOf(s, p))
       /\ dirs' = dirs \cup {PlaceOf(s, p)}
  /\ UNCHANGED <<Lists, ftp, files>>

(* The name of a transfer stays in ftpdata.filename until free_data(): for good
   if the file could not be opened. *)
Transferred(s) == ftp' = [ftp EXCEPT ![s].filename = <<>>]
NotOpened(s, a) == ftp' = [ftp EXCEPT ![s].filename = <<a>>]

(* STOR and APPE, with the whole transfer: an existing file may only be replaced
   with the right to delete.  No data connection: nothing but free_data(). *)
StorCommand(s) ==
  /\ MayRun(s, {"write"})
  /\ \E a \in Args : \E p \in AddPath(ftp[s].path, a) :
       /\ Granted(s, p, "write")
       /\ Granted(s, p, "delete") \/ ~Exists(PlaceOf(s, p))
       /\ \/ /\ PlaceOf(s, p) \in files \/ CanMake(PlaceOf(s, p))
             /\ files' = files \cup {PlaceOf(s, p)} /\ Transferred(s)
          \/ UNCHANGED files /\ (Transferred(s) \/ NotOpened(s, a))
  /\ UNCHANGED <<Lists, dirs>>

RetrCommand(s) ==
  /\ MayRun(s, {"read"})
  /\ \E a \in Args : \E p \in AddPath(ftp[s].path, a) :
       /\ Granted(s, p, "read") /\ PlaceOf(s, p) \in files
       /\ Transferred(s) \/ NotOpened(s, a)
  /\ UNCHANGED <<Lists, Tree>>

(* RNFR remembers the argument, whether there is such a file or not. *)
RnfrCommand(s) ==
  /\ MayRun(s, {"delete"})
  /\ \E a \in Args :
       /\ \E p \in AddPath(ftp[s].path, a) : Granted(s, p, "delete")
       /\ ftp' = [ftp EXCEPT ![s].filename = <<a>>]
  /\ UNCHANGED <<Lists, Tree>>

(* The argument in ftpdata.filename; if it is empty, the directory itself. *)
Remembered(s) == IF ftp[s].filename = <<>> THEN Here(<<>>) ELSE ftp[s].filename[1]

Renamed(from, to, S) ==
  {IF Holds(from, q) THEN to \o Rest(from, q) ELSE q : q \in S}

(* RNTO: both names need the right to delete, and none is asked for to write. *)
RntoCommand(s) ==
  /\ MayRun(s, {"delete"})
  /\ \E p \in AddPath(ftp[s].path, Remembered(s)), q \in UNION {AddPart(ftp[s].path, a) : a \in Args} :
       /\ Granted(s, p, "delete") /\ Granted(s, q, "delete")
       /\ \E from \in {PlaceOf(s, p)}, to \in {PlaceOf(s, q)} :
            /\ Exists(from) /\ CanMake(to) /\ Len(from) > 1 /\ ~Holds(from, to)
            /\ from[1] = to[1]
            /\ \A x \in dirs \cup files : Holds(from, x) => to \o Rest(from, x) \in Places
            /\ dirs' = Renamed(from, to, dirs) /\ files' = Renamed(from, to, files)
  /\ UNCHANGED <<Lists, ftp>>

-----------------------------------------------------------------------------
(* The operator: PREFS_List_Func opens a page, and PREFS_Close_Func takes the
   lists of the pages that are open ("Use"), or forgets them ("Cancel"). *)

OpenPage ==
  /\ \E p \in {"users", "paths"} \ pages : pages' = pages \cup {p}
  /\ UNCHANGED <<users, aliases, ftp, Tree>>

Cancel ==
  /\ pages # {} /\ pages' = {}
  /\ UNCHANGED <<users, aliases, ftp, Tree>>

(* GetUsers(): a session stays with the first account of the same name; one
   whose account is gone is told 421, and keeps the freed pointer. *)
SameName(list, name) == {u \in DOMAIN list : list[u].name = name}
First(S) == CHOOSE i \in S : \A j \in S : i <= j

UserKeptAsItIs(list, u) == u
UserKeptByNumber(list, u) == IF u \in DOMAIN list THEN u ELSE Freed
UserKept(list, u) ==
  IF u \in {Null, Unknown, Freed} THEN u
  ELSE LET same == SameName(list, users[u].name) IN IF same = {} THEN Freed ELSE First(same)

(* GetPath(): a session stays with the alias of the same name if that gives
   its account some right. *)
SameAlias(list, a, groups) ==
  {i \in DOMAIN list : list[i].alias = a.alias /\ SomeRight(list[i], groups)}
AliasKeptIfFirst(list, i, groups) ==
  IF i \in {Null, Freed} THEN i
  ELSE LET same == {k \in DOMAIN list : list[k].alias = aliases[i].alias} IN
       IF same = {} THEN Freed
       ELSE IF SomeRight(list[First(same)], groups) THEN First(same) ELSE Freed
AliasKept(list, i, groups) ==
  IF i \in {Null, Freed} THEN i
  ELSE LET same == SameAlias(list, aliases[i], groups) IN IF same = {} THEN Freed ELSE First(same)

(* What the two leave of one session.  The rights of a freed account are read
   from memory that may hold anything. *)
KeptSession(f, userList, aliasList) ==
  LET u == IF "users" \in pages THEN UserKept(userList, f.user) ELSE f.user
      held == IF u \in {Unknown, Freed} THEN SUBSET Groups ELSE {GroupsOf(userList, u)}
      kept == IF "paths" \in pages
              THEN {AliasKept(aliasList, f.access, groups) : groups \in held} ELSE {f.access}
  IN {[f EXCEPT !.user = u, !.access = i, !.moved = FALSE,
                !.quit = f.quit \/ (f.on /\ Freed \in {u, i})] : i \in kept}

Use ==
  /\ pages # {} /\ pages' = {}
  /\ \E userList \in (IF "users" \in pages THEN UserLists ELSE {users}),
        aliasList \in (IF "paths" \in pages THEN AliasLists ELSE {aliases}) :
       /\ users' = userList /\ aliases' = aliasList
       /\ ftp' \in [Sessions -> UNION {KeptSession(ftp[s], userList, aliasList) : s \in Sessions}]
       /\ \A s \in Sessions : ftp'[s] \in KeptSession(ftp[s], userList, aliasList)
  /\ UNCHANGED Tree

-----------------------------------------------------------------------------
Init ==
  /\ users \in UserLists /\ aliases \in AliasLists
  /\ ftp = [s \in Sessions |-> NoSession]
  /\ dirs = StartDirs /\ files = StartFiles /\ pages = {}

Command(s) ==
  \/ UserCommand(s) \/ PassCommand(s) \/ ReinCommand(s) \/ CwdCommand(s) \/ CdupCommand(s)
  \/ DeleCommand(s) \/ RmdCommand(s) \/ MkdCommand(s) \/ StorCommand(s)
  \/ RetrCommand(s) \/ RnfrCommand(s) \/ RntoCommand(s)

Next ==
  \/ \E s \in Sessions : NewFtp(s) \/ FreeFtp(s) \/ Command(s)
  \/ OpenPage \/ Cancel \/ Use

Spec == Init /\ [][Next]_vars

-----------------------------------------------------------------------------
(* Properties *)

Paths == UNION {[1..n -> Names] : n \in 0..2}

(* Types; above all, a session that is still served points to an account and
   an alias of the lists in use, not to entries that GetUsers() and GetPath()
   freed. *)
TypeOK ==
  /\ users \in UserLists /\ aliases \in AliasLists /\ pages \subseteq {"users", "paths"}
  /\ dirs \cup files \subseteq Places \cup StartDirs /\ dirs \cap files = {}
  /\ \A s \in Sessions :
       /\ ftp[s].online => ftp[s].on /\ ftp[s].user # Null
       /\ ftp[s].on /\ ~ftp[s].quit =>
            /\ ftp[s].user \in {Null, Unknown} \cup DOMAIN users
            /\ ftp[s].access \in {Null} \cup DOMAIN aliases

NameOf(list, u) == IF u > 0 THEN list[u].name ELSE "nobody"

(* What "Use" leaves of a session that is not told 421: it still has the account
   it had, and its directory is still the alias it was in, from which that
   account has some right. *)
SessionsKept ==
  [][Use =>
       \A s \in Sessions : ftp[s].on /\ ~ftp'[s].quit =>
         /\ NameOf(users', ftp'[s].user) = NameOf(users, ftp[s].user)
         /\ ftp[s].access # Null /\ "paths" \in pages =>
              /\ aliases'[ftp'[s].access].alias = aliases[ftp[s].access].alias
              /\ ftp[s].user # Unknown =>
                   SomeRight(aliases'[ftp'[s].access], GroupsOf(users', ftp'[s].user))]_vars

(* And nobody else is told: a session whose account is still there (or that has
   none), and has some right from an alias of the same name, stays.  (After USER
   with an unknown name the rights are read at -1.) *)
UnaffectedStay ==
  [][Use =>
       \A s \in Sessions : ftp[s].on /\ ~ftp[s].quit /\ ftp'[s].quit =>
         \/ ftp[s].user = Unknown
         \/ /\ ftp[s].user # Null
            /\ NameOf(users, ftp[s].user) \notin {users'[u].name : u \in DOMAIN users'}
         \/ /\ ftp[s].access # Null
            /\ \A i \in DOMAIN aliases' :
                 aliases'[i].alias = aliases[ftp[s].access].alias =>
                   ~SomeRight(aliases'[i], GroupsOf(users', ftp'[s].user))]_vars

(* The three records of the current directory agree - the alias (whose rights
   decide which commands run), the path (which commands start from) and the
   place (which LIST lists) - from the time the session moved until the
   operator changes the lists or the session its account. *)
DirectoryAgrees ==
  \A s \in Sessions : ftp[s].online /\ ftp[s].moved /\ ~ftp[s].quit =>
    /\ ftp[s].access = Resolve(s, ftp[s].path)
    /\ ftp[s].cd = IF ftp[s].access = Null THEN <<>> ELSE PlaceOf(s, ftp[s].path)

(* A place that an alias maps some path to, for a session, with a right: the
   path ends as the place does. *)
Reaches(s, place, n) ==
  \E i \in DOMAIN aliases, k \in 0..Len(place) :
    LET p == aliases[i].alias \o SubSeq(place, k + 1, Len(place)) IN
    /\ i = Resolve(s, p) /\ FilePath(aliases, i, p) = place
    /\ Holder(s) \cap Rights(aliases[i], n) # {}

(* Files and directories change only where a session that is logged in has the
   right: what is gone was reached with the right to delete, what is new with the
   right to write or, for a rename, to delete.  What a rename takes along counts
   with the directory that holds it. *)
FilesChangeByRight ==
  [][LET gone == (dirs \cup files) \ (dirs' \cup files')
         new == (dirs' \cup files') \ (dirs \cup files)
         top(S) == {x \in S : Parent(x) \notin S}
     IN gone \cup new # {} =>
          \E s \in Sessions :
            /\ ftp[s].online /\ ~ftp[s].quit
            /\ \A x \in top(gone) : Reaches(s, x, "delete")
            /\ \A x \in top(new) : Reaches(s, x, IF gone = {} THEN "write" ELSE "delete")]_vars

(* real_dir() finds the alias with the longest path, wherever it is in the list,
   when none that holds the path is too deep above it.  (The answer does not
   depend on the sessions: the lists are looked at while there is none.) *)
LongestAlias ==
  (\A s \in Sessions : ~ftp[s].on) =>
    \A u \in DOMAIN users, p \in Paths :
      LET groups == users[u].groups
          fits == {i \in DOMAIN aliases : StartsWith(aliases[i].alias, p)}
      IN \A i \in fits :
           /\ \A j \in fits : ~TooDeep(aliases[j], groups, p)
           /\ \A j \in fits \ {i} : Len(aliases[j].alias) < Len(aliases[i].alias)
           => RealDir(aliases, groups, p) = IF SomeRight(aliases[i], groups) THEN i ELSE 0

(* A peer that is logged in keeps the account that PASS accepted. *)
LoginKept ==
  [][\A s \in Sessions : ftp[s].online /\ ftp'[s].online /\ ~ftp'[s].quit =>
       NameOf(users', ftp'[s].user) = NameOf(users, ftp[s].user)]_vars
=============================================================================
