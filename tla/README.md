# RC-FTPd: specifications, model checks and proofs

RC-FTPd is an FTP server for AmigaOS with a MUI console. The specifications here
are translated from its C source (`src/src`); line numbers below are of files in
that directory. One task runs everything: a select loop accepts connections,
reads commands, moves data, and lets the console's hooks and ARexx commands run
between two passes. There are no threads, so a handler is one step. What can be
interleaved is the handlers of several peers, the events of their sockets, the
console, the idle timeout, and the file system, which serves one asynchronous
packet per open file.

## 1. Inventory

| Part | Source | State | Operations | What makes it correct |
|---|---|---|---|---|
| Reply queue, control output | `ftpd.c` 1175-1306, every caller of `output()` | `ftpdata.output`, FLAG_QUIET, FLAG_QUIT | `output`, `sendfile`, `write_to_control` | replies complete, in order, one code per multi-line reply; none blocked |
| Sessions and logins | `ftpd.c` 858-966, 1107-1139; `ftpd_cmds.c` 222-332, 1083 | `ftp_list`, `opencount`, `open`, `user`, `flags` | accept, free, USER, PASS, REIN, QUIT, kick, timeout | limits hold, nobody is online without an account, who quits leaves |
| Data connections and transfers | `ftpd.c` 786-853, 1311-1378, 1424-1571; `ftpd_cmds.c` 129-171, 433-830, 986 | `data`, `pdata`, `file`, `filename`, `start`, SEND/RECV/LIST/CONNECTED | PORT, PASV, RETR, STOR, APPE, LIST, NLST, ABOR, accept, end of data, exception | descriptors owned once, open files watched, ends answered, listings deleted |
| Asynchronous files | `asyncio.c`, `ftpd.c` 332-385 | `AsyncFile` and its packet | `OpenAsync`, `ReadAsync`, `WriteAsync`, `SeekAsync`, `CloseAsync` | the bytes of a file in order, buffers not shared with the file system |
| Control input | `ftpd.c` 999-1171 | `input`, `command`, `args` | `read_from_control` | every command run once, in order, whatever pieces it comes in |
| Virtual paths and files | `ftpd_cmds.c` 53-127, 334-418, 707-756, 832-1081 | `path`, `cd`, `access`, `filename`, `access_list` | CWD, CDUP, DELE, MKD, RMD, RNFR, RNTO, STOR, APPE, RETR, MDTM, SIZE | the three records of the directory agree; files change only where the account has the right |
| Lists under running sessions | `ftpd_mui_user.c` 69-100, `ftpd_mui_path.c` 66-100 | pointers `user`, `access` of each session | `GetUsers`, `GetPath` | no session keeps a freed entry or gets another account |
| Bandwidth, idle timeout | `ftpd.c` 1311-1378, 1418-1474 | `maxcps`, `my_cps`, `xfer`, `started` | each pass of the loop, each chunk | nobody starves, the limit holds, who idles is told |
| Statistics, clock | `ftpd.c` 388-398, 731-752, 799-826 | `stats`, `started` | `timer`, averages in `free_data` | the clock is right over midnight, averages stay averages |
| Settings | `ftpd.c` 409-729; `ftpd_mui_prefs.c`, `ftpd_mui_general.c`, the four text pages | lists, texts, the files in ENV: and ENVARC: | load, save, pages, Use, Save, Cancel | what was written comes back; only what was edited changes |
| Console and ARexx | `ftpd_mui.c`, `ftpd_mui_arexx.c`, `ftpd_mui_snoop.c` | windows | kick, abort, message, open/close, queries | act on sessions that exist |

Interactions: handlers call `output()` and `free_data()`; `free_data()` calls
the file layer, the statistics and `real_dir()`; the select loop calls the
handlers; the console calls `output()` and `free_data()` and sets FLAG_QUIT.
Nothing but the flags and the reply queue connects a kick or a QUIT with the
end of the session, and nothing but FLAG_CONNECTED and the two descriptors
connects an open file with the socket that moves it.

Hard parts: the order of replies of unrelated causes; flags that outlive the
operation that set them; descriptor numbers that are used again; calls that fail
half-way; the file layer's four counters that only together give a position; a C
string that a call leaves half-written for the next; pointers into lists that
the operator replaces.

## 2. Modules

`Replies` - the output queue of one control connection. `queue` is the list of
`outdata`, each line reduced to its code and whether `-` follows it; the code 0
is the placeholder `000-` of text that waits for the next numbered reply.
`Numbered`, `HeldText` and `Raw` are the three forms of `output()`. There is an
action for each kind of caller (a plain reply; text before a reply; PASS with its
`-`; QUIT; ABOR with two replies; REIN; FEAT; STAT; the commands that answer
twice; the end of a transfer; console message; kick), and four for
`write_to_control` (enter, one line, a part of a line, leave). `reading` and `due` are the
peer: RFC 765's user process, which takes `NNN-` as the opening of a reply that `NNN ` closes.
The socket does not block, and `write_to_control` removes a line of which `send()` took only
a part (1289). What came of it is `cut`: the line without its end, or less than its code
and the sign behind it. The next line is glued to it (`Joined`), and from then on (`torn`) the
peer cannot count replies any more.

`Server` - all sessions. `ftp[s]` is `struct ftpdata` without its buffers and
texts, `fds` the open data descriptors, `temps` the listing files on disk, `owed`
the sessions that were told 150 and nothing since. One action per handler, event
and console button; `DoFile` and `FreeData` are the functions of that name.
A data connection is `Watched` while the loop may ask for its data; that it is left alone in
a pass without bandwidth for it (1438-1444) is in `Throttle`, and here it may take any
time to be reported.
Refused commands change only the reply queue and are no steps here. What the
network, the disk and the peer decide is a free choice; `Commands` and `Faults`
say what the peers of an instance send and what may fail.

`AsyncFile` - `asyncio.c`: two buffers in one memory `mem`, the packet with its
place (server, file system, port), and the fields `af_*`. A call begins in one step
and goes on in others, because it may wait for the packet and the file system
(external actions `HandlerReads`, `HandlerWrites`, `HandlerFails`) runs
whenever it likes. Each round of the loops in ReadAsync and WriteAsync is a step;
SeekAsync has its three cases. A file that is written is only sought right after
it was opened for appending, when it is at its end already, so SeekAsync's part
for such files is no step.

`Transfer` - extends `AsyncFile` by `do_file`, `write_to_data`,
`read_from_data` and the end of a transfer: the end of the data, ABOR (`CmdAbor`, which
is answered with 226 however much was moved), the console's abort (`Abort`, 426), the end of
the session (`Abort`, no reply). Byte i of a file is the number i, so a byte in the wrong
place is seen at once.

`Stream` - the abstract specification of a transfer: bytes arrive in order, none
twice, none left out, and a download is answered with 226 only when all have
arrived or the peer gave ABOR (`abor`). `Transfer` implements it (property `StreamSpec`, an
`INSTANCE ... WITH` mapping from the descriptor's position, the bytes sent and
the disk to `source` and `moved`). Of uploads it promises the order only; that
they are complete holds while the disk takes every write
(`HealthyUploadComplete`), and not otherwise.

`ControlInput` - `read_from_control()` up to the lookup of the command. `input` is
`ftpdata.input` as the memory it is: `Strlen` looks for its NUL, and what is
behind it stays there. `net` holds what the peer has sent; a call takes any
number of its bytes and ends with a line end (`ReadLine`), before one
(`ReadPiece`) or with the session (`ReadFails`). `parse` is the loop over the line, with
Telnet sequences. A patient peer waits for its answers, a hasty one does not. The
constant `Stale` says whether a piece may end in front of an old byte. Three
peculiarities of the code are in the model: a blank after a verb and the next line
already in the buffer make that line the arguments (1076 skips line ends as
well); blanks at the end of the arguments stay (1090 looks at the NUL); and
complete lines behind the first wait for the peer's next bytes (1092).

`VirtualPath` - `add_path()` and `real_dir()` as operators. A path is the sequence
of its names; `Nowhere` is the empty string, at which `add_path` reads the byte
before it. `Lookup` is the loop over the aliases, with its reset when a longer alias
may not be used so deep.

`Directories` - sessions on top of it: USER, PASS, REIN, CWD, CDUP, the file
commands, on a tree of directories and files, and the operator's pages with
`GetUsers` and `GetPath`. A pointer into a list is the number of the entry, -1
the value that `cmd_user` stores for an unknown name, -2 an entry that was freed.
RNTO asks for the right to delete and not for that to write, and takes whatever
`filename` holds (it stays after a transfer that could not be opened).
A transfer is one step. One session is enough for a run, as sessions do not touch each
other's records and the tree changes in the same way for one session that logs in
again.

`Throttle` - the select loop as a sequence of passes: `Pass` computes `my_cps`,
chooses the data connections to watch (with the counts as they were before), lets seconds
go by and marks sessions that idle for too long; then each session is looked at
once. `read_from_data` receives without regard to the limit it computed
(1319), which the bound of `WithinLimit` counts in (`Excess`).

`Statistics` - `timer()` and the running averages, as operators.

`Settings` - the settings window and the files. A page is built when it is first
shown (`Set`), taken over by Use and Save (`Get`), and thrown away when the window
is closed, but for the goodbye text (`ftpd_mui_prefs.c` 105 stops at 6). The file is
a sequence of lines, `Saved` what `save_config` writes, in its order, and `Load` what
`load_config` reads, line by line. GetX looks at the byte before its buffer for a blank line
(`ftpd_mui_goodbye.c` 48): the set `J` of `Close` holds the lines where that byte
is a line end. A line of a text is a sequence of words, and one of the words is white space
(`Spaces`): GetX leaves a line of it alone, `load_config` strips the end of every line
(`Trimmed`) and takes one that is empty then for the end of the section. The lines behind
it are in no section, unless one looks like a heading.

How they meet. `Replies` and `Server`: every setting of FLAG_QUIT queues a sendable
line (`QuitGetsWritten`), which is why `Server` may free a quitting session as soon as
its socket is writable (`WriteGoodbye`). `ControlInput` ends where `MayRun` of `Server` and
`Directories` begins. `Throttle` decides when the step that `Transfer` models
(`WriteToData`, `ReadFromData`) happens. `Settings` says what the lists may be that
`Directories` replaces.

`Replies_proofs`, `Server_proofs`, `Transfer_proofs`, `Throttle_proofs` (with the theorems
about `Statistics`), `Directories_proofs`, `ControlInput_proofs` and `Settings_proofs` hold
the theorems, `NatRecursion` what the last three need of numbers and recursion; the modules
named MC... are the instances for TLC.

Some operators have a variant with a name of its own above them
(`ClaimHeadOnly` above `Claim`): the same definition with the slip the property
is meant to exclude. `PROJECT.json` pairs each with the property it breaks.

## 3. Runs

| Run | Checks | Result |
|---|---|---|
| `replies` | `TypeOK`, `NoBlockedReply`, `RepliesAreClosed`, `RepliesMatchCommands`, `QuitGetsWritten`, `RepliesDelivered` | hold; `RepliesAreClosed` and `RepliesMatchCommands` speak of sessions in which every line went out whole |
| `server_login` | `CountMatches`, `SessionLimit` | hold |
| `server_transfer` | `TransferWatched`, `FlagsDescribeFile`, `TransferAnswered`, `ListingsDeleted`, `KickedLeaves` | hold without REIN, USER while online, and faults |
| `server_faults` | `TypeOK`, `AccountPresent`, `DescriptorsOwned`, `TransferUndisturbed` | hold with REIN and every fault |
| `transfer` | `TypeOK`, `BuffersApart`, `SentInOrder`, `DiskInOrder`, `HealthyUploadComplete`, `StreamSpec`, `CallsReturn` | hold |
| `input` | `TypeOK`, `CommandsInOrder`, `PatientPeerStays`, `PatientPeerHeard`, `PatientPeerServed` | hold while no piece ends in front of an old byte |
| `directories` | `TypeOK`, `DirectoryAgrees`, `LongestAlias`, `SessionsKept`, `UnaffectedStay`, `FilesChangeByRight` | hold |
| `throttle` | `WithinLimit`, `TransfersMove`, `IdleTold` | hold |
| `settings` | `RestartKeeps`, `EditedOnly` | hold; `RestartKeeps` lets a text end at a line of white space, `EditedOnly` is for all pages but the goodbye text |
| `replies_torn` | `RepliesClose` | violated: a line that `send()` took in part is not sent again, and the closing line of a reply is lost |
| `transfer_end` | `SentInOrder` when the last chunk is sent in parts | violated: the download repeats earlier bytes |
| `input_pieces` | `CommandsInOrder` when a piece may end in front of an old byte | violated: old bytes get into a command |

The violated properties quote what the RFCs in `src/doc/rfc` or the autodoc of
asyncio say; `PROJECT.json` names the lines ("findings").

Further disagreements have no run of their own; each is seen when the constant or
property named is put into the configuration of the module.

- `OnePerCommand = TRUE`, `RepliesMatchCommands`: STAT answers five times, PORT
  with a LAN address and RETR or LIST of a refused path twice, where RFC 765 (2609-2613)
  has one primary reply.
- `UserAgain = TRUE`, `LoginKept`: USER of a session that is online changes its account, and
  the rights with it, before any password is given (`ftpd_cmds.c` 262; RFC 765, 1257-1261, has
  the login begin again).
- `NothingLost`: a text with a line of spaces loses what is behind it. GetX puts a dot on
  empty lines only (`ftpd_mui_goodbye.c` 47), and `load_config` strips the spaces and takes the
  line for the end of the section (`ftpd.c` 626-629).
- `FeatOverHeld = TRUE`, `NoBlockedReply`: FEAT's raw lines do not claim a console
  message that is held, and the reply stays behind it until another command comes
  (ftpd.Guide 266-267 promises the message with the next command).
- `Faults` with a full disk or an exception, `TransferAnswered`: the transfer ends
  without a second reply (`ftpd.c` 1322, 1533).
- `Faults` with an open that fails, `FlagsDescribeFile`: FLAG_SEND or FLAG_RECV
  stays set and the next transfer runs with both (`ftpd_cmds.c` 139).
- `Commands` with REIN, `ReinIsFresh`: the data connections and the restart
  offset of the last user stay (`ftpd_cmds.c` 1089).
- `NoDescriptorLost`: a second PORT overwrites the descriptor of the first
  (`ftpd_cmds.c` 681).
- `Troubles` with a full disk, `UploadComplete`: 226 for a file without its last
  buffer (`ftpd.c` 348).
- `Troubles <- BusyAndFailing`, `SentInOrder`: a read-ahead packet that failed
  makes SeekAsync return -1, `SeekRelative` ignores it, and the rest of the chunk
  is skipped before the error ends the download with 426.
- `EditedOnly` over all pages: the goodbye page is neither thrown away by Cancel nor
  filled in when there is no welcome text (`SetGoodbye` tests `welcome`), so that
  Use brings back what was cancelled or erases the text.
- `Limits` with one byte for two transfers, `TransfersMove`: the share is 0 and no
  data connection is watched (`ftpd.c` 1421, 1440).
- `KickedServed = TRUE`, `TypeOK` of `Directories`: a session that was told 421
  keeps a pointer to the freed account until it is freed itself, and no run lets it
  give a command in between. The select loop writes first, so this takes a session
  whose control connection is readable and not writable.

Bounds. `replies`: texts of up to two lines (one is not enough to leave a line
behind), a queue of 11 lines, which holds two held texts, the longest reply and one
more; a handler does not run when its lines might not fit. Lines are torn in queues of up to
9 (`MaxTorn`), and once one was, handlers run while their lines fit in 9: that holds every kind
of reply still, and a session's first torn line breaks it already. `server_login`: four
peers, two at each of two addresses, an account with a password and one without, both
with a limit of one, three connections: each limit can be reached by the wrong peer
first. `server_transfer` and `server_faults`: two sessions, because descriptors and
listings are the only things that sessions share, with three and two descriptors, so
that numbers run out and are used again. `transfer`: blocks of 2 bytes, buffers of
2 blocks, files of up to 9 bytes (more than both buffers), offsets up to one block
past the end, chunks up to 5 bytes (more than a buffer, as 8192 is more than 4096),
uploads up to 13 bytes. A file meets either partial sends or failing I/O. `input`: two
commands in a session (the second meets what the first left), three different ones of
1 to 5 letters (4 are kept), with or without Telnet negotiation, an input of 11 bytes:
the longest command with negotiation has 10, two commands exceed it. `directories`: two accounts, at most
three aliases in four lists - in either order, without "/", and with an alias that
gives no rights, so that names are found again at other places - paths of up to two names,
which is what the right to subdirectories tells apart. `throttle`: two transfers share a
limit of 2, chunks of 1 or 2 bytes, files of 3, the loop up to 2 seconds late with a
timeout of 1. `settings`: two changes, since the hazards are one change and what other pages make
of it; the texts welcome and goodbye, with blank lines first and in the middle, a
line that looks like a heading, a line of white space with a line behind it, and white space
at the end of a line; `Word` is the set of words that lines are made of.

Fairness. `replies`: the loop runs at least once a second (the timeout of
WaitSelect) and asks for writability while something sendable is queued; that a
writable socket is reported assumes a peer that reads, and a line counts as sent when `send()`
took it or a part of it (weak fairness of `SendLine \/ SendPart`). `server_transfer`: the same for
each session that is to quit. `transfer`: the file system answers in the end,
however often it fails (strong fairness of its success), and the server, once in a
call, goes on. `input`: what was sent arrives, and the loop reads what has
arrived. `throttle`: seconds go by (weak fairness of a pass that begins one), and a
connection that is watched again and again is ready at last, data and control connections
alike (strong fairness of `Move` and `Written`, as a pass may come between). Nothing is
assumed of commands or the console.

Deadlock is checked in every run but those of `Directories`: there a state in which
nothing changes any more is nothing wrong.

## 4. Theorems

All but those about `Statistics` are about every behaviour of the specification, for every
value of the constants that their assumptions allow: invariants, action properties
(`TransfersAreUndisturbed`, `UseKeepsSessions`, `UseSparesOthers`, `ChangedByRight`,
`LoginKeptButForUser`, `OnlyEditedChange`) and a refinement (`TransferIsStream`). Every
safety property of a passing run is stated by one of them. Where a theorem assumes something of a
constant that stands for what peers or faults do (`Commands`, `Faults`, `Stale`, ...), the
code breaks the property without it, or may (`KickedServed`); section 3 shows how.

`Replies_proofs` (assumption: FEAT is not sent over held text). The
inductive invariant adds three things to the properties: held lines are only at
the tail of the queue (`HeldAtTail`), each opening line in the queue has its closing
line behind it (`Bracketed`), and so does the reply that the peer is inside
(`HasCloser`). Without the first a numbered reply could stand behind a
placeholder; without the others nothing says that a line sent will be closed.
`TypeCorrect`, `HeldTextBlocksNothing`, `MultiLineRepliesClose`,
`QuittingSessionsAreWoken` follow. The lemmas say what `Claim`, `Repeat` and the three forms of
`output()` preserve. `MultiLineRepliesClose` and `RepliesAreCounted` are about sessions in which
`send()` took every line whole (`~torn`), which the server does not see to: run
`replies_torn`. The others hold with torn lines too.
`RepliesAreCounted` assumes further that no command is one of those that answer twice
(`OnePerCommand`). Its invariant `CountInv` goes on from the first one: what is `due` is the number of
closing lines in the queue (`Pending`), no opening line comes before the end of the reply in
front of it (`Ordered`), and the first closing line is that of the reply the peer is inside. A reply
that is queued adds one, a line that is read takes away one or opens what it will close.

`Server_proofs`. The invariant is a conjunction over sessions of what holds of one
struct (`StructOK`) and of what relates the sessions (`opencount`, the descriptors).
`TypeCorrect`, `SessionsAreCounted` and `DescriptorsAreOwned` need no assumption;
`AccountsArePresent` assumes that no peer sends USER while it is online,
`TransfersAreWatched` that none sends REIN: with them the code breaks the property.
The proofs have one step per action; lemmas on `FreeData`, `DoFile`, and on
changing one struct carry them.

Its second part is on logins. `LimitsAreKept` assumes that nobody gives USER while online. Every step but
PASS leaves at most the logins there were (`NoNewLogin`), and PASS counts all the
sessions that gave the name, which are more than those logged in; so no order of USER and
PASS of several peers gets past the limit.

Its third part is on transfers. `StepShape` sorts every step by what it does to a transfer: it ends,
begins, fails to begin or goes on. From it follow `FlagsDescribeFiles`,
`ListingsAreDeleted`, `TransfersAreAnswered` and `TransfersAreUndisturbed`. Each assumes only the
faults away that really break it - "open" for the flags, "open" and "lock" for the
listings, "disk" and "exception" for the answers, nothing for the last - and none
needs REIN excluded, which the run `server_transfer` does for all of them. `FlagsOK`
strengthens the first: a session without a file has no flag of a transfer set.

`Transfer_proofs`. `TypeCorrect` and `BuffersStayApart` hold for every size of the
buffers, blocks, files and chunks and for every trouble; the only assumptions are
those of the constants (a buffer is a whole number of blocks). The inductive invariant
`ShapeInv` says where the current bytes are (`ReadShape`: in the buffer that is not the
current one; `WriteShape`: in the current one), that the position which follows from
the four counters is never negative - else a seek could leave the file in front -
and what the call under way and the stage of the transfer say of each other. The
properties alone are not inductive: a seek back by more than what was read would
leave the buffer. The longest part is SeekAsync, one lemma for each of its three cases.

Its second part goes on from `ShapeInv` to the bytes. For an upload, `UploadInv` says
which bytes are in each of the four places between the peer and the disk - the file, the
packet's buffer (`PacketData`), the current one (`CollectedData`), the caller's
(`CallerData`) - and that together they are all that was received (`AllThere`), unless an
error was given up; then nothing more is written (`Broke`). `UploadsInOrder` and
`HealthyUploadsComplete` follow, for every trouble. For a download, `DownloadInv` says that
the current buffer (`Window`), the packet read ahead (`ReadAhead`) and the chunk in the
caller's hands (`Chunk`) hold the bytes of their positions, and that the caller is where the
peer is (`InStep`), or past the end, where nothing is sent any more. The window includes the
bytes before `af_Offset`, since a seek back takes them again. `DownloadsInOrder` and
`TransferIsStream` assume `Steady`: no connection takes only a part of the last chunk of a
file, or of a chunk while packets of the file fail. These are the two cases in which the
code breaks the property (run `transfer_end`, and the entry on `BusyAndFailing` in section 3);
everything else may happen. For the refinement, `EndInv` adds
where the end of the file has been seen, so that 226 comes only there, and `Streaming` that
the source and what has arrived are stretches of the same bytes with the same beginning. A 226
that answers ABOR promises nothing of the bytes. There is one
lemma for each action of `Stream`, all other steps stutter.

`Throttle_proofs`. `LimitKept` says that the transfers together stay within maxcps
in a second, but for the rest of a chunk each, for every number of sessions, every
set of limits and every delay of the loop. The property is not inductive; `Kept`
adds that while nothing changes `my_cps` is still the share of the transfers there
are, and that a transfer that is watched has not used its part up. `TypeCorrect` is
the other part of the invariant. The arithmetic is in lemmas (`ShareFits`, and what
`range` returns).

Its last part is about `Statistics`. `TimerExact`: `timer()` is right over midnight if less than a day has passed.
`TimerForgetsDays`: from then on it forgets whole days, unless the time of day is
earlier than at the start; a transfer of more than a day is measured too fast.
`AverageBetween`: the new average lies between the old one and the new speed, as long
as neither the sum nor the counter overflows (the sum is speed times files in 32 bits:
a million bytes per second and 4295 files).

`Directories_proofs`. Two invariants. `SessionInv`: a session that is served has no pointer to a
freed entry, and its alias, path and place agree while nothing but CWD, CDUP and PASS has changed
them. It takes in the lists, as an agreement is one with the account and the alias that the
pointers stand for, and `GetUsers` and `GetPath` have to find both again under other numbers.
`TreeInv`: whatever exists is in a directory that exists; without it a rename could leave
files behind for which nobody had the right. `PointersValid`, `DirectoryRecordsAgree` and the action
properties `UseKeepsSessions`, `UseSparesOthers` and `ChangedByRight` follow from them, for every
number of sessions and every sequence of lists. They assume that a session which was told
421 gives no further command (`KickedServed`): one that did would use an entry that was
freed. `LoginKeptButForUser` proves the property that USER of a session that is online breaks (section 3), from
the assumption that no peer sends USER while it is logged in: so nothing else breaks it.
`LongestAliasFound` is about `Lookup` alone and assumes nothing; the lemmas say what its loop has
found after each alias.

`ControlInput_proofs`. `parse` is a loop over a line of any length; `Drives(p, w, q)` says that the
bytes w take it from p to q. Such runs are put one behind the other - negotiation, verb,
blanks, arguments, line end - and the run over a whole line is its parse. `StreamInv` says that
the text in `input` and the bytes under way are together exactly the commands not run yet, behind
a line feed that the last call may have left. It is inductive only with what `input` is
as memory (`TypeInv`: its last byte stays NUL), as the next call looks for the NUL. From it
follow `InputTyped` and `RunInOrder`, for every size of the buffer, every set of commands, every
cut of the stream. `PatientInv` adds that a peer which waits has at most one command under way, and
`PatientKept` that it is never cut off, if each of its lines alone fits (`LinesFit`). With both
invariants, what is in `input` and under way when every command was run is at most that line
feed, and as it is under way nothing is in `input` (`PatientHeard`): the next line finds the
whole buffer. All four assume that no piece ends in front of an old byte (`Stale`), without which the run
`input_pieces` finds `CommandsInOrder` broken.

`Settings_proofs`. `Reads(a, w, b)` says that the lines w take the loop of `load_config` from the
state a to b. From a line to an entry, a list and a section, `LoadSaved` composes what is read
of a whole file: the settings that were saved, an entry without its alias having that of "/"
(`Rooted`), and a text up to its first line of white space (`Cut`). The reason is that a heading is one only outside of the sections, a section ends
only at a line that is blank or all white space, and no text has a blank one (`GotNoBlank`),
since GetX puts a dot there. What stands behind a line of white space is read outside of the
sections and ignored, as long as it does not look like a heading, which `Plain` asks of the text;
if it does, the lines behind it would be read into another text. Even then what is read can be in
force (`LoadedInForce`), which keeps the invariant.
`SettingsInv` says that the files are what `Saved` makes of settings that may be in force, and
that a page which was not edited shows what is in force; GetX gives that back, as it has no
blank line to change (`GotSame`). `SettingsComeBack` and `OnlyEditedChange` follow, for lists and
texts of any length, with no assumption but that on the constants. That a text comes back
whole is not a theorem: a line of spaces breaks it (`NothingLost`, section 3).

`NatRecursion`. Induction over data is out of the provers' reach, as the rule takes an operator. Two
first-order facts take its place: a set of numbers has a least one, and a function defined by
recursion over 0..n exists and is the one that satisfies its equations. With them `Lookup`, `parse`,
`Load` and `Got` are unfolded over lists and lines of any length.

Model-checked only: liveness (`RepliesDelivered`, `KickedLeaves`, `CallsReturn`,
`PatientPeerServed`, `TransfersMove`, `IdleTold`). It rests on fairness, and on which actions are
enabled, which the prover does not reach. The properties that the code breaks (section 3)
are refuted by their runs.

## 5. Not modelled

The repository is mostly not the program: of some 31,800 lines, about 7,760 are its own
code (`src/src`); the rest are the headers and examples of MUI and NList, the contributed
ARexx scripts, and an unfinished rewrite in `doc/new_version_draft` that is not built. Of the
program's own code, the rest is the construction and layout of windows, the message
catalog, formatting of listings and replies, string functions, and the ARexx
queries, none of which keeps state that the properties are about.

- `ftpd_mui.c`, `ftpd_mui_snoop.c`: windows, menus, log windows. The buttons that act on
  sessions are actions of `Server` and `Replies`.
- `ftpd_mui_arexx.c`: queries print; ABORT and KICK call the console's functions.
- The statistics' file and display; the counters of users.
- Backspace and escape in a command line; upper and lower case, colons and doubled
  slashes in paths; MDTM, SIZE, PWD, TYPE, HELP, which change nothing that a
  property is about.
- Of the settings' file: a line of a text that reads like a setting and stands behind a line of
  spaces and a line "ftpd", and the blanks at the end of a name or an alias, which
  `load_config` strips too.
- The settings of the page General are one value; passwords and log levels of
  accounts are left out, as they are saved and loaded like the fields that are there.
- The `file2` path (plain DOS calls) is `Stream` by itself.

In `Server` a struct holds no reply queue, in `Directories` and `Throttle` no queue and no
bytes: `Replies` and `Transfer` have them. The modules are composed by the
statements listed under "How they meet", not in one specification, whose state
space would be the product of theirs.

What would be worth proving next: the statements under "How they meet", each of which relates
properties that are proved in two modules; and that PASV and REST, whose offset
`ftp->start` survives between transfers, leave nothing behind but what section 3 lists.
