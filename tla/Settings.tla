------------------------------ MODULE Settings ------------------------------
(***************************************************************************)
(* The settings of the server: how the pages of the settings window take   *)
(* them over and give them back (SetX and GetX of ftpd_mui_*.c), how they  *)
(* are written as lines to ENV: and ENVARC: (save_config) and read from    *)
(* ENV: when the program starts (load_config).                             *)
(***************************************************************************)
EXTENDS Integers, SequencesExt

CONSTANTS
  Texts,     \* pages that hold a text: a subset of "closed" .. "goodbye"
  Names, NoName,       \* names of accounts
  Aliases, NoAlias, Root, \* aliases: Root is "/"
  Word, Spaces, \* what the lines of texts are made of: words, and the white space
             \* that makes or ends a line
  Numbers,   \* values of the page "general", all settings of it as one
  Typed,     \* texts that the operator types: sequences of lines
  Started,   \* the settings in the first file
  MaxEdits   \* bound: changes that the operator makes in the window

Pages == {"users", "paths", "general"} \cup Texts

(* struct userdata, struct accessdata, and a line of a text, as its words. *)
AnyName == Names \cup {NoName}
AnyAlias == Aliases \cup {NoAlias}
User == [name : AnyName, access : {0, 1}, sessions : Nat]
Path == [alias : AnyAlias,
         read : {0, 1}, write : {0, 1}, delete : {0, 1}, subdirs : {0, 1}]
Words == Seq(Word)

(* What the settings in force can be: no line of a text is empty. *)
InForce(s) ==
  /\ s = [p \in Pages |-> s[p]]
  /\ s["users"] \in Seq(User) /\ s["paths"] \in Seq(Path) /\ s["general"] \in Numbers
  /\ \A p \in Texts : s[p] \in Seq(Words \ {<<>>})

ASSUME SettingsAssumption ==
  /\ Texts \subseteq {"closed", "greeting", "welcome", "goodbye"}
  /\ Root \in Aliases /\ NoAlias \notin Aliases /\ NoName \notin Names
  /\ {"ftpd", "=", "."} \cup Texts \subseteq Word \ {Spaces} /\ Spaces \in Word
  /\ MaxEdits \in Nat
  /\ Typed \subseteq Seq(Words) /\ InForce(Started)

VARIABLES
  settings, \* the settings in force, by page
  shown,    \* what the pages of the window hold, a sequence of at most one
  env, envarc,       \* the files, as sequences of lines
  written, archived, \* the settings when env and envarc were last written
  open,     \* is the window open?
  edited,   \* pages the operator changed since it was opened
  edits     \* changes so far

vars == <<settings, shown, env, envarc, written, archived, open, edited, edits>>

-----------------------------------------------------------------------------
(* The file.  A line of a text, and a heading, is a sequence of words; a line of
   the section [FTPd] sets a field of the n-th entry of a page. *)

TextLine(words) == [words |-> words, page |-> "none"]
Setting(page, n, field, value) ==
  [words |-> <<"=">>, page |-> page, n |-> n, field |-> field, value |-> value]
Blank == TextLine(<<>>)
Heading(section) == TextLine(<<section>>)

(* save_config() leaves out what load_config() has as the default. *)
Unless(default, line) == IF line.value = default THEN <<>> ELSE <<line>>
SavedUser(n, u) ==
  <<Setting("users", n, "name", u.name)>>
  \o Unless(1, Setting("users", n, "access", u.access))
  \o Unless(1, Setting("users", n, "sessions", u.sessions))
SavedPath(n, a) ==
  <<Setting("paths", n, "alias", a.alias)>>
  \o Unless(0, Setting("paths", n, "read", a.read))
  \o Unless(0, Setting("paths", n, "write", a.write))
  \o Unless(0, Setting("paths", n, "delete", a.delete))
  \o Unless(0, Setting("paths", n, "subdirs", a.subdirs))
SavedText(page, s) ==
  IF page \notin Texts THEN <<>>
  ELSE IF s[page] = <<>> THEN <<>>
  ELSE <<Blank, Heading(page)>> \o [i \in DOMAIN s[page] |-> TextLine(s[page][i])]

Saved(s) ==
  <<Blank, Heading("ftpd"), Setting("general", 1, "value", s["general"])>>
  \o FlattenSeq([n \in DOMAIN s["users"] |-> SavedUser(n, s["users"][n])])
  \o FlattenSeq([n \in DOMAIN s["paths"] |-> SavedPath(n, s["paths"][n])])
  \o SavedText("closed", s) \o SavedText("greeting", s)
  \o SavedText("welcome", s) \o SavedText("goodbye", s)

(* get_user(), get_access(): the entry, a new one if there is none. *)
NewUser == [name |-> NoName, access |-> 1, sessions |-> 1]
NewPath == [alias |-> NoAlias, read |-> 0, write |-> 0, delete |-> 0, subdirs |-> 0]
WithEntry(list, n, new) == IF n \in DOMAIN list THEN list ELSE Append(list, new)

(* An alias gets its slash: there is always one. *)
Slashed(field, value) == IF field = "alias" /\ value = NoAlias THEN Root ELSE value

LoadSetting(s, l) ==
  IF l.page = "general" THEN [s EXCEPT !["general"] = l.value]
  ELSE LET new   == IF l.page = "users" THEN NewUser ELSE NewPath
           list  == WithEntry(s[l.page], l.n, new)
           entry == [list[l.n] EXCEPT ![l.field] = Slashed(l.field, l.value)]
       IN  [s EXCEPT ![l.page] = [list EXCEPT ![l.n] = entry]]

(* load_config() strips the white space at the end of a line. *)
Trimmed(words) ==
  SubSeq(words, 1, Min({n \in 0..Len(words) : \A i \in (n + 1)..Len(words) : words[i] = Spaces}))
IsHeading(words) == \E section \in {"ftpd"} \cup Texts : words = <<section>>

(* load_config(), a line: a blank one ends the section, and a heading is one only
   outside of the sections. *)
LoadLine(st, l) ==
  LET words == Trimmed(l.words)
  IN  IF words = <<>> THEN [st EXCEPT !.loading = "none"]
      ELSE IF st.loading = "none" THEN
        IF IsHeading(words) THEN [st EXCEPT !.loading = words[1]] ELSE st
      ELSE IF st.loading = "ftpd" THEN
        IF l.page = "none" THEN st ELSE [st EXCEPT !.s = LoadSetting(@, l)]
      ELSE [st EXCEPT !.s[st.loading] = Append(@, words)]

Default == [p \in Pages |-> IF p = "general" THEN CHOOSE v \in Numbers : TRUE ELSE <<>>]
Load(file) ==
  LET read[i \in 0..Len(file)] ==
        IF i = 0 THEN [loading |-> "none", s |-> Default]
        ELSE LoadLine(read[i - 1], file[i])
  IN  read[Len(file)].s

-----------------------------------------------------------------------------
(* The pages *)

(* SetX(): SetGoodbye() looks at the wrong text. *)
Set(p) ==
  IF p = "goodbye" /\ "welcome" \in Texts /\ settings["welcome"] = <<>>
  THEN <<>> ELSE settings[p]

(* GetClosed() and the like: an empty line becomes a dot, a line of white space stays
   as it is.  The line end of an empty one is added if the byte before the buffer is no
   line end; where it is one (at J) the dot and the next line become one. *)
DotLineAsItIs(acc, line, joined) ==
  [acc EXCEPT !.lines = Append(@, acc.last \o line), !.last = <<>>]
DotLine(acc, line, joined) ==
  IF line = <<>> /\ joined THEN [acc EXCEPT !.last = Append(@, ".")]
  ELSE [acc EXCEPT !.lines = Append(@, acc.last \o (IF line = <<>> THEN <<".">> ELSE line)),
                   !.last = <<>>]
Got(text, J) ==
  LET got[i \in 0..Len(text)] ==
        IF i = 0 THEN [lines |-> <<>>, last |-> <<>>]
        ELSE DotLine(got[i - 1], text[i], i \in J)
      acc == got[Len(text)]
  IN  IF acc.last = <<>> THEN acc.lines ELSE Append(acc.lines, acc.last)

(* Use and Save: GetX() of every page that was shown since the program began or
   the page was thrown away.  GetUsers() and GetPath() number the entries anew, in
   the order of the page.  J: the blank lines that are joined. *)
BlankLines ==
  UNION {{<<p, i>> : i \in {i \in DOMAIN shown[p][1] : shown[p][1][i] = <<>>}} :
         p \in {p \in Texts : shown[p] # <<>>}}
Get(p, J) ==
  IF shown[p] = <<>> THEN settings[p]
  ELSE IF p \in Texts THEN Got(shown[p][1], {i \in DOMAIN shown[p][1] : <<p, i>> \in J})
  ELSE shown[p][1]

(* MUI: the operator's buttons and fields on a page.  An entry can be removed once
   its name is cleared. *)
UserEdits(list) ==
  {Append(list, [NewUser EXCEPT !.sessions = 0])}
  \cup {[list EXCEPT ![i].name = name] : i \in DOMAIN list, name \in AnyName}
  \cup {[list EXCEPT ![i].access = 1 - @] : i \in DOMAIN list}
  \cup {[list EXCEPT ![i].sessions = k] : i \in DOMAIN list, k \in 0..2}
  \cup {RemoveAt(list, i) : i \in {i \in DOMAIN list : list[i].name = NoName}}
PathEdits(list) ==
  {Append(list, NewPath)}
  \cup {[list EXCEPT ![i].alias = a] : i \in DOMAIN list, a \in AnyAlias}
  \cup {[list EXCEPT ![i][r] = 1 - @] : i \in DOMAIN list,
        r \in {"read", "write", "delete", "subdirs"}}
  \cup {RemoveAt(list, i) : i \in {i \in DOMAIN list : list[i].alias = NoAlias}}
Edits(p) ==
  CASE p = "users" -> UserEdits(shown[p][1])
    [] p = "paths" -> PathEdits(shown[p][1])
    [] p = "general" -> Numbers
    [] p \in Texts -> Typed

-----------------------------------------------------------------------------
OpenWindow ==
  /\ ~open /\ open' = TRUE /\ edited' = {}
  /\ UNCHANGED <<settings, shown, env, envarc, written, archived, edits>>

(* PREFS_List_Func(): a page is built when it is first shown. *)
ShowPage(p) ==
  /\ open /\ shown[p] = <<>>
  /\ shown' = [shown EXCEPT ![p] = <<Set(p)>>]
  /\ UNCHANGED <<settings, env, envarc, written, archived, open, edited, edits>>

Edit(p) ==
  /\ open /\ shown[p] # <<>> /\ edits < MaxEdits
  /\ \E contents \in Edits(p) : shown' = [shown EXCEPT ![p] = <<contents>>]
  /\ edited' = edited \cup {p} /\ edits' = edits + 1
  /\ UNCHANGED <<settings, env, envarc, written, archived, open>>

(* Only these pages are thrown away when the window is closed. *)
DisposedButLast == Pages \ {"goodbye", "welcome"}
Disposed == Pages \ {"goodbye"}

(* PREFS_Close_Func(): Cancel, Use or Save.  A file may fail to open. *)
Close(status) ==
  /\ open /\ open' = FALSE
  /\ IF status = "cancel" THEN UNCHANGED settings
     ELSE \E J \in SUBSET BlankLines : settings' = [p \in Pages |-> Get(p, J)]
  /\ \/ UNCHANGED <<envarc, archived>>
     \/ status = "save" /\ envarc' = Saved(settings') /\ archived' = settings'
  /\ \/ UNCHANGED <<env, written>>
     \/ status # "cancel" /\ env' = Saved(settings') /\ written' = settings'
  /\ shown' = [p \in Pages |-> IF p \in Disposed THEN <<>> ELSE shown[p]]
  /\ UNCHANGED <<edited, edits>>

(* The program is started again. *)
Start ==
  /\ settings' = Load(env)
  /\ shown' = [p \in Pages |-> <<>>] /\ open' = FALSE /\ edited' = {}
  /\ UNCHANGED <<env, envarc, written, archived, edits>>

(* The machine is: the system copies ENVARC: to ENV:. *)
Reboot ==
  /\ env' = envarc /\ written' = archived
  /\ settings' = Load(envarc)
  /\ shown' = [p \in Pages |-> <<>>] /\ open' = FALSE /\ edited' = {}
  /\ UNCHANGED <<envarc, archived, edits>>

Init ==
  /\ settings = Started /\ written = Started /\ archived = Started
  /\ env = Saved(Started) /\ envarc = Saved(Started)
  /\ shown = [p \in Pages |-> <<>>] /\ open = FALSE /\ edited = {} /\ edits = 0

Next ==
  \/ OpenWindow
  \/ \E p \in Pages : ShowPage(p) \/ Edit(p)
  \/ \E status \in {"cancel", "use", "save"} : Close(status)
  \/ Start \/ Reboot

Spec == Init /\ [][Next]_vars

-----------------------------------------------------------------------------
(* Properties *)

(* An entry that was saved without its alias comes back as that of "/". *)
Rooted(s) ==
  LET list == s["paths"]
  IN  [s EXCEPT !["paths"] =
         [n \in DOMAIN list |-> [list[n] EXCEPT !.alias = Slashed("alias", @)]]]

(* A text that was saved comes back as far as its first line of white space, which
   ends the section, and without the white space at the ends of its lines. *)
IsSpace(line) == line # <<>> /\ Trimmed(line) = <<>>
Cut(text) ==
  LET ends == {i \in DOMAIN text : IsSpace(text[i])}
      n == IF ends = {} THEN Len(text) ELSE Min(ends) - 1
  IN  [i \in 1..n |-> Trimmed(text[i])]
Restored(s) == [p \in Pages |-> IF p \in Texts THEN Cut(s[p]) ELSE Rooted(s)[p]]

(* No text has a heading behind a line of white space. *)
HeadingBehind(text) ==
  \E i, j \in DOMAIN text : i < j /\ IsSpace(text[i]) /\ IsHeading(Trimmed(text[j]))
Plain(s) == \A p \in Texts : ~HeadingBehind(s[p])

(* What Use and Save wrote is what the next start, or the next boot, gives back: no
   setting is lost because it was not written, no text because one of its lines is
   empty or looks like a heading.  What a line of white space cuts off is all that
   is lost (save_config(), load_config(), GetX()). *)
RestartKeeps ==
  /\ Plain(written) => Load(env) = Restored(written)
  /\ Plain(archived) => Load(envarc) = Restored(archived)

(* The same without the loss: a line of white space breaks it. *)
NothingLost == Load(env) = Rooted(written) /\ Load(envarc) = Rooted(archived)

(* A setting changes only with a page that the operator has changed since the
   window was opened: Cancel forgets, and what a page was not asked to change it
   gives back as it took it.  The page of the goodbye text does neither. *)
EditedOnly ==
  [][(\E status \in {"cancel", "use", "save"} : Close(status)) =>
       \A p \in Pages \ {"goodbye"} : settings'[p] # settings[p] => p \in edited]_vars
=============================================================================
