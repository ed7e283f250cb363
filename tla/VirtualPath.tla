-------------------------- MODULE VirtualPath --------------------------
(***************************************************************************)
(* The directories that peers see: add_path() and real_dir() of            *)
(* ftpd_cmds.c.  A path "/x/y" is the sequence of its names, an alias maps *)
(* a path to a place on a volume and gives groups of accounts rights in it.*)
(* Upper and lower case, a ':' in a name and doubled slashes are left out  *)
(* (real_dir() answers 501 to both); every alias has a name.               *)
(***************************************************************************)
EXTENDS Integers, Sequences, FiniteSets

CONSTANTS
  Names,    \* names of files and directories
  Volumes,  \* "Work:" and the like: the first element of a place
  Groups    \* access groups 0..15, the bits of the masks

Root == <<>>                    \* the path "/"
Nowhere == <<"nowhere">>        \* ftpdata.path is the empty string
CurrentDir == <<"current_dir">> \* the directory the server was started in

ASSUME PathAssumption ==
  /\ "nowhere" \notin Names /\ "current_dir" \notin Volumes
  /\ Names \cap Volumes = {}

Path == Seq(Names)
Place == {p \in Seq(Names \cup Volumes \cup {"current_dir"}) :
            /\ p # <<>> /\ p[1] \in Volumes \cup {"current_dir"}
            /\ \A i \in 2..Len(p) : p[i] \in Names}

(* An entry of access_list; a directory without a place of its own has none. *)
Alias == [alias : Path, path : Place \cup {<<>>}, read : SUBSET Groups, write : SUBSET Groups,
          delete : SUBSET Groups, subdirs : SUBSET Groups]

(* The argument of a command: a name or names from the current directory on,
   an absolute path, or ":". *)
Here(names) == [from |-> "here", names |-> names]
Absolute(names) == [from |-> "root", names |-> names]
Colon == [from |-> "colon", names |-> <<>>]
Up == Here(<<"..">>)

StartsWith(p, q) == Len(p) <= Len(q) /\ SubSeq(q, 1, Len(p)) = p
Rest(p, q) == SubSeq(q, Len(p) + 1, Len(q))
Parent(p) == IF p = Root THEN Root ELSE SubSeq(p, 1, Len(p) - 1)

(* add_path(to, add).  An empty `to' is read at to[-1], so that the separating
   slash may be missing: then no alias holds the path. *)
AddPath(to, add) ==
  CASE add.from = "root" -> {add.names}
    [] add.from = "colon" -> {IF to = Nowhere THEN Nowhere ELSE Root}
    [] add.from = "here" -> IF to = Nowhere THEN {add.names, Nowhere \o add.names}
                            ELSE {to \o add.names}

(* AddPart() of dos.library as RNTO uses it: an absolute name gives a doubled
   slash behind any path but the empty one. *)
AddPart(to, add) ==
  CASE add.from = "here" -> {IF to = Nowhere THEN Nowhere \o add.names ELSE to \o add.names}
    [] add.from # "here" -> {IF to = Nowhere THEN add.names ELSE Nowhere}

-----------------------------------------------------------------------------
(* real_dir() *)

(* The rights that some group of an account has in an alias. *)
SomeRight(a, groups) == groups \cap (a.read \cup a.write \cup a.delete) # {}

(* More than one name below the alias: only with the right to subdirectories. *)
TooDeep(a, groups, path) == Len(path) - Len(a.alias) >= 2 /\ groups \cap a.subdirs = {}

(* The loop over the list: the longest alias so far, 0 if there is none.  An
   alias that is longer but may not be used that deep puts the loop back to
   no alias at all. *)
LookupShallow(list, groups, path) ==
  LET found[n \in 0..Len(list)] ==
        IF n = 0 THEN 0
        ELSE IF ~StartsWith(list[n].alias, path) THEN found[n - 1]
        ELSE n
  IN found[Len(list)]
Lookup(list, groups, path) ==
  LET found[n \in 0..Len(list)] ==
        IF n = 0 THEN 0
        ELSE IF \/ ~StartsWith(list[n].alias, path)
                \/ found[n - 1] # 0 /\ Len(list[n].alias) <= Len(list[found[n - 1]].alias)
             THEN found[n - 1]
        ELSE IF TooDeep(list[n], groups, path) THEN 0
        ELSE n
  IN found[Len(list)]

(* The number of the alias that holds a path, 0 if real_dir() returns NULL. *)
RealDir(list, groups, path) ==
  IF path # Root /\ Head(path) = "nowhere" THEN 0
  ELSE LET i == Lookup(list, groups, path) IN
       IF i # 0 /\ SomeRight(list[i], groups) THEN i ELSE 0

(* The buffer that real_dir() fills: <<>> for a directory without a place of
   its own, whose names are looked for where the server was started. *)
FilePath(list, i, path) ==
  LET rest == Rest(list[i].alias, path) IN
  IF list[i].path = <<>> /\ rest # <<>> THEN CurrentDir \o rest ELSE list[i].path \o rest
=============================================================================
