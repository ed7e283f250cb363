------------------------- MODULE Settings_proofs -------------------------
(***************************************************************************)
(* What save_config() writes is what load_config() reads, up to what a     *)
(* line of white space cuts off, and only the pages that were edited       *)
(* change: for lists of any length and every text.                         *)
(*                                                                         *)
(* load_config() is a loop over the lines.  Reads(a, w, b) says that the   *)
(* lines w take it from the state a to b; such stretches are put one       *)
(* behind the other (ReadOn, ReadPieces), from the lines of one entry to   *)
(* the whole file (LoadSaved).  Where a text has a heading behind a line   *)
(* of white space, more is said of no text than that what is read can be   *)
(* in force (LoadedInForce).  GetX() is a loop over the lines of a page    *)
(* (Gets): it leaves none blank, and changes nothing where none is.        *)
(***************************************************************************)
EXTENDS Settings, SequenceTheorems, NatRecursion

-----------------------------------------------------------------------------
(* The lines of a file. *)

Value == AnyName \cup AnyAlias \cup Numbers \cup Nat
Fields == {"name", "access", "sessions", "alias", "read", "write", "delete", "subdirs", "value"}
Line ==
  [words : Words, page : {"none"}]
  \cup [words : Words, page : {"users", "paths", "general"}, n : Nat, field : Fields,
        value : Value]

LEMMA LinesAre ==
  /\ \A w \in Words : TextLine(w) \in Line
  /\ Blank \in Line
  /\ \A p \in {"ftpd"} \cup Texts : Heading(p) \in Line
  /\ \A p \in {"users", "paths", "general"}, n \in Nat, f \in Fields, v \in Value :
       Setting(p, n, f, v) \in Line
<1>1. \A w \in Words : TextLine(w) \in Line
  BY DEF TextLine, Line
<1>2. <<>> \in Words /\ \A p \in Word : <<p>> \in Words
  BY DEF Words
<1>3. \A p \in {"ftpd"} \cup Texts : <<p>> \in Words
  BY <1>2, SettingsAssumption
<1>4. <<"=">> \in Words
  BY <1>2, SettingsAssumption
<1>5. \A p \in {"users", "paths", "general"}, n \in Nat, f \in Fields, v \in Value :
        Setting(p, n, f, v) \in Line
  BY <1>4 DEF Setting, Line
<1>6. Blank \in Line
  BY <1>1, <1>2 DEF Blank
<1>7. \A p \in {"ftpd"} \cup Texts : Heading(p) \in Line
  BY <1>1, <1>3 DEF Heading
<1> QED  BY <1>1, <1>5, <1>6, <1>7

(* What is left of a line without the white space at its end. *)
LEMMA TrimmedIs ==
  ASSUME NEW w \in Words
  PROVE  /\ Trimmed(w) \in Words
         /\ w = <<>> => Trimmed(w) = <<>>
         /\ w # <<>> /\ w[Len(w)] # Spaces => Trimmed(w) = w
<1> DEFINE n == Len(w)
           S == {m \in 0..n : \A i \in (m + 1)..n : w[i] = Spaces}
<1>1. n \in Nat /\ w \in Seq(Word)
  BY DEF Words
<1>2. S \in SUBSET Nat /\ n \in S
  BY <1>1
<1>3. Min(S) \in S
  <2> HIDE DEF S
  <2>1. \E m \in S : \A k \in S : m <= k
    BY <1>2, LeastNumber
  <2> QED  BY <2>1 DEF Min
<1>4. Trimmed(w) = SubSeq(w, 1, Min(S))
  BY DEF Trimmed
<1>5. PICK m \in S : Trimmed(w) = SubSeq(w, 1, m)
  BY <1>3, <1>4
<1>6. m \in 0..n /\ \A i \in (m + 1)..n : w[i] = Spaces
  BY <1>5
<1> HIDE DEF S
<1>7. SubSeq(w, 1, m) \in Words
  BY <1>1, <1>6 DEF Words
<1>8. w = <<>> => SubSeq(w, 1, m) = <<>>
  BY <1>6
<1>9. ASSUME w # <<>>, w[n] # Spaces PROVE SubSeq(w, 1, m) = w
  <2>1. m = n
    BY <1>1, <1>6, <1>9
  <2> QED  BY <1>1, <2>1
<1> QED  BY <1>5, <1>7, <1>8, <1>9

LEMMA MarksStay ==
  /\ Trimmed(<<>>) = <<>> /\ Trimmed(<<"=">>) = <<"=">>
  /\ \A p \in {"ftpd"} \cup Texts : Trimmed(<<p>>) = <<p>>
<1>1. <<>> \in Words
  BY DEF Words
<1>2. ASSUME NEW x \in Word \ {Spaces} PROVE Trimmed(<<x>>) = <<x>>
  <2>1. <<x>> \in Words /\ <<x>> # <<>> /\ <<x>>[Len(<<x>>)] # Spaces
    BY DEF Words
  <2> QED  BY <2>1, TrimmedIs
<1>3. "=" \in Word \ {Spaces} /\ \A p \in {"ftpd"} \cup Texts : p \in Word \ {Spaces}
  BY SettingsAssumption
<1> QED  BY <1>1, <1>2, <1>3, TrimmedIs

(* Reads(a, w, b): load_config() comes from the state a to b over the lines w. *)

Passes(g, a, w) ==
  /\ g = [i \in 0..Len(w) |-> g[i]]
  /\ g[0] = a
  /\ \A i \in 1..Len(w) : g[i] = LoadLine(g[i - 1], w[i])

Reads(a, w, b) == \E g : Passes(g, a, w) /\ g[Len(w)] = b

St(loading, s) == [loading |-> loading, s |-> s]

LEMMA LoadIs ==
  ASSUME NEW w \in Seq(Line), NEW loading, NEW s, Reads(St("none", Default), w, St(loading, s))
  PROVE  Load(w) = s
<1> DEFINE n == Len(w)
           Body(f) == [i \in 0..n |->
             IF i = 0 THEN [loading |-> "none", s |-> Default] ELSE LoadLine(f[i - 1], w[i])]
           F == CHOOSE f : f = Body(f)
<1>0. n \in Nat
  OBVIOUS
<1>1. PICK g : Passes(g, St("none", Default), w) /\ g[n] = St(loading, s)
  BY DEF Reads
<1>2. g = Body(g)
  <2>1. DOMAIN g = 0..n /\ g = [i \in 0..n |-> g[i]]
    BY <1>1 DEF Passes
  <2>2. ASSUME NEW i \in 0..n PROVE g[i] = Body(g)[i]
    <3>1. CASE i = 0
      BY <1>1, <3>1 DEF Passes, St
    <3>2. CASE i # 0
      <4>1. i \in 1..n
        BY <1>0, <3>2
      <4>2. g[i] = LoadLine(g[i - 1], w[i])
        BY <1>1, <4>1 DEF Passes
      <4> QED  BY <3>2, <4>2
    <3> QED  BY <3>1, <3>2
  <2> QED  BY <2>1, <2>2
<1>3. F = Body(F)
  BY <1>2
<1>4. Load(w) = F[n].s
  BY DEF Load
<1>5. \A i \in 0..n : F[i] = Body(F)[i]
  BY <1>3
<1> HIDE DEF F
<1>6. F[0] = St("none", Default) /\ \A i \in 1..n : F[i] = LoadLine(F[i - 1], w[i])
  BY <1>0, <1>5 DEF St
<1> DEFINE S == {i \in 0..n : F[i] = g[i]}
<1>7. 0 \in S
  BY <1>0, <1>1, <1>6 DEF Passes
<1>8. ASSUME NEW k \in 1..n, k - 1 \in S PROVE k \in S
  <2>1. k \in 0..n /\ F[k - 1] = g[k - 1]
    BY <1>8
  <2>2. g[k] = LoadLine(g[k - 1], w[k]) /\ F[k] = LoadLine(F[k - 1], w[k])
    BY <1>1, <1>6 DEF Passes
  <2>3. F[k] = g[k]
    BY <2>1, <2>2, Zenon
  <2> QED  BY <2>1, <2>3
<1>9. n \in S
  <2> HIDE DEF S
  <2>1. 0..n \subseteq S
    BY <1>0, <1>7, <1>8, InductionUpTo
  <2> QED  BY <1>0, <2>1
<1> QED  BY <1>1, <1>4, <1>9 DEF St

(* The blank line ends a section, and a heading begins one. *)
LEMMA SectionsBegin ==
  ASSUME NEW loading, NEW s
  PROVE  /\ LoadLine(St(loading, s), Blank) = St("none", s)
         /\ \A p \in {"ftpd"} \cup Texts : LoadLine(St("none", s), Heading(p)) = St(p, s)
<1>1. LoadLine(St(loading, s), Blank) = St("none", s)
  BY MarksStay DEF LoadLine, St, Blank, TextLine
<1>2. ASSUME NEW p \in {"ftpd"} \cup Texts
      PROVE  LoadLine(St("none", s), Heading(p)) = St(p, s)
  <2>1. Heading(p).words = <<p>> /\ Trimmed(<<p>>) = <<p>> /\ <<p>> # <<>> /\ <<p>>[1] = p
    BY MarksStay DEF Heading, TextLine
  <2>2. IsHeading(<<p>>)
    BY DEF IsHeading
  <2> QED  BY <2>1, <2>2 DEF LoadLine, St
<1> QED  BY <1>1, <1>2

(* Nothing, a line, and what comes behind. *)
LEMMA ReadNothing ==
  ASSUME NEW a
  PROVE  Reads(a, <<>>, a)
<1>1. Passes([i \in 0..0 |-> a], a, <<>>)
  BY DEF Passes
<1> QED  BY <1>1 DEF Reads

LEMMA ReadLine ==
  ASSUME NEW a, NEW l
  PROVE  Reads(a, <<l>>, LoadLine(a, l))
<1> DEFINE b == LoadLine(a, l)
           g == [i \in 0..1 |-> IF i = 0 THEN a ELSE b]
<1>1. Len(<<l>>) = 1 /\ <<l>>[1] = l /\ 1..1 = {1}
  OBVIOUS
<1>2. g = [i \in 0..1 |-> g[i]] /\ g[0] = a /\ g[1] = b
  OBVIOUS
<1> HIDE DEF g
<1>3. Passes(g, a, <<l>>)
  BY <1>1, <1>2 DEF Passes
<1> QED  BY <1>1, <1>2, <1>3 DEF Reads

LEMMA ReadOn ==
  ASSUME NEW a, NEW b, NEW c, NEW u \in Seq(Line), NEW w \in Seq(Line),
         Reads(a, u, b), Reads(b, w, c)
  PROVE  Reads(a, u \o w, c)
<1>1. PICK g : Passes(g, a, u) /\ g[Len(u)] = b
  BY DEF Reads
<1>2. PICK h : Passes(h, b, w) /\ h[Len(w)] = c
  BY DEF Reads
<1> DEFINE m == Len(u)
           n == Len(w)
           f == [i \in 0..(m + n) |-> IF i <= m THEN g[i] ELSE h[i - m]]
<1>3. m \in Nat /\ n \in Nat /\ u \o w \in Seq(Line) /\ Len(u \o w) = m + n
      /\ (\A i \in 1..m : (u \o w)[i] = u[i])
      /\ (\A i \in (m + 1)..(m + n) : (u \o w)[i] = w[i - m])
  BY ConcatProperties
<1>4. h[0] = b /\ g[m] = b /\ g[0] = a /\ h[n] = c
  BY <1>1, <1>2 DEF Passes
<1>5. f = [i \in 0..(m + n) |-> f[i]]
      /\ (\A i \in 0..m : f[i] = g[i]) /\ (\A i \in m..(m + n) : f[i] = h[i - m])
  <2> HIDE DEF m, n
  <2>1. \A i \in 0..m : i \in 0..(m + n)
    BY <1>3
  <2>2. \A i \in m..(m + n) : i \in 0..(m + n)
    BY <1>3
  <2>3. \A i \in 0..m : f[i] = g[i]
    BY <1>3, <2>1
  <2>4. ASSUME NEW i \in m..(m + n) PROVE f[i] = h[i - m]
    <3>1. CASE i = m
      BY <1>3, <1>4, <2>2, <3>1
    <3>2. CASE i # m
      BY <1>3, <2>2, <3>2
    <3> QED  BY <3>1, <3>2
  <2> QED  BY <2>3, <2>4
<1> HIDE DEF f
<1>6. ASSUME NEW i \in 1..(m + n) PROVE f[i] = LoadLine(f[i - 1], (u \o w)[i])
  <2>1. CASE i <= m
    <3>1. i \in 1..m /\ i \in 0..m /\ i - 1 \in 0..m
      BY <1>3, <2>1
    <3>2. g[i] = LoadLine(g[i - 1], u[i])
      BY <1>1, <3>1 DEF Passes
    <3> QED  BY <1>3, <1>5, <3>1, <3>2
  <2>2. CASE i > m
    <3>1. i \in (m + 1)..(m + n) /\ i \in m..(m + n) /\ i - 1 \in m..(m + n) /\ i - m \in 1..n
          /\ (i - 1) - m = (i - m) - 1
      BY <1>3, <2>2
    <3>2. h[i - m] = LoadLine(h[(i - m) - 1], w[i - m])
      BY <1>2, <3>1 DEF Passes
    <3>3. f[i] = h[i - m] /\ f[i - 1] = h[(i - m) - 1] /\ (u \o w)[i] = w[i - m]
      BY <1>3, <1>5, <3>1
    <3> QED  BY <3>2, <3>3
  <2> QED  BY <1>3, <2>1, <2>2
<1>7. Passes(f, a, u \o w) /\ f[Len(u \o w)] = c
  <2>1. f[0] = a
    <3>1. 0 \in 0..m
      BY <1>3
    <3> QED  BY <1>4, <1>5, <3>1
  <2>2. f[m + n] = c
    <3>1. m + n \in m..(m + n) /\ (m + n) - m = n
      BY <1>3
    <3> QED  BY <1>4, <1>5, <3>1
  <2> QED  BY <1>3, <1>5, <1>6, <2>1, <2>2 DEF Passes
<1> QED  BY <1>7 DEF Reads

(* The pieces of a file: each leads on from where the one before it led to. *)
Pieces(seqs, n) == seqs = [i \in 1..n |-> seqs[i]] /\ \A i \in 1..n : seqs[i] \in Seq(Line)

LEMMA ReadPieces ==
  ASSUME NEW n \in Nat, NEW seqs, Pieces(seqs, n), NEW st,
         \A i \in 1..n : Reads(st[i - 1], seqs[i], st[i])
  PROVE  FlattenSeq(seqs) \in Seq(Line) /\ Reads(st[0], FlattenSeq(seqs), st[n])
<1> USE DEF Pieces
<1>1. Len(seqs) = n /\ seqs \in Seq(Seq(Line))
  OBVIOUS
<1>2. CASE n = 0
  <2>1. seqs = <<>>
    BY <1>1, <1>2
  <2>2. FlattenSeq(seqs) = <<>>
    BY <1>1, <1>2, <2>1 DEF FlattenSeq
  <2>3. Reads(st[0], <<>>, st[0])
    BY ReadNothing
  <2>4. <<>> \in Seq(Line)
    OBVIOUS
  <2> QED  BY <1>2, <2>2, <2>3, <2>4
<1>3. CASE n # 0
  <2> DEFINE Body(f) == [i \in 1..Len(seqs) |-> IF i = 1 THEN seqs[i] ELSE f[i - 1] \o seqs[i]]
             F == CHOOSE f : f = Body(f)
             step == [x \in Seq(Line) \X (1..n) |-> x[1] \o seqs[x[2]]]
  <2>1. FlattenSeq(seqs) = F[n]
    BY <1>1, <1>3 DEF FlattenSeq
  <2>2. PICK g : Recursive(g, Seq(Line), n, <<>>, step)
    <3>1. step \in [Seq(Line) \X (1..n) -> Seq(Line)]
      BY ConcatProperties
    <3>2. <<>> \in Seq(Line)
      OBVIOUS
    <3> HIDE DEF step
    <3> QED  BY <3>1, <3>2, RecursionUpTo
  <2>3. g \in [0..n -> Seq(Line)] /\ g[0] = <<>> /\ \A i \in 1..n : g[i] = g[i - 1] \o seqs[i]
    <3>1. g \in [0..n -> Seq(Line)] /\ g[0] = <<>>
          /\ \A i \in 1..n : g[i] = step[<<g[i - 1], i>>]
      BY <2>2 DEF Recursive
    <3>2. ASSUME NEW i \in 1..n PROVE g[i] = g[i - 1] \o seqs[i]
      <4>1. i - 1 \in 0..n /\ g[i - 1] \in Seq(Line)
        BY <3>1
      <4>2. step[<<g[i - 1], i>>] = g[i - 1] \o seqs[i]
        BY <4>1
      <4> HIDE DEF step
      <4> QED  BY <3>1, <4>2
    <3> QED  BY <3>1, <3>2
  <2> HIDE DEF step
  <2> DEFINE h == [i \in 1..n |-> g[i]]
  <2>4. h = Body(h)
    <3>1. \A x \in Seq(Line) : <<>> \o x = x
      OBVIOUS
    <3>2. ASSUME NEW i \in 1..n PROVE h[i] = Body(h)[i]
      <4>1. g[i] = g[i - 1] \o seqs[i] /\ seqs[i] \in Seq(Line)
        BY <2>3
      <4>2. CASE i = 1
        <5>1. g[i - 1] = <<>>
          BY <2>3, <4>2
        <5>2. <<>> \o seqs[i] = seqs[i]
          BY <3>1, <4>1
        <5> QED  BY <1>1, <4>1, <4>2, <5>1, <5>2
      <4>3. CASE i # 1
        <5>1. i - 1 \in 1..n
          BY <4>3
        <5> QED  BY <1>1, <4>1, <4>3, <5>1
      <4> QED  BY <4>2, <4>3
    <3> QED  BY <1>1, <3>2
  <2>5. F = Body(F)
    <3> HIDE DEF h
    <3> QED  BY <2>4
  <2>6. \A i \in 1..n : F[i] = IF i = 1 THEN seqs[i] ELSE F[i - 1] \o seqs[i]
    <3>1. \A i \in 1..n : F[i] = Body(F)[i]
      BY <2>5
    <3> HIDE DEF F
    <3> QED  BY <1>1, <3>1
  <2> HIDE DEF F, h
  <2> DEFINE S == {i \in 0..n : i = 0 \/ (F[i] \in Seq(Line) /\ Reads(st[0], F[i], st[i]))}
  <2>7. 0 \in S
    OBVIOUS
  <2>8. ASSUME NEW k \in 1..n, k - 1 \in S PROVE k \in S
    <3>1. seqs[k] \in Seq(Line) /\ Reads(st[k - 1], seqs[k], st[k])
      OBVIOUS
    <3>2. CASE k = 1
      BY <2>6, <3>1, <3>2
    <3>3. CASE k # 1
      <4>0. k - 1 # 0
        BY <3>3
      <4>1. F[k] = F[k - 1] \o seqs[k]
        BY <2>6, <3>3, Zenon
      <4>2. F[k - 1] \in Seq(Line) /\ Reads(st[0], F[k - 1], st[k - 1])
        BY <2>8, <4>0
      <4>3. Reads(st[0], F[k - 1] \o seqs[k], st[k])
        BY <3>1, <4>2, ReadOn
      <4>4. F[k - 1] \o seqs[k] \in Seq(Line)
        BY <3>1, <4>2, ConcatProperties
      <4>5. F[k] \in Seq(Line) /\ Reads(st[0], F[k], st[k])
        BY <4>1, <4>3, <4>4, Zenon
      <4>6. k \in 0..n
        OBVIOUS
      <4> QED  BY <4>5, <4>6
    <3> QED  BY <3>2, <3>3
  <2> HIDE DEF S
  <2>9. n \in S
    <3>1. 0..n \subseteq S
      BY <2>7, <2>8, InductionUpTo
    <3> QED  BY <3>1
  <2> QED  BY <1>3, <2>1, <2>9 DEF S
<1> QED  BY <1>2, <1>3

-----------------------------------------------------------------------------
(* The section [FTPd]: an entry of a list is built up line by line. *)

ByPage(s) == s = [p \in Pages |-> s[p]]
With(s, page, contents) == [s EXCEPT ![page] = contents]

LEMMA WithIs ==
  ASSUME NEW s, ByPage(s), NEW page \in Pages, NEW x
  PROVE  /\ ByPage(With(s, page, x)) /\ With(s, page, x)[page] = x
         /\ \A p \in Pages : p # page => With(s, page, x)[p] = s[p]
         /\ \A y : With(With(s, page, x), page, y) = With(s, page, y)
         /\ With(s, page, s[page]) = s
BY DEF ByPage, With

Put(e, field, value) == [e EXCEPT ![field] = Slashed(field, value)]
New(page) == IF page = "users" THEN NewUser ELSE NewPath

LEMMA LastReplaced ==
  ASSUME NEW E, NEW list \in Seq(E), NEW e \in E, NEW x \in E, NEW n, n = Len(list) + 1
  PROVE  /\ n \in DOMAIN Append(list, e) /\ Append(list, e)[n] = e
         /\ n \notin DOMAIN list
         /\ [Append(list, e) EXCEPT ![n] = x] = Append(list, x)
<1> DEFINE a == Append(list, e)
           b == Append(list, x)
           c == [a EXCEPT ![n] = x]
<1>1. n \in 1..n /\ DOMAIN list = 1..(n - 1) /\ n \notin 1..(n - 1)
  OBVIOUS
<1>2. ASSUME NEW y \in E
      PROVE  LET z == Append(list, y)
             IN  z = [i \in 1..n |-> z[i]] /\ z[n] = y /\ \A i \in 1..n : i # n => z[i] = list[i]
  <2> DEFINE z == Append(list, y)
  <2>1. z \in Seq(E) /\ Len(z) = n /\ z[n] = y /\ \A i \in 1..Len(list) : z[i] = list[i]
    BY AppendProperties
  <2>2. z = [i \in 1..n |-> z[i]]
    <3> HIDE DEF z
    <3> QED  BY <2>1
  <2>3. \A i \in 1..n : i # n => i \in 1..Len(list)
    OBVIOUS
  <2> QED  BY <2>1, <2>2, <2>3
<1>3. /\ a = [i \in 1..n |-> a[i]] /\ a[n] = e /\ \A i \in 1..n : i # n => a[i] = list[i]
      /\ b = [i \in 1..n |-> b[i]] /\ b[n] = x /\ \A i \in 1..n : i # n => b[i] = list[i]
  BY <1>2
<1> HIDE DEF a, b
<1>4. DOMAIN c = 1..n /\ c = [i \in 1..n |-> c[i]] /\ \A i \in 1..n : c[i] = b[i]
  BY <1>1, <1>3
<1>5. c = b
  BY <1>3, <1>4
<1> QED  BY <1>1, <1>3, <1>5 DEF a, b

LEMMA InFtpd ==
  ASSUME NEW s, NEW page \in {"users", "paths", "general"}, NEW n, NEW f, NEW v
  PROVE  LoadLine(St("ftpd", s), Setting(page, n, f, v))
           = St("ftpd", LoadSetting(s, Setting(page, n, f, v)))
BY MarksStay DEF LoadLine, St, Setting

LEMMA FirstLine ==
  ASSUME NEW E, NEW s, ByPage(s), NEW page \in {"users", "paths"}, s[page] \in Seq(E),
         New(page) \in E, NEW f, NEW v, Put(New(page), f, v) \in E
  PROVE  LoadLine(St("ftpd", s), Setting(page, Len(s[page]) + 1, f, v))
           = St("ftpd", With(s, page, Append(s[page], Put(New(page), f, v))))
<1> DEFINE list == s[page]
           n == Len(list) + 1
           l == Setting(page, n, f, v)
           e == New(page)
<1>0. list \in Seq(E) /\ e \in E /\ Put(e, f, v) \in E
  OBVIOUS
<1>1. /\ n \notin DOMAIN list /\ Append(list, e)[n] = e
      /\ [Append(list, e) EXCEPT ![n] = Put(e, f, v)] = Append(list, Put(e, f, v))
  <2> DEFINE m == n
  <2>1. m = Len(list) + 1
    OBVIOUS
  <2> HIDE DEF list, e, m
  <2>2. m \notin DOMAIN list /\ Append(list, e)[m] = e
        /\ [Append(list, e) EXCEPT ![m] = Put(e, f, v)] = Append(list, Put(e, f, v))
    BY <1>0, <2>1, LastReplaced
  <2> QED  BY <2>2 DEF m
<1>2. l.page = page /\ l.n = n /\ l.field = f /\ l.value = v /\ page # "general"
  BY DEF Setting
<1>3. e = IF page = "users" THEN NewUser ELSE NewPath
  BY DEF New
<1> HIDE DEF l, list, n, e
<1>4. WithEntry(list, n, e) = Append(list, e)
  BY <1>1 DEF WithEntry
<1>5. [Append(list, e) EXCEPT ![n] = [e EXCEPT ![f] = Slashed(f, v)]] = Append(list, Put(e, f, v))
  BY <1>1 DEF Put
<1>6. LoadSetting(s, l)
        = [s EXCEPT ![page] = [WithEntry(list, n, e) EXCEPT
             ![n] = [WithEntry(list, n, e)[n] EXCEPT ![f] = Slashed(f, v)]]]
  BY <1>2, <1>3 DEF LoadSetting, list
<1>7. LoadSetting(s, l) = With(s, page, Append(list, Put(e, f, v)))
  BY <1>1, <1>4, <1>5, <1>6 DEF With
<1> QED  BY <1>7, InFtpd DEF l, list, n, e

LEMMA NextLine ==
  ASSUME NEW E, NEW s, ByPage(s), NEW page \in {"users", "paths"}, NEW list \in Seq(E),
         NEW e \in E, s[page] = Append(list, e), NEW f, NEW v, Put(e, f, v) \in E
  PROVE  LoadLine(St("ftpd", s), Setting(page, Len(list) + 1, f, v))
           = St("ftpd", With(s, page, Append(list, Put(e, f, v))))
<1> DEFINE n == Len(list) + 1
           l == Setting(page, n, f, v)
           new == IF page = "users" THEN NewUser ELSE NewPath
<1>1. /\ n \in DOMAIN Append(list, e) /\ Append(list, e)[n] = e
      /\ [Append(list, e) EXCEPT ![n] = Put(e, f, v)] = Append(list, Put(e, f, v))
  BY LastReplaced
<1>2. l.page = page /\ l.n = n /\ l.field = f /\ l.value = v /\ page # "general"
  BY DEF Setting
<1> HIDE DEF l, n, new
<1>3. WithEntry(s[page], n, new) = Append(list, e)
  BY <1>1 DEF WithEntry
<1>4. [Append(list, e) EXCEPT ![n] = [e EXCEPT ![f] = Slashed(f, v)]] = Append(list, Put(e, f, v))
  BY <1>1 DEF Put
<1>5. LoadSetting(s, l)
        = [s EXCEPT ![page] = [WithEntry(s[page], n, new) EXCEPT
             ![n] = [WithEntry(s[page], n, new)[n] EXCEPT ![f] = Slashed(f, v)]]]
  BY <1>2 DEF LoadSetting, new
<1>6. LoadSetting(s, l) = With(s, page, Append(list, Put(e, f, v)))
  BY <1>1, <1>3, <1>4, <1>5 DEF With
<1> QED  BY <1>6, InFtpd DEF l, n

(* A line that may be left out changes nothing when it is. *)
LEMMA ReadUnless ==
  ASSUME NEW a, NEW b, NEW default, NEW l,
         IF l.value = default THEN b = a ELSE LoadLine(a, l) = b
  PROVE  Reads(a, Unless(default, l), b)
<1>1. CASE l.value = default
  BY <1>1, ReadNothing DEF Unless
<1>2. CASE l.value # default
  BY <1>2, ReadLine DEF Unless
<1> QED  BY <1>1, <1>2

LEMMA UnlessIs ==
  \A default, l : l \in Line => Unless(default, l) \in Seq(Line)
BY DEF Unless

(* The fields of an entry, one after the other. *)
User1(u) == Put(NewUser, "name", u.name)
User2(u) == Put(User1(u), "access", u.access)
User3(u) == Put(User2(u), "sessions", u.sessions)

LEMMA UserBuilt ==
  ASSUME NEW u \in User
  PROVE  /\ NewUser \in User /\ User1(u) \in User /\ User2(u) \in User /\ User3(u) = u
         /\ u.access = 1 => User2(u) = User1(u)
         /\ u.sessions = 1 => User3(u) = User2(u)
<1>1. User1(u) = [name |-> u.name, access |-> 1, sessions |-> 1]
  BY DEF User1, Put, NewUser, Slashed
<1>2. User2(u) = [name |-> u.name, access |-> u.access, sessions |-> 1]
  BY <1>1 DEF User2, Put, Slashed
<1>3. User3(u) = [name |-> u.name, access |-> u.access, sessions |-> u.sessions]
  BY <1>2 DEF User3, Put, Slashed
<1> QED  BY <1>1, <1>2, <1>3 DEF User, NewUser, AnyName

Path1(a) == Put(NewPath, "alias", a.alias)
Path2(a) == Put(Path1(a), "read", a.read)
Path3(a) == Put(Path2(a), "write", a.write)
Path4(a) == Put(Path3(a), "delete", a.delete)
Path5(a) == Put(Path4(a), "subdirs", a.subdirs)
RootedPath(a) == [a EXCEPT !.alias = Slashed("alias", @)]

LEMMA PathBuilt ==
  ASSUME NEW a \in Path
  PROVE  /\ NewPath \in Path /\ Path1(a) \in Path /\ Path2(a) \in Path /\ Path3(a) \in Path
         /\ Path4(a) \in Path /\ Path5(a) \in Path /\ Path5(a) = RootedPath(a)
         /\ a.read = 0 => Path2(a) = Path1(a)
         /\ a.write = 0 => Path3(a) = Path2(a)
         /\ a.delete = 0 => Path4(a) = Path3(a)
         /\ a.subdirs = 0 => Path5(a) = Path4(a)
<1> DEFINE alias == Slashed("alias", a.alias)
<1>1. Path1(a) = [alias |-> alias, read |-> 0, write |-> 0, delete |-> 0, subdirs |-> 0]
  BY DEF Path1, Put, NewPath
<1>2. Path2(a) = [alias |-> alias, read |-> a.read, write |-> 0, delete |-> 0, subdirs |-> 0]
  BY <1>1 DEF Path2, Put, Slashed
<1>3. Path3(a) = [alias |-> alias, read |-> a.read, write |-> a.write, delete |-> 0,
                  subdirs |-> 0]
  BY <1>2 DEF Path3, Put, Slashed
<1>4. Path4(a) = [alias |-> alias, read |-> a.read, write |-> a.write, delete |-> a.delete,
                  subdirs |-> 0]
  BY <1>3 DEF Path4, Put, Slashed
<1>5. Path5(a) = [alias |-> alias, read |-> a.read, write |-> a.write, delete |-> a.delete,
                  subdirs |-> a.subdirs]
  BY <1>4 DEF Path5, Put, Slashed
<1>6. alias \in AnyAlias
  BY SettingsAssumption DEF Slashed, Path, AnyAlias
<1>7. RootedPath(a) = Path5(a)
  BY <1>5 DEF RootedPath, Path
<1> HIDE DEF alias
<1> QED  BY <1>1, <1>2, <1>3, <1>4, <1>5, <1>6, <1>7 DEF Path, NewPath, AnyAlias

(* The next line of an entry that is the last of its list. *)
LEMMA LineOn ==
  ASSUME NEW E, NEW s, ByPage(s), NEW page \in {"users", "paths"}, NEW list \in Seq(E),
         NEW e \in E, NEW f, NEW v, Put(e, f, v) \in E
  PROVE  LoadLine(St("ftpd", With(s, page, Append(list, e))), Setting(page, Len(list) + 1, f, v))
           = St("ftpd", With(s, page, Append(list, Put(e, f, v))))
<1> DEFINE t == With(s, page, Append(list, e))
           x == Append(list, Put(e, f, v))
<1>1. page \in Pages
  BY DEF Pages
<1>2. ByPage(t) /\ t[page] = Append(list, e)
  <2>1. \A y : ByPage(With(s, page, y)) /\ With(s, page, y)[page] = y
    BY <1>1, WithIs
  <2> QED  BY <2>1, Zenon
<1>3. With(t, page, x) = With(s, page, x)
  <2>1. \A z : \A y : With(With(s, page, z), page, y) = With(s, page, y)
    BY <1>1, WithIs
  <2> HIDE DEF x
  <2> QED  BY <2>1, Zenon
<1> HIDE DEF t
<1>4. LoadLine(St("ftpd", t), Setting(page, Len(list) + 1, f, v)) = St("ftpd", With(t, page, x))
  BY <1>2, NextLine
<1> QED  BY <1>3, <1>4 DEF t

(* The saved lines of an account come back as that account, at the end of the list. *)
LEMMA ReadUser ==
  ASSUME NEW s, ByPage(s), NEW list \in Seq(User), s["users"] = list, NEW u \in User
  PROVE  LET n == Len(list) + 1
         IN  /\ SavedUser(n, u) \in Seq(Line)
             /\ Reads(St("ftpd", s), SavedUser(n, u), St("ftpd", With(s, "users", Append(list, u))))
<1> DEFINE n == Len(list) + 1
           After(e) == St("ftpd", With(s, "users", Append(list, e)))
           l1 == Setting("users", n, "name", u.name)
           l2 == Setting("users", n, "access", u.access)
           l3 == Setting("users", n, "sessions", u.sessions)
           w2 == Unless(1, l2)
           w3 == Unless(1, l3)
<1>1. n \in Nat /\ u.name \in Value /\ u.access \in Value /\ u.sessions \in Value
  BY DEF User, Value
<1>2. l1 \in Line /\ l2 \in Line /\ l3 \in Line
  BY <1>1, LinesAre DEF Fields
<1>3. <<l1>> \in Seq(Line) /\ w2 \in Seq(Line) /\ w3 \in Seq(Line)
  <2> HIDE DEF l1, l2, l3
  <2> QED  BY <1>2, UnlessIs
<1>4. LoadLine(St("ftpd", s), l1) = After(User1(u))
  BY UserBuilt, FirstLine DEF New, User1
<1>5. LoadLine(After(User1(u)), l2) = After(User2(u))
  BY UserBuilt, LineOn DEF User2
<1>6. LoadLine(After(User2(u)), l3) = After(u)
  BY UserBuilt, LineOn DEF User3
<1>7. l2.value = u.access /\ l3.value = u.sessions
  BY DEF Setting
<1>8. SavedUser(n, u) = (<<l1>> \o w2) \o w3
  BY DEF SavedUser
<1> HIDE DEF n, After, l1, l2, l3
<1>9. Reads(St("ftpd", s), <<l1>>, After(User1(u)))
  BY <1>4, ReadLine
<1>10. Reads(After(User1(u)), w2, After(User2(u)))
  <2>1. IF l2.value = 1 THEN After(User2(u)) = After(User1(u))
        ELSE LoadLine(After(User1(u)), l2) = After(User2(u))
    BY <1>5, <1>7, UserBuilt
  <2> QED  BY <2>1, ReadUnless
<1>11. Reads(After(User2(u)), w3, After(u))
  <2>1. IF l3.value = 1 THEN After(u) = After(User2(u))
        ELSE LoadLine(After(User2(u)), l3) = After(u)
    BY <1>6, <1>7, UserBuilt
  <2> QED  BY <2>1, ReadUnless
<1> HIDE DEF w2, w3
<1>12. <<l1>> \o w2 \in Seq(Line) /\ Reads(St("ftpd", s), <<l1>> \o w2, After(User2(u)))
  BY <1>3, <1>9, <1>10, ReadOn, ConcatProperties
<1>13. (<<l1>> \o w2) \o w3 \in Seq(Line)
       /\ Reads(St("ftpd", s), (<<l1>> \o w2) \o w3, After(u))
  <2> DEFINE w == <<l1>> \o w2
  <2> HIDE DEF w
  <2>1. w \in Seq(Line) /\ Reads(St("ftpd", s), w, After(User2(u)))
    BY <1>12 DEF w
  <2>2. w \o w3 \in Seq(Line) /\ Reads(St("ftpd", s), w \o w3, After(u))
    BY <1>3, <1>11, <2>1, ReadOn, ConcatProperties
  <2> QED  BY <2>2 DEF w
<1> QED  BY <1>8, <1>13 DEF n, After

(* Those of an alias come back as the alias, with its slash. *)
LEMMA ReadPath ==
  ASSUME NEW s, ByPage(s), NEW list \in Seq(Path), s["paths"] = list, NEW a \in Path
  PROVE  LET n == Len(list) + 1
         IN  /\ SavedPath(n, a) \in Seq(Line)
             /\ Reads(St("ftpd", s), SavedPath(n, a),
                      St("ftpd", With(s, "paths", Append(list, RootedPath(a)))))
<1> DEFINE n == Len(list) + 1
           After(e) == St("ftpd", With(s, "paths", Append(list, e)))
           l1 == Setting("paths", n, "alias", a.alias)
           l2 == Setting("paths", n, "read", a.read)
           l3 == Setting("paths", n, "write", a.write)
           l4 == Setting("paths", n, "delete", a.delete)
           l5 == Setting("paths", n, "subdirs", a.subdirs)
           w2 == Unless(0, l2)
           w3 == Unless(0, l3)
           w4 == Unless(0, l4)
           w5 == Unless(0, l5)
           v2 == <<l1>> \o w2
           v3 == v2 \o w3
           v4 == v3 \o w4
<1>1. n \in Nat /\ a.alias \in Value /\ a.read \in Value /\ a.write \in Value
      /\ a.delete \in Value /\ a.subdirs \in Value
  BY DEF Path, Value
<1>2. l1 \in Line /\ l2 \in Line /\ l3 \in Line /\ l4 \in Line /\ l5 \in Line
  BY <1>1, LinesAre DEF Fields
<1>3. <<l1>> \in Seq(Line) /\ w2 \in Seq(Line) /\ w3 \in Seq(Line) /\ w4 \in Seq(Line)
      /\ w5 \in Seq(Line)
  <2> HIDE DEF l1, l2, l3, l4, l5
  <2> QED  BY <1>2, UnlessIs
<1>4. LoadLine(St("ftpd", s), l1) = After(Path1(a))
  BY PathBuilt, FirstLine DEF New, Path1
<1>5. LoadLine(After(Path1(a)), l2) = After(Path2(a))
  BY PathBuilt, LineOn DEF Path2
<1>6. LoadLine(After(Path2(a)), l3) = After(Path3(a))
  BY PathBuilt, LineOn DEF Path3
<1>7. LoadLine(After(Path3(a)), l4) = After(Path4(a))
  BY PathBuilt, LineOn DEF Path4
<1>8. LoadLine(After(Path4(a)), l5) = After(Path5(a))
  BY PathBuilt, LineOn DEF Path5
<1>9. l2.value = a.read /\ l3.value = a.write /\ l4.value = a.delete /\ l5.value = a.subdirs
  BY DEF Setting
<1>10. SavedPath(n, a) = v4 \o w5
  BY DEF SavedPath
<1> HIDE DEF n, After, l1, l2, l3, l4, l5
<1>11. Reads(St("ftpd", s), <<l1>>, After(Path1(a)))
  BY <1>4, ReadLine
<1>12. Reads(After(Path1(a)), w2, After(Path2(a)))
  <2>1. IF l2.value = 0 THEN After(Path2(a)) = After(Path1(a))
        ELSE LoadLine(After(Path1(a)), l2) = After(Path2(a))
    BY <1>5, <1>9, PathBuilt
  <2> QED  BY <2>1, ReadUnless
<1>13. Reads(After(Path2(a)), w3, After(Path3(a)))
  <2>1. IF l3.value = 0 THEN After(Path3(a)) = After(Path2(a))
        ELSE LoadLine(After(Path2(a)), l3) = After(Path3(a))
    BY <1>6, <1>9, PathBuilt
  <2> QED  BY <2>1, ReadUnless
<1>14. Reads(After(Path3(a)), w4, After(Path4(a)))
  <2>1. IF l4.value = 0 THEN After(Path4(a)) = After(Path3(a))
        ELSE LoadLine(After(Path3(a)), l4) = After(Path4(a))
    BY <1>7, <1>9, PathBuilt
  <2> QED  BY <2>1, ReadUnless
<1>15. Reads(After(Path4(a)), w5, After(Path5(a)))
  <2>1. IF l5.value = 0 THEN After(Path5(a)) = After(Path4(a))
        ELSE LoadLine(After(Path4(a)), l5) = After(Path5(a))
    BY <1>8, <1>9, PathBuilt
  <2> QED  BY <2>1, ReadUnless
<1> HIDE DEF w2, w3, w4, w5
<1>16. v2 \in Seq(Line) /\ Reads(St("ftpd", s), v2, After(Path2(a)))
  BY <1>3, <1>11, <1>12, ReadOn, ConcatProperties
<1> HIDE DEF v2
<1>17. v3 \in Seq(Line) /\ Reads(St("ftpd", s), v3, After(Path3(a)))
  BY <1>3, <1>13, <1>16, ReadOn, ConcatProperties
<1> HIDE DEF v3
<1>18. v4 \in Seq(Line) /\ Reads(St("ftpd", s), v4, After(Path4(a)))
  BY <1>3, <1>14, <1>17, ReadOn, ConcatProperties
<1> HIDE DEF v4
<1>19. v4 \o w5 \in Seq(Line) /\ Reads(St("ftpd", s), v4 \o w5, After(Path5(a)))
  BY <1>3, <1>15, <1>18, ReadOn, ConcatProperties
<1>20. Path5(a) = RootedPath(a)
  BY PathBuilt
<1> QED  BY <1>10, <1>19, <1>20 DEF n, After

(* The first entries of a list, one more at a time. *)
LEMMA FirstOnes ==
  ASSUME NEW E, NEW list \in Seq(E)
  PROVE  /\ SubSeq(list, 1, 0) = <<>> /\ SubSeq(list, 1, Len(list)) = list
         /\ \A i \in 1..Len(list) :
              /\ SubSeq(list, 1, i - 1) \in Seq(E) /\ Len(SubSeq(list, 1, i - 1)) = i - 1
              /\ SubSeq(list, 1, i) = Append(SubSeq(list, 1, i - 1), list[i])
<1>1. SubSeq(list, 1, 0) = <<>> /\ SubSeq(list, 1, Len(list)) = list
  OBVIOUS
<1>2. ASSUME NEW i \in 1..Len(list)
      PROVE  /\ SubSeq(list, 1, i - 1) \in Seq(E) /\ Len(SubSeq(list, 1, i - 1)) = i - 1
             /\ SubSeq(list, 1, i) = Append(SubSeq(list, 1, i - 1), list[i])
  <2>1. SubSeq(list, 1, i - 1) \in Seq(E) /\ Len(SubSeq(list, 1, i - 1)) = i - 1
        /\ \A k \in 1..(i - 1) : SubSeq(list, 1, i - 1)[k] = list[k]
    OBVIOUS
  <2>2. SubSeq(list, 1, i) \in Seq(E) /\ Len(SubSeq(list, 1, i)) = i
        /\ \A k \in 1..i : SubSeq(list, 1, i)[k] = list[k]
    OBVIOUS
  <2> DEFINE p == SubSeq(list, 1, i - 1)
             q == SubSeq(list, 1, i)
             r == Append(p, list[i])
  <2>3. list[i] \in E
    OBVIOUS
  <2> HIDE DEF p, q
  <2>4. r \in Seq(E) /\ Len(r) = i /\ r[i] = list[i] /\ \A k \in 1..(i - 1) : r[k] = p[k]
    <3>1. p \in Seq(E) /\ Len(p) = i - 1
      BY <2>1 DEF p
    <3>2. i - 1 + 1 = i
      OBVIOUS
    <3> QED  BY <2>3, <3>1, <3>2, AppendProperties
  <2> HIDE DEF r
  <2>5. \A k \in 1..i : q[k] = r[k]
    BY <2>1, <2>2, <2>4 DEF p, q
  <2>6. q \in Seq(E) /\ Len(q) = i
    BY <2>2 DEF q
  <2>7. q = r
    BY <2>4, <2>5, <2>6
  <2> QED  BY <2>1, <2>7 DEF p, q, r
<1> QED  BY <1>1, <1>2

(* Both lists come back, whatever their length. *)
LEMMA ReadUsers ==
  ASSUME NEW s, ByPage(s), s["users"] = <<>>, NEW U \in Seq(User)
  PROVE  LET lines == FlattenSeq([n \in DOMAIN U |-> SavedUser(n, U[n])])
         IN  lines \in Seq(Line) /\ Reads(St("ftpd", s), lines, St("ftpd", With(s, "users", U)))
<1> DEFINE n == Len(U)
           to == [i \in 0..n |-> With(s, "users", SubSeq(U, 1, i))]
           st == [i \in 0..n |-> St("ftpd", to[i])]
           seqs == [i \in DOMAIN U |-> SavedUser(i, U[i])]
<1>1. n \in Nat /\ DOMAIN U = 1..n /\ "users" \in Pages
  BY DEF Pages
<1>2. ASSUME NEW i \in 1..n
      PROVE  seqs[i] \in Seq(Line) /\ Reads(st[i - 1], seqs[i], st[i])
  <2> DEFINE list == SubSeq(U, 1, i - 1)
             t == With(s, "users", list)
  <2>1. list \in Seq(User) /\ Len(list) = i - 1 /\ U[i] \in User
        /\ SubSeq(U, 1, i) = Append(list, U[i])
    BY FirstOnes
  <2> HIDE DEF list
  <2>2. ByPage(t) /\ t["users"] = list
    BY <1>1, WithIs
  <2>3. With(t, "users", Append(list, U[i])) = With(s, "users", Append(list, U[i]))
    <3>1. \A z : \A y : With(With(s, "users", z), "users", y) = With(s, "users", y)
      BY <1>1, WithIs
    <3> QED  BY <3>1, Zenon
  <2> HIDE DEF t
  <2>4. Len(list) + 1 = i
    BY <2>1
  <2>5. /\ SavedUser(i, U[i]) \in Seq(Line)
        /\ Reads(St("ftpd", t), SavedUser(i, U[i]), St("ftpd", With(t, "users", Append(list, U[i]))))
    BY <2>1, <2>2, <2>4, ReadUser
  <2>6. st[i - 1] = St("ftpd", t) /\ st[i] = St("ftpd", With(s, "users", Append(list, U[i])))
    <3>1. i - 1 \in 0..n /\ i \in 0..n
      BY <1>1
    <3> QED  BY <2>1, <3>1 DEF t, list
  <2>7. seqs[i] = SavedUser(i, U[i])
    BY <1>1
  <2> QED  BY <2>3, <2>5, <2>6, <2>7
<1>3. Pieces(seqs, n)
  BY <1>1, <1>2 DEF Pieces
<1>4. st[0] = St("ftpd", s) /\ st[n] = St("ftpd", With(s, "users", U))
  <2>1. SubSeq(U, 1, 0) = <<>> /\ SubSeq(U, 1, n) = U
    BY FirstOnes
  <2>2. With(s, "users", <<>>) = s
    BY <1>1, WithIs
  <2>3. 0 \in 0..n /\ n \in 0..n
    BY <1>1
  <2> QED  BY <2>1, <2>2, <2>3
<1> HIDE DEF st, seqs
<1>5. FlattenSeq(seqs) \in Seq(Line) /\ Reads(st[0], FlattenSeq(seqs), st[n])
  BY <1>1, <1>2, <1>3, ReadPieces
<1> QED  BY <1>4, <1>5 DEF seqs

RootedPaths(P) == [n \in DOMAIN P |-> [P[n] EXCEPT !.alias = Slashed("alias", @)]]

LEMMA RootedPathsAre ==
  ASSUME NEW P \in Seq(Path)
  PROVE  RootedPaths(P) \in Seq(Path) /\ Len(RootedPaths(P)) = Len(P)
         /\ \A i \in 1..Len(P) : RootedPaths(P)[i] = RootedPath(P[i])
<1>1. \A i \in 1..Len(P) : RootedPath(P[i]) \in Path
  BY PathBuilt
<1>2. RootedPaths(P) = [i \in 1..Len(P) |-> RootedPath(P[i])]
  BY DEF RootedPaths, RootedPath
<1> HIDE DEF RootedPaths, RootedPath
<1> QED  BY <1>1, <1>2

LEMMA ReadPaths ==
  ASSUME NEW s, ByPage(s), s["paths"] = <<>>, NEW P \in Seq(Path)
  PROVE  LET lines == FlattenSeq([n \in DOMAIN P |-> SavedPath(n, P[n])])
         IN  lines \in Seq(Line)
             /\ Reads(St("ftpd", s), lines, St("ftpd", With(s, "paths", RootedPaths(P))))
<1> DEFINE R == RootedPaths(P)
           n == Len(P)
           to == [i \in 0..n |-> With(s, "paths", SubSeq(R, 1, i))]
           st == [i \in 0..n |-> St("ftpd", to[i])]
           seqs == [i \in DOMAIN P |-> SavedPath(i, P[i])]
<1>1. n \in Nat /\ DOMAIN P = 1..n /\ "paths" \in Pages
  BY DEF Pages
<1>2. R \in Seq(Path) /\ Len(R) = n /\ \A i \in 1..n : R[i] = RootedPath(P[i])
  BY RootedPathsAre
<1> HIDE DEF R
<1>3. ASSUME NEW i \in 1..n
      PROVE  seqs[i] \in Seq(Line) /\ Reads(st[i - 1], seqs[i], st[i])
  <2> DEFINE list == SubSeq(R, 1, i - 1)
             t == With(s, "paths", list)
             e == RootedPath(P[i])
  <2>1. list \in Seq(Path) /\ Len(list) = i - 1 /\ P[i] \in Path
        /\ SubSeq(R, 1, i) = Append(list, e)
    BY <1>2, FirstOnes
  <2> HIDE DEF list, e
  <2>2. ByPage(t) /\ t["paths"] = list
    BY <1>1, WithIs
  <2>3. With(t, "paths", Append(list, e)) = With(s, "paths", Append(list, e))
    <3>1. \A z : \A y : With(With(s, "paths", z), "paths", y) = With(s, "paths", y)
      BY <1>1, WithIs
    <3> QED  BY <3>1, Zenon
  <2> HIDE DEF t
  <2>4. Len(list) + 1 = i
    BY <2>1
  <2>5. /\ SavedPath(i, P[i]) \in Seq(Line)
        /\ Reads(St("ftpd", t), SavedPath(i, P[i]), St("ftpd", With(t, "paths", Append(list, e))))
    BY <2>1, <2>2, <2>4, ReadPath DEF e
  <2>6. st[i - 1] = St("ftpd", t) /\ st[i] = St("ftpd", With(s, "paths", Append(list, e)))
    <3>1. i - 1 \in 0..n /\ i \in 0..n
      BY <1>1
    <3> QED  BY <2>1, <3>1 DEF t, list
  <2>7. seqs[i] = SavedPath(i, P[i])
    BY <1>1
  <2> QED  BY <2>3, <2>5, <2>6, <2>7
<1>4. Pieces(seqs, n)
  BY <1>1, <1>3 DEF Pieces
<1>5. st[0] = St("ftpd", s) /\ st[n] = St("ftpd", With(s, "paths", R))
  <2>1. SubSeq(R, 1, 0) = <<>> /\ SubSeq(R, 1, n) = R
    BY <1>2, FirstOnes
  <2>2. With(s, "paths", <<>>) = s
    BY <1>1, WithIs
  <2>3. 0 \in 0..n /\ n \in 0..n
    BY <1>1
  <2> QED  BY <2>1, <2>2, <2>3
<1> HIDE DEF st, seqs
<1>6. FlattenSeq(seqs) \in Seq(Line) /\ Reads(st[0], FlattenSeq(seqs), st[n])
  BY <1>1, <1>3, <1>4, ReadPieces
<1> QED  BY <1>5, <1>6 DEF seqs, R

(* A text up to its first line of white space. *)
LEMMA CutIs ==
  ASSUME NEW text \in Seq(Words \ {<<>>})
  PROVE  /\ Cut(text) \in Seq(Words \ {<<>>})
         /\ Len(Cut(text)) \in 0..Len(text)
         /\ \A i \in 1..Len(Cut(text)) : Cut(text)[i] = Trimmed(text[i])
         /\ Len(Cut(text)) < Len(text) => IsSpace(text[Len(Cut(text)) + 1])
<1> DEFINE ends == {i \in DOMAIN text : IsSpace(text[i])}
           n == IF ends = {} THEN Len(text) ELSE Min(ends) - 1
<1>1. Len(text) \in Nat /\ DOMAIN text = 1..Len(text) /\ ends \in SUBSET Nat
  OBVIOUS
<1>2. \A i \in 1..Len(text) : text[i] \in Words /\ text[i] # <<>>
  OBVIOUS
<1>3. ends # {} => Min(ends) \in ends /\ \A i \in ends : Min(ends) <= i
  <2> HIDE DEF ends
  <2>1. ends # {} => \E m \in ends : \A i \in ends : m <= i
    BY <1>1, LeastNumber
  <2> QED  BY <2>1 DEF Min
<1>4. n \in 0..Len(text) /\ (n < Len(text) => IsSpace(text[n + 1]))
      /\ \A i \in 1..n : ~IsSpace(text[i])
  <2>1. CASE ends = {}
    BY <1>1, <2>1
  <2>2. CASE ends # {}
    <3> DEFINE m == Min(ends)
    <3>1. m \in 1..Len(text) /\ IsSpace(text[m]) /\ \A i \in 1..Len(text) : IsSpace(text[i]) => m <= i
      BY <1>1, <1>3, <2>2
    <3>2. n = m - 1
      BY <2>2
    <3> HIDE DEF m, n
    <3>3. n + 1 = m /\ \A i \in 1..n : i \in 1..Len(text) /\ ~(m <= i)
      BY <1>1, <3>1, <3>2
    <3>4. n \in 0..Len(text)
      BY <1>1, <3>1, <3>2
    <3> QED  BY <1>1, <3>1, <3>3, <3>4
  <2> QED  BY <2>1, <2>2
<1> HIDE DEF n
<1>5. Cut(text) = [i \in 1..n |-> Trimmed(text[i])]
  BY DEF Cut, n
<1>6. ASSUME NEW i \in 1..n PROVE Trimmed(text[i]) \in Words \ {<<>>}
  <2>1. i \in 1..Len(text)
    BY <1>1, <1>4
  <2>2. text[i] \in Words /\ text[i] # <<>> /\ ~IsSpace(text[i])
    BY <1>2, <1>4, <2>1
  <2> QED  BY <2>2, TrimmedIs DEF IsSpace
<1>7. n \in Nat
  BY <1>1, <1>4
<1>8. Cut(text) \in Seq(Words \ {<<>>}) /\ Len(Cut(text)) = n
  BY <1>5, <1>6, <1>7
<1> QED  BY <1>4, <1>5, <1>8

(* The section of a text.  Its blank line ends the one before, its heading is read
   as one, and its lines are read up to the first one of white space; none behind it
   begins a section. *)
WithText(s, p, text) == IF p \in Texts THEN With(s, p, text) ELSE s

LEMMA ReadHeading ==
  ASSUME NEW loading, NEW s, NEW p \in {"ftpd"} \cup Texts
  PROVE  /\ <<Blank, Heading(p)>> \in Seq(Line)
         /\ Reads(St(loading, s), <<Blank, Heading(p)>>, St(p, s))
<1>1. <<Blank>> \in Seq(Line) /\ <<Heading(p)>> \in Seq(Line)
      /\ <<Blank, Heading(p)>> = <<Blank>> \o <<Heading(p)>>
      /\ <<Blank, Heading(p)>> \in Seq(Line)
  <2>1. Blank \in Line /\ Heading(p) \in Line
    BY LinesAre
  <2> QED  BY <2>1
<1>2. LoadLine(St(loading, s), Blank) = St("none", s)
      /\ LoadLine(St("none", s), Heading(p)) = St(p, s)
  BY SectionsBegin
<1>3. Reads(St(loading, s), <<Blank>>, St("none", s))
  BY <1>2, ReadLine
<1>4. Reads(St("none", s), <<Heading(p)>>, St(p, s))
  BY <1>2, ReadLine
<1> QED  BY <1>1, <1>3, <1>4, ReadOn

LEMMA ReadText ==
  ASSUME NEW s, ByPage(s), NEW from, InForce(from), NEW p,
         p \in Texts => s[p] = <<>> /\ ~HeadingBehind(from[p]), NEW loading
  PROVE  /\ SavedText(p, from) \in Seq(Line)
         /\ \E next : Reads(St(loading, s), SavedText(p, from),
                            St(next, WithText(s, p, Cut(from[p]))))
<1>1. CASE p \notin Texts
  <2>1. SavedText(p, from) = <<>> /\ WithText(s, p, Cut(from[p])) = s
    BY <1>1 DEF SavedText, WithText
  <2>2. Reads(St(loading, s), <<>>, St(loading, s)) /\ <<>> \in Seq(Line)
    BY ReadNothing
  <2> QED  BY <2>1, <2>2
<1>2. CASE p \in Texts /\ from[p] = <<>>
  <2>1. p \in Pages
    BY <1>2 DEF Pages
  <2>0. Cut(<<>>) = <<>>
    <3> DEFINE e == <<>>
    <3>1. e \in Seq(Words \ {<<>>}) /\ Len(e) = 0
      OBVIOUS
    <3> HIDE DEF e
    <3>2. Len(Cut(e)) \in 0..Len(e) /\ Cut(e) \in Seq(Words \ {<<>>})
      BY <3>1, CutIs
    <3>3. Len(Cut(e)) = 0
      BY <3>1, <3>2
    <3>4. Cut(e) = <<>>
      BY <3>2, <3>3
    <3> QED  BY <3>4 DEF e
  <2>2. SavedText(p, from) = <<>> /\ WithText(s, p, Cut(from[p])) = s
    BY <1>2, <2>0, <2>1, WithIs DEF SavedText, WithText
  <2>3. Reads(St(loading, s), <<>>, St(loading, s)) /\ <<>> \in Seq(Line)
    BY ReadNothing
  <2> QED  BY <2>2, <2>3
<1>3. CASE p \in Texts /\ from[p] # <<>>
  <2> DEFINE text == from[p]
             kept == Cut(text)
             n == Len(text)
             m == Len(kept)
             lines == [i \in DOMAIN text |-> TextLine(text[i])]
             st == [i \in 0..n |->
                      IF i <= m THEN St(p, With(s, p, SubSeq(kept, 1, i)))
                      ELSE St("none", With(s, p, kept))]
  <2>1. p \in Pages /\ p # "none" /\ p # "ftpd" /\ p \in {"ftpd"} \cup Texts
    BY <1>3, SettingsAssumption DEF Pages
  <2>3. ~HeadingBehind(text) /\ text \in Seq(Words \ {<<>>})
    BY <1>3 DEF InForce
  <2> HIDE DEF text
  <2>2. text \in Seq(Words \ {<<>>}) /\ n \in Nat /\ DOMAIN text = 1..n
    BY <2>3
  <2>4. /\ kept \in Seq(Words \ {<<>>}) /\ m \in 0..n
        /\ \A i \in 1..m : kept[i] = Trimmed(text[i]) /\ kept[i] # <<>>
        /\ m < n => IsSpace(text[m + 1])
    BY <2>2, CutIs
  <2> HIDE DEF kept
  <2>5. lines \in Seq(Line) /\ Len(lines) = n /\ \A i \in 1..n : lines[i] = TextLine(text[i])
    <3>1. \A i \in 1..n : TextLine(text[i]) \in Line
      BY <2>2, LinesAre
    <3>2. lines = [i \in 1..n |-> TextLine(text[i])]
      BY <2>2
    <3> HIDE DEF n, lines
    <3> QED  BY <2>2, <3>1, <3>2
  <2>6. st[0] = St(p, s) /\ \E next : st[n] = St(next, With(s, p, kept))
    <3>1. SubSeq(kept, 1, 0) = <<>> /\ SubSeq(kept, 1, m) = kept
      BY <2>4, FirstOnes
    <3>2. With(s, p, <<>>) = s
      BY <1>3, <2>1, WithIs
    <3>3. 0 \in 0..n /\ n \in 0..n /\ 0 <= m /\ (n <= m => n = m)
      BY <2>2, <2>4
    <3>4. st[0] = St(p, s)
      BY <3>1, <3>2, <3>3
    <3>5. st[n] = St(p, With(s, p, kept)) \/ st[n] = St("none", With(s, p, kept))
      BY <3>1, <3>3
    <3> QED  BY <3>4, <3>5
  <2>7. ASSUME NEW i \in 1..n PROVE st[i] = LoadLine(st[i - 1], lines[i])
    <3>1. i \in 0..n /\ i - 1 \in 0..n /\ lines[i].words = text[i] /\ text[i] \in Words
      BY <2>2, <2>5 DEF TextLine
    <3> HIDE DEF lines
    <3>2. CASE i <= m
      <4> DEFINE part == SubSeq(kept, 1, i - 1)
                 t == With(s, p, part)
      <4>1. SubSeq(kept, 1, i) = Append(part, kept[i]) /\ kept[i] = Trimmed(text[i])
            /\ kept[i] # <<>> /\ i - 1 <= m
        <5>1. i \in 1..m /\ i - 1 <= m
          BY <2>4, <3>2
        <5>2. \A k \in 1..m : SubSeq(kept, 1, k) = Append(SubSeq(kept, 1, k - 1), kept[k])
          BY <2>4, FirstOnes
        <5> QED  BY <2>4, <5>1, <5>2
      <4>2. st[i - 1] = St(p, t) /\ st[i] = St(p, With(s, p, Append(part, kept[i])))
        BY <3>1, <3>2, <4>1
      <4> HIDE DEF part, st
      <4>3. ByPage(t) /\ t[p] = part
        BY <2>1, WithIs
      <4>4. With(t, p, Append(part, kept[i])) = With(s, p, Append(part, kept[i]))
        <5>1. \A z : \A y : With(With(s, p, z), p, y) = With(s, p, y)
          BY <2>1, WithIs
        <5> QED  BY <5>1, Zenon
      <4> HIDE DEF t
      <4>5. LoadLine(St(p, t), lines[i]) = St(p, With(t, p, Append(t[p], kept[i])))
        BY <2>1, <3>1, <4>1 DEF LoadLine, St, With
      <4> QED  BY <4>2, <4>3, <4>4, <4>5
    <3>3. CASE i = m + 1
      <4>1. st[i] = St("none", With(s, p, kept)) /\ ~(i <= m) /\ i - 1 = m /\ m < n
        BY <2>4, <3>1, <3>3
      <4>2. SubSeq(kept, 1, m) = kept
        BY <2>4, FirstOnes
      <4>3. st[i - 1] = St(p, With(s, p, kept))
        <5>1. st[m] = St(p, With(s, p, SubSeq(kept, 1, m)))
          BY <2>4
        <5> QED  BY <4>1, <4>2, <5>1
      <4>4. Trimmed(text[i]) = <<>>
        BY <2>4, <3>3, <4>1 DEF IsSpace
      <4> HIDE DEF st
      <4> QED  BY <3>1, <4>1, <4>3, <4>4 DEF LoadLine, St
    <3>4. CASE i > m + 1
      <4>1. /\ st[i] = St("none", With(s, p, kept)) /\ st[i - 1] = St("none", With(s, p, kept))
            /\ m + 1 \in DOMAIN text /\ i \in DOMAIN text /\ m + 1 < i /\ IsSpace(text[m + 1])
        BY <2>2, <2>4, <3>1, <3>4
      <4>2. ~IsHeading(Trimmed(text[i]))
        BY <2>3, <4>1 DEF HeadingBehind
      <4> HIDE DEF st
      <4> QED  BY <3>1, <4>1, <4>2 DEF LoadLine, St
    <3>5. i <= m \/ i = m + 1 \/ i > m + 1
      BY <2>4
    <3> QED  BY <3>2, <3>3, <3>4, <3>5
  <2>8. PICK next : st[n] = St(next, With(s, p, kept))
    BY <2>6
  <2>9. Reads(St(p, s), lines, St(next, With(s, p, kept)))
    <3>1. Passes(st, St(p, s), lines)
      <4>1. st = [i \in 0..n |-> st[i]]
        OBVIOUS
      <4> HIDE DEF st, lines
      <4> QED  BY <2>5, <2>6, <2>7, <4>1 DEF Passes
    <3> HIDE DEF st, lines
    <3> QED  BY <2>5, <2>8, <3>1 DEF Reads
  <2> HIDE DEF lines
  <2>10. SavedText(p, from) = <<Blank, Heading(p)>> \o lines
    BY <1>3 DEF SavedText, lines, text
  <2>11. <<Blank, Heading(p)>> \in Seq(Line)
         /\ Reads(St(loading, s), <<Blank, Heading(p)>>, St(p, s))
    BY <2>1, ReadHeading
  <2>12. Reads(St(loading, s), SavedText(p, from), St(next, With(s, p, kept)))
         /\ SavedText(p, from) \in Seq(Line)
    BY <2>5, <2>9, <2>10, <2>11, ReadOn, ConcatProperties
  <2> QED  BY <1>3, <2>12 DEF WithText, text, kept
<1> QED  BY <1>1, <1>2, <1>3

(* The section [FTPd] as a whole. *)
FtpdLines(s) ==
  (<<Blank, Heading("ftpd"), Setting("general", 1, "value", s["general"])>>
   \o FlattenSeq([n \in DOMAIN s["users"] |-> SavedUser(n, s["users"][n])]))
  \o FlattenSeq([n \in DOMAIN s["paths"] |-> SavedPath(n, s["paths"][n])])
FtpdPages(s) ==
  With(With(With(Default, "general", s["general"]), "users", s["users"]),
       "paths", RootedPaths(s["paths"]))

LEMMA SavedIs ==
  ASSUME NEW s
  PROVE  Saved(s) = (((FtpdLines(s) \o SavedText("closed", s)) \o SavedText("greeting", s))
                     \o SavedText("welcome", s)) \o SavedText("goodbye", s)
BY DEF Saved, FtpdLines

LEMMA ReadFtpd ==
  ASSUME NEW s, InForce(s)
  PROVE  /\ FtpdLines(s) \in Seq(Line)
         /\ Reads(St("none", Default), FtpdLines(s), St("ftpd", FtpdPages(s)))
         /\ ByPage(FtpdPages(s))
         /\ FtpdPages(s)["users"] = s["users"] /\ FtpdPages(s)["general"] = s["general"]
         /\ FtpdPages(s)["paths"] = RootedPaths(s["paths"])
         /\ \A p \in Texts : FtpdPages(s)[p] = <<>>
<1> DEFINE users == s["users"]
           paths == s["paths"]
           general == s["general"]
           head == <<Blank, Heading("ftpd"), Setting("general", 1, "value", general)>>
           lines1 == FlattenSeq([n \in DOMAIN users |-> SavedUser(n, users[n])])
           lines2 == FlattenSeq([n \in DOMAIN paths |-> SavedPath(n, paths[n])])
           s0 == With(Default, "general", general)
           s1 == With(s0, "users", users)
           s2 == With(s1, "paths", RootedPaths(paths))
<1>1. users \in Seq(User) /\ paths \in Seq(Path) /\ general \in Numbers /\ ByPage(s)
  BY DEF InForce, ByPage
<1>2. /\ "users" \in Pages /\ "paths" \in Pages /\ "general" \in Pages
      /\ Texts \subseteq Pages \ {"users", "paths", "general"}
      /\ \A p \in Pages : p \in {"users", "paths", "general"} \cup Texts
      /\ Texts \subseteq {"closed", "greeting", "welcome", "goodbye"}
  BY SettingsAssumption DEF Pages
<1> HIDE DEF users, paths, general
<1>3. ByPage(Default) /\ \A p \in Pages : p # "general" => Default[p] = <<>>
  BY DEF ByPage, Default
<1>4. head \in Seq(Line)
      /\ Reads(St("none", Default), head, St("ftpd", s0))
  <2> DEFINE l == Setting("general", 1, "value", general)
             u == <<Blank, Heading("ftpd")>>
             w == <<l>>
  <2>1. l \in Line
    BY <1>1, LinesAre DEF Value, Fields
  <2>2. LoadLine(St("ftpd", Default), l) = St("ftpd", s0)
    <3>1. LoadSetting(Default, l) = s0
      BY DEF LoadSetting, Setting, With
    <3> QED  BY <3>1, InFtpd
  <2> HIDE DEF l, s0
  <2>3. u \in Seq(Line) /\ Reads(St("none", Default), u, St("ftpd", Default))
    BY ReadHeading
  <2>4. w \in Seq(Line) /\ Reads(St("ftpd", Default), w, St("ftpd", s0))
    BY <2>1, <2>2, ReadLine
  <2>5. <<Blank, Heading("ftpd"), l>> = u \o w
    OBVIOUS
  <2> HIDE DEF u, w
  <2>6. u \o w \in Seq(Line) /\ Reads(St("none", Default), u \o w, St("ftpd", s0))
    BY <2>3, <2>4, ReadOn, ConcatProperties
  <2> QED  BY <2>5, <2>6 DEF l
<1>5. ByPage(s0) /\ s0["general"] = general /\ \A p \in Pages : p # "general" => s0[p] = <<>>
  BY <1>2, <1>3, WithIs
<1> HIDE DEF head, s0
<1>6. lines1 \in Seq(Line) /\ Reads(St("ftpd", s0), lines1, St("ftpd", s1))
  <2>1. s0["users"] = <<>>
    BY <1>2, <1>5
  <2> QED  BY <1>1, <1>5, <2>1, ReadUsers
<1>7. /\ ByPage(s1) /\ s1["users"] = users
      /\ \A p \in Pages : p # "users" => s1[p] = s0[p]
  BY <1>2, <1>5, WithIs
<1> HIDE DEF lines1, s1
<1>8. lines2 \in Seq(Line) /\ Reads(St("ftpd", s1), lines2, St("ftpd", s2))
  <2>1. s1["paths"] = <<>>
    BY <1>2, <1>5, <1>7
  <2> QED  BY <1>1, <1>7, <2>1, ReadPaths
<1>9. /\ ByPage(s2) /\ s2["paths"] = RootedPaths(paths)
      /\ \A p \in Pages : p # "paths" => s2[p] = s1[p]
  BY <1>2, <1>7, WithIs
<1> HIDE DEF lines2, s2
<1>10. \A p \in Texts : s2[p] = <<>>
  BY <1>2, <1>5, <1>7, <1>9
<1>11. FtpdLines(s) = (head \o lines1) \o lines2 /\ FtpdPages(s) = s2
  BY DEF FtpdLines, FtpdPages, head, lines1, lines2, users, paths, general, s0, s1, s2
<1>12. head \o lines1 \in Seq(Line) /\ Reads(St("none", Default), head \o lines1, St("ftpd", s1))
  BY <1>4, <1>6, ReadOn, ConcatProperties
<1> DEFINE w1 == head \o lines1
<1> HIDE DEF w1
<1>13. w1 \o lines2 \in Seq(Line) /\ Reads(St("none", Default), w1 \o lines2, St("ftpd", s2))
  BY <1>8, <1>12, ReadOn, ConcatProperties DEF w1
<1>14. s2["users"] = users /\ s2["general"] = general
  BY <1>2, <1>5, <1>7, <1>9
<1> QED  BY <1>9, <1>10, <1>11, <1>13, <1>14 DEF w1, users, paths, general

(* What save_config() wrote is what load_config() reads. *)
LEMMA LoadSaved ==
  ASSUME NEW s, InForce(s), Plain(s)
  PROVE  Load(Saved(s)) = Restored(s)
<1> DEFINE s2 == FtpdPages(s)
           s3 == WithText(s2, "closed", Cut(s["closed"]))
           s4 == WithText(s3, "greeting", Cut(s["greeting"]))
           s5 == WithText(s4, "welcome", Cut(s["welcome"]))
           s6 == WithText(s5, "goodbye", Cut(s["goodbye"]))
<1>1. ByPage(s) /\ \A p \in Texts : ~HeadingBehind(s[p])
  BY DEF InForce, ByPage, Plain
<1>2. /\ "users" \in Pages /\ "paths" \in Pages /\ "general" \in Pages
      /\ Texts \subseteq Pages \ {"users", "paths", "general"}
      /\ \A p \in Pages : p \in {"users", "paths", "general"} \cup Texts
      /\ Texts \subseteq {"closed", "greeting", "welcome", "goodbye"}
  BY SettingsAssumption DEF Pages
<1>9. /\ FtpdLines(s) \in Seq(Line)
      /\ Reads(St("none", Default), FtpdLines(s), St("ftpd", s2)) /\ ByPage(s2)
      /\ s2["users"] = s["users"] /\ s2["general"] = s["general"]
      /\ s2["paths"] = RootedPaths(s["paths"])
  BY ReadFtpd
<1>10. \A p \in Texts : s2[p] = <<>>
  BY ReadFtpd
<1> HIDE DEF s2
<1>11. ASSUME NEW t, ByPage(t), NEW p
       PROVE  LET u == WithText(t, p, Cut(s[p]))
              IN  ByPage(u) /\ (\A q \in Pages : q # p \/ p \notin Texts => u[q] = t[q])
                  /\ (p \in Texts => u[p] = Cut(s[p]))
  <2>1. CASE p \in Texts
    <3>1. p \in Pages
      BY <1>2, <2>1
    <3>2. WithText(t, p, Cut(s[p])) = With(t, p, Cut(s[p]))
      BY <2>1 DEF WithText
    <3>3. /\ ByPage(With(t, p, Cut(s[p]))) /\ With(t, p, Cut(s[p]))[p] = Cut(s[p])
          /\ \A q \in Pages : q # p => With(t, p, Cut(s[p]))[q] = t[q]
      BY <1>11, <3>1, WithIs
    <3> QED  BY <2>1, <3>2, <3>3
  <2>2. CASE p \notin Texts
    BY <1>11, <2>2 DEF WithText
  <2> QED  BY <2>1, <2>2
<1>12. ByPage(s3) /\ (\A q \in Pages : q # "closed" \/ "closed" \notin Texts => s3[q] = s2[q])
       /\ ("closed" \in Texts => s3["closed"] = Cut(s["closed"]))
  BY <1>9, <1>11
<1> HIDE DEF s3
<1>13. ByPage(s4) /\ (\A q \in Pages : q # "greeting" \/ "greeting" \notin Texts => s4[q] = s3[q])
       /\ ("greeting" \in Texts => s4["greeting"] = Cut(s["greeting"]))
  BY <1>11, <1>12
<1> HIDE DEF s4
<1>14. ByPage(s5) /\ (\A q \in Pages : q # "welcome" \/ "welcome" \notin Texts => s5[q] = s4[q])
       /\ ("welcome" \in Texts => s5["welcome"] = Cut(s["welcome"]))
  BY <1>11, <1>13
<1> HIDE DEF s5
<1>15. ByPage(s6) /\ (\A q \in Pages : q # "goodbye" \/ "goodbye" \notin Texts => s6[q] = s5[q])
       /\ ("goodbye" \in Texts => s6["goodbye"] = Cut(s["goodbye"]))
  BY <1>11, <1>14
<1> HIDE DEF s6
<1>16. SavedText("closed", s) \in Seq(Line)
       /\ \E L : Reads(St("ftpd", s2), SavedText("closed", s), St(L, s3))
  BY <1>9, <1>10, <1>1, ReadText DEF s3
<1>17. PICK L3 : Reads(St("ftpd", s2), SavedText("closed", s), St(L3, s3))
  BY <1>16
<1>18. SavedText("greeting", s) \in Seq(Line)
       /\ \E L : Reads(St(L3, s3), SavedText("greeting", s), St(L, s4))
  <2>1. "greeting" \in Texts => s3["greeting"] = <<>>
    BY <1>2, <1>10, <1>12
  <2> QED  BY <1>12, <2>1, <1>1, ReadText DEF s4
<1>19. PICK L4 : Reads(St(L3, s3), SavedText("greeting", s), St(L4, s4))
  BY <1>18
<1>20. SavedText("welcome", s) \in Seq(Line)
       /\ \E L : Reads(St(L4, s4), SavedText("welcome", s), St(L, s5))
  <2>1. "welcome" \in Texts => s4["welcome"] = <<>>
    BY <1>2, <1>10, <1>12, <1>13
  <2> QED  BY <1>13, <2>1, <1>1, ReadText DEF s5
<1>21. PICK L5 : Reads(St(L4, s4), SavedText("welcome", s), St(L5, s5))
  BY <1>20
<1>22. SavedText("goodbye", s) \in Seq(Line)
       /\ \E L : Reads(St(L5, s5), SavedText("goodbye", s), St(L, s6))
  <2>1. "goodbye" \in Texts => s5["goodbye"] = <<>>
    BY <1>2, <1>10, <1>12, <1>13, <1>14
  <2> QED  BY <1>14, <2>1, <1>1, ReadText DEF s6
<1>23. PICK L6 : Reads(St(L5, s5), SavedText("goodbye", s), St(L6, s6))
  BY <1>22
<1>24. Saved(s) \in Seq(Line) /\ Reads(St("none", Default), Saved(s), St(L6, s6))
  <2> DEFINE st == St("none", Default)
             w2 == FtpdLines(s)
             w3 == w2 \o SavedText("closed", s)
             w4 == w3 \o SavedText("greeting", s)
             w5 == w4 \o SavedText("welcome", s)
             w6 == w5 \o SavedText("goodbye", s)
  <2>1. w2 \in Seq(Line) /\ Reads(st, w2, St("ftpd", s2))
    BY <1>9
  <2> HIDE DEF w2
  <2>2. w3 \in Seq(Line) /\ Reads(st, w3, St(L3, s3))
    BY <1>16, <1>17, <2>1, ReadOn, ConcatProperties
  <2> HIDE DEF w3
  <2>3. w4 \in Seq(Line) /\ Reads(st, w4, St(L4, s4))
    BY <1>18, <1>19, <2>2, ReadOn, ConcatProperties
  <2> HIDE DEF w4
  <2>4. w5 \in Seq(Line) /\ Reads(st, w5, St(L5, s5))
    BY <1>20, <1>21, <2>3, ReadOn, ConcatProperties
  <2> HIDE DEF w5
  <2>5. w6 \in Seq(Line) /\ Reads(st, w6, St(L6, s6))
    BY <1>22, <1>23, <2>4, ReadOn, ConcatProperties
  <2> HIDE DEF w6
  <2>6. Saved(s) = w6
    BY SavedIs DEF w2, w3, w4, w5, w6
  <2> QED  BY <2>5, <2>6
<1>25. Load(Saved(s)) = s6
  BY <1>24, LoadIs
<1>26. ASSUME NEW p \in Pages PROVE s6[p] = Restored(s)[p]
  <2>1. Restored(s)[p] = IF p \in Texts THEN Cut(s[p]) ELSE Rooted(s)[p]
    BY DEF Restored
  <2>2. CASE p \in Texts
    <3>1. p \in {"closed", "greeting", "welcome", "goodbye"}
      BY <1>2, <2>2
    <3>2. CASE p = "closed"
      BY <1>12, <1>13, <1>14, <1>15, <2>1, <2>2, <3>2
    <3>3. CASE p = "greeting"
      BY <1>13, <1>14, <1>15, <2>1, <2>2, <3>3
    <3>4. CASE p = "welcome"
      BY <1>14, <1>15, <2>1, <2>2, <3>4
    <3>5. CASE p = "goodbye"
      BY <1>15, <2>1, <2>2, <3>5
    <3> QED  BY <3>1, <3>2, <3>3, <3>4, <3>5
  <2>3. CASE p \notin Texts
    <3>1. s6[p] = s2[p]
      BY <1>12, <1>13, <1>14, <1>15, <2>3
    <3>2. p \in {"users", "paths", "general"}
      BY <1>2, <2>3
    <3>3. Rooted(s)[p] = IF p = "paths" THEN RootedPaths(s["paths"]) ELSE s[p]
      BY <1>1, <1>2 DEF Rooted, RootedPaths, ByPage
    <3> QED  BY <1>9, <2>1, <2>3, <3>1, <3>2, <3>3
  <2> QED  BY <2>2, <2>3
<1>27. Restored(s) = [p \in Pages |-> Restored(s)[p]]
  BY DEF Restored
<1>28. s6 = Restored(s)
  BY <1>15, <1>26, <1>27 DEF ByPage
<1> QED  BY <1>25, <1>28

(* Whatever the texts are, what is read can be in force. *)
TextLines == {TextLine(w) : w \in Words}
Sections == {"none", "ftpd"} \cup Texts

LEMMA LineInForce ==
  ASSUME NEW loading \in Sections, NEW s, InForce(s), NEW l \in TextLines
  PROVE  \E next, t : next \in Sections /\ InForce(t) /\ LoadLine(St(loading, s), l) = St(next, t)
<1>1. PICK w \in Words : l.words = w /\ l.page = "none"
  BY DEF TextLines, TextLine
<1> DEFINE words == Trimmed(w)
<1>2. words \in Words
  BY TrimmedIs
<1> HIDE DEF words
<1>3. CASE words = <<>>
  <2>1. LoadLine(St(loading, s), l) = St("none", s) /\ "none" \in Sections
    BY <1>1, <1>3 DEF LoadLine, St, words, Sections
  <2> QED  BY <2>1
<1>4. CASE words # <<>> /\ loading = "none" /\ IsHeading(words)
  <2>1. PICK section \in {"ftpd"} \cup Texts : words = <<section>>
    BY <1>4 DEF IsHeading
  <2>2. LoadLine(St(loading, s), l) = St(section, s) /\ section \in Sections
    BY <1>1, <1>4, <2>1 DEF LoadLine, St, words, Sections
  <2> QED  BY <2>2
<1>5. CASE words # <<>> /\ (loading = "ftpd" \/ (loading = "none" /\ ~IsHeading(words)))
  <2>1. LoadLine(St(loading, s), l) = St(loading, s)
    BY <1>1, <1>5 DEF LoadLine, St, words
  <2> QED  BY <2>1
<1>6. CASE words # <<>> /\ loading \in Texts
  <2> DEFINE t == With(s, loading, Append(s[loading], words))
  <2>1. loading \in Pages /\ loading \notin {"users", "paths", "general", "none", "ftpd"}
        /\ Texts \subseteq Pages /\ {"users", "paths", "general"} \subseteq Pages
    BY <1>6, SettingsAssumption DEF Pages
  <2>2. LoadLine(St(loading, s), l) = St(loading, t)
    BY <1>1, <1>6, <2>1 DEF LoadLine, St, With, words
  <2>3. ByPage(s) /\ Append(s[loading], words) \in Seq(Words \ {<<>>})
    <3>1. ByPage(s) /\ s[loading] \in Seq(Words \ {<<>>}) /\ words \in Words \ {<<>>}
      BY <1>2, <1>6 DEF InForce, ByPage
    <3> QED  BY <3>1
  <2>4. /\ ByPage(t) /\ t[loading] = Append(s[loading], words)
        /\ \A p \in Pages : p # loading => t[p] = s[p]
    <3> DEFINE x == Append(s[loading], words)
    <3> HIDE DEF x
    <3>1. /\ ByPage(With(s, loading, x)) /\ With(s, loading, x)[loading] = x
          /\ \A p \in Pages : p # loading => With(s, loading, x)[p] = s[p]
      BY <2>1, <2>3, WithIs
    <3> QED  BY <3>1 DEF x
  <2> HIDE DEF t
  <2>5. t["users"] = s["users"] /\ t["paths"] = s["paths"] /\ t["general"] = s["general"]
    BY <2>1, <2>4
  <2>6. \A p \in Texts : t[p] \in Seq(Words \ {<<>>})
    BY <2>1, <2>3, <2>4 DEF InForce
  <2>7. InForce(t)
    BY <2>4, <2>5, <2>6 DEF InForce, ByPage
  <2> QED  BY <2>2, <2>7
<1> QED  BY <1>3, <1>4, <1>5, <1>6 DEF Sections

LEMMA LinesInForce ==
  ASSUME NEW loading \in Sections, NEW s, InForce(s), NEW w \in Seq(TextLines)
  PROVE  \E next, t : next \in Sections /\ InForce(t) /\ Reads(St(loading, s), w, St(next, t))
<1> DEFINE n == Len(w)
           a == St(loading, s)
           Goes(k) == \E next, t : /\ next \in Sections /\ InForce(t)
                                   /\ Reads(a, SubSeq(w, 1, k), St(next, t))
           S == {k \in 0..n : Goes(k)}
<1>0. TextLines \subseteq Line
  BY LinesAre DEF TextLines
<1>1. n \in Nat /\ \A i \in 1..n : w[i] \in TextLines
  OBVIOUS
<1>2. SubSeq(w, 1, 0) = <<>> /\ SubSeq(w, 1, n) = w
  BY FirstOnes
<1>3. 0 \in S
  <2>1. Reads(a, SubSeq(w, 1, 0), St(loading, s))
    BY <1>2, ReadNothing
  <2>2. Goes(0)
    BY <2>1
  <2> QED  BY <1>1, <2>2
<1>4. ASSUME NEW k \in 1..n, k - 1 \in S PROVE k \in S
  <2> DEFINE part == SubSeq(w, 1, k - 1)
  <2>1. PICK next, t : next \in Sections /\ InForce(t) /\ Reads(a, part, St(next, t))
    BY <1>4
  <2>2. PICK next1, t1 : /\ next1 \in Sections /\ InForce(t1)
                         /\ LoadLine(St(next, t), w[k]) = St(next1, t1)
    <3>1. next \in Sections /\ InForce(t) /\ w[k] \in TextLines
      BY <1>1, <2>1
    <3> HIDE DEF n
    <3> DEFINE l == w[k]
    <3> HIDE DEF l
    <3>2. l \in TextLines
      BY <3>1 DEF l
    <3>3. \E x, y : x \in Sections /\ InForce(y) /\ LoadLine(St(next, t), l) = St(x, y)
      BY <3>1, <3>2, LineInForce
    <3> QED  BY <3>3 DEF l
  <2>3. part \in Seq(Line) /\ w[k] \in Line /\ SubSeq(w, 1, k) = Append(part, w[k])
    <3>1. part \in Seq(TextLines) /\ SubSeq(w, 1, k) = Append(part, w[k])
      BY FirstOnes
    <3> HIDE DEF part
    <3> QED  BY <1>0, <1>1, <3>1
  <2> HIDE DEF part, a
  <2>4. Append(part, w[k]) = part \o <<w[k]>> /\ <<w[k]>> \in Seq(Line)
    BY <2>3
  <2>5. Reads(St(next, t), <<w[k]>>, St(next1, t1))
    BY <2>2, ReadLine
  <2>6. Reads(a, SubSeq(w, 1, k), St(next1, t1))
    BY <2>1, <2>3, <2>4, <2>5, ReadOn
  <2>7. k \in 0..n
    BY <1>1
  <2> QED  BY <2>2, <2>6, <2>7
<1>5. n \in S
  <2> HIDE DEF S
  <2>1. 0..n \subseteq S
    BY <1>1, <1>3, <1>4, InductionUpTo
  <2> QED  BY <1>1, <2>1
<1> QED  BY <1>2, <1>5

LEMMA SavedTextLines ==
  ASSUME NEW s, InForce(s), NEW p
  PROVE  SavedText(p, s) \in Seq(TextLines)
<1>1. CASE p \notin Texts \/ s[p] = <<>>
  BY <1>1 DEF SavedText
<1>2. CASE p \in Texts /\ s[p] # <<>>
  <2> DEFINE text == s[p]
             lines == [i \in DOMAIN text |-> TextLine(text[i])]
  <2>1. text \in Seq(Words \ {<<>>}) /\ <<>> \in Words /\ <<p>> \in Words
    BY <1>2, SettingsAssumption DEF InForce, Words
  <2>2. Blank \in TextLines /\ Heading(p) \in TextLines
    BY <2>1 DEF Blank, Heading, TextLines
  <2> HIDE DEF text
  <2>3. \A i \in 1..Len(text) : TextLine(text[i]) \in TextLines
    BY <2>1 DEF TextLines
  <2>4. Len(text) \in Nat /\ DOMAIN text = 1..Len(text)
    BY <2>1
  <2>5. lines \in Seq(TextLines)
    BY <2>3, <2>4
  <2> HIDE DEF lines
  <2>6. SavedText(p, s) = <<Blank, Heading(p)>> \o lines
    BY <1>2 DEF SavedText, lines, text
  <2> QED  BY <2>2, <2>5, <2>6
<1> QED  BY <1>1, <1>2

LEMMA LoadedInForce ==
  ASSUME NEW s, InForce(s)
  PROVE  InForce(Load(Saved(s)))
<1> DEFINE a == St("none", Default)
           w2 == FtpdLines(s)
           s2 == FtpdPages(s)
           w3 == w2 \o SavedText("closed", s)
           w4 == w3 \o SavedText("greeting", s)
           w5 == w4 \o SavedText("welcome", s)
           w6 == w5 \o SavedText("goodbye", s)
<1>1. w2 \in Seq(Line) /\ Reads(a, w2, St("ftpd", s2)) /\ "ftpd" \in Sections
  BY ReadFtpd DEF Sections
<1>2. InForce(s2)
  <2>1. /\ ByPage(s2) /\ s2["users"] = s["users"] /\ s2["general"] = s["general"]
        /\ s2["paths"] = RootedPaths(s["paths"]) /\ \A p \in Texts : s2[p] = <<>>
    BY ReadFtpd
  <2>2. RootedPaths(s["paths"]) \in Seq(Path)
    BY RootedPathsAre DEF InForce
  <2>3. s["users"] \in Seq(User) /\ s["general"] \in Numbers
    BY DEF InForce
  <2> HIDE DEF s2
  <2>4. \A p \in Texts : s2[p] \in Seq(Words \ {<<>>})
    <3>1. <<>> \in Seq(Words \ {<<>>})
      OBVIOUS
    <3> QED  BY <2>1, <3>1
  <2> QED  BY <2>1, <2>2, <2>3, <2>4 DEF InForce, ByPage
<1>3. ASSUME NEW w \in Seq(Line), NEW L \in Sections, NEW t, InForce(t), Reads(a, w, St(L, t)),
             NEW p
      PROVE  /\ w \o SavedText(p, s) \in Seq(Line)
             /\ \E M, u : M \in Sections /\ InForce(u) /\ Reads(a, w \o SavedText(p, s), St(M, u))
  <2>1. SavedText(p, s) \in Seq(TextLines)
    BY SavedTextLines
  <2>2. PICK M, u : M \in Sections /\ InForce(u) /\ Reads(St(L, t), SavedText(p, s), St(M, u))
    BY <1>3, <2>1, LinesInForce
  <2>3. TextLines \subseteq Line
    BY LinesAre DEF TextLines
  <2> DEFINE v == SavedText(p, s)
  <2>4. v \in Seq(Line)
    BY <2>1, <2>3
  <2> HIDE DEF v, a
  <2>5. w \o v \in Seq(Line) /\ Reads(a, w \o v, St(M, u))
    BY <1>3, <2>2, <2>4, ReadOn, ConcatProperties DEF v
  <2> QED  BY <2>2, <2>5 DEF v
<1> HIDE DEF w2, s2, a
<1>4. PICK L3, s3 : L3 \in Sections /\ w3 \in Seq(Line) /\ InForce(s3) /\ Reads(a, w3, St(L3, s3))
  BY <1>1, <1>2, <1>3
<1> HIDE DEF w3
<1>5. PICK L4, s4 : L4 \in Sections /\ w4 \in Seq(Line) /\ InForce(s4) /\ Reads(a, w4, St(L4, s4))
  BY <1>3, <1>4
<1> HIDE DEF w4
<1>6. PICK L5, s5 : L5 \in Sections /\ w5 \in Seq(Line) /\ InForce(s5) /\ Reads(a, w5, St(L5, s5))
  BY <1>3, <1>5
<1> HIDE DEF w5
<1>7. PICK L6, s6 : L6 \in Sections /\ w6 \in Seq(Line) /\ InForce(s6) /\ Reads(a, w6, St(L6, s6))
  BY <1>3, <1>6
<1>8. Saved(s) = w6
  BY SavedIs DEF w2, w3, w4, w5
<1> HIDE DEF w6
<1>9. Load(Saved(s)) = s6
  BY <1>7, <1>8, LoadIs DEF a
<1> QED  BY <1>7, <1>9

-----------------------------------------------------------------------------
(* The pages *)

Lines == Seq(Words \ {<<>>})
Acc == [lines : Lines, last : Words]
NoLines == [lines |-> <<>>, last |-> <<>>]

LEMMA DotLineTyped ==
  ASSUME NEW acc \in Acc, NEW line \in Words, NEW i, NEW J
  PROVE  DotLine(acc, line, i \in J) \in Acc
<1>1. acc.lines \in Lines /\ acc.last \in Words
  BY DEF Acc
<1>2. "." \in Word /\ <<".">> \in Words /\ <<".">> # <<>>
  BY SettingsAssumption DEF Words
<1>3. CASE line = <<>> /\ i \in J
  <2>1. Append(acc.last, ".") \in Words
    BY <1>1, <1>2 DEF Words
  <2>2. DotLine(acc, line, i \in J) = [acc EXCEPT !.last = Append(@, ".")]
    BY <1>3 DEF DotLine
  <2> QED  BY <2>1, <2>2 DEF Acc
<1>4. CASE ~(line = <<>> /\ i \in J)
  <2> DEFINE new == IF line = <<>> THEN <<".">> ELSE line
             whole == acc.last \o new
  <2>1. new \in Words /\ new # <<>>
    BY <1>2
  <2> HIDE DEF new
  <2>2. whole \in Words /\ whole # <<>>
    BY <1>1, <2>1 DEF Words
  <2> HIDE DEF whole
  <2>3. Append(acc.lines, whole) \in Lines
    BY <1>1, <2>2 DEF Lines
  <2>4. DotLine(acc, line, i \in J) = [acc EXCEPT !.lines = Append(@, whole), !.last = <<>>]
    BY <1>4 DEF DotLine, whole, new
  <2>5. <<>> \in Words
    BY DEF Words
  <2> QED  BY <2>3, <2>4, <2>5 DEF Acc
<1> QED  BY <1>3, <1>4

(* GetX(), line by line. *)
Gets(g, text, J) ==
  /\ g \in [0..Len(text) -> Acc] /\ g[0] = NoLines
  /\ \A i \in 1..Len(text) : g[i] = DotLine(g[i - 1], text[i], i \in J)

LEMMA GotIs ==
  ASSUME NEW text \in Seq(Words), NEW J
  PROVE  \E g : Gets(g, text, J)
              /\ Got(text, J) = LET acc == g[Len(text)]
                                IN  IF acc.last = <<>> THEN acc.lines
                                    ELSE Append(acc.lines, acc.last)
<1> DEFINE n == Len(text)
           Body(f) == [i \in 0..n |-> IF i = 0 THEN [lines |-> <<>>, last |-> <<>>]
                                      ELSE DotLine(f[i - 1], text[i], i \in J)]
           F == CHOOSE f : f = Body(f)
           step == [x \in Acc \X (1..n) |-> DotLine(x[1], text[x[2]], x[2] \in J)]
<1>1. n \in Nat /\ \A i \in 1..n : text[i] \in Words
  OBVIOUS
<1>2. NoLines \in Acc
  BY DEF NoLines, Acc, Lines, Words
<1>3. PICK g : Recursive(g, Acc, n, NoLines, step)
  <2>1. step \in [Acc \X (1..n) -> Acc]
    <3>1. ASSUME NEW acc \in Acc, NEW i \in 1..n
          PROVE  DotLine(acc, text[i], i \in J) \in Acc
      BY <1>1, DotLineTyped
    <3> QED  BY <3>1
  <2> HIDE DEF step
  <2> QED  BY <1>1, <1>2, <2>1, RecursionUpTo
<1>4. g \in [0..n -> Acc] /\ g[0] = NoLines /\ \A i \in 1..n : g[i] = step[<<g[i - 1], i>>]
  BY <1>3 DEF Recursive
<1>5. ASSUME NEW i \in 1..n PROVE g[i] = DotLine(g[i - 1], text[i], i \in J)
  <2>1. i - 1 \in 0..n /\ g[i - 1] \in Acc
    BY <1>1, <1>4
  <2>2. step[<<g[i - 1], i>>] = DotLine(g[i - 1], text[i], i \in J)
    BY <2>1
  <2> HIDE DEF step
  <2> QED  BY <1>4, <2>2
<1> HIDE DEF step
<1>6. g = Body(g)
  <2>1. ASSUME NEW i \in 0..n PROVE g[i] = Body(g)[i]
    <3>1. CASE i = 0
      BY <1>4, <3>1 DEF NoLines
    <3>2. CASE i # 0
      <4>1. i \in 1..n
        BY <1>1, <3>2
      <4>2. Body(g)[i] = DotLine(g[i - 1], text[i], i \in J)
        BY <3>2
      <4> QED  BY <1>5, <4>1, <4>2
    <3> QED  BY <3>1, <3>2
  <2>2. g = [i \in 0..n |-> g[i]]
    BY <1>4
  <2> QED  BY <2>1, <2>2
<1>7. F = Body(F)
  BY <1>6
<1>8. \A i \in 0..n : F[i] = Body(F)[i]
  BY <1>7
<1>9. Got(text, J) = IF F[n].last = <<>> THEN F[n].lines ELSE Append(F[n].lines, F[n].last)
  BY DEF Got
<1> HIDE DEF F
<1>10. F[0] = NoLines
  <2>1. 0 \in 0..n /\ Body(F)[0] = NoLines
    BY <1>1 DEF NoLines
  <2> QED  BY <1>8, <2>1
<1>11. ASSUME NEW i \in 1..n PROVE F[i] = DotLine(F[i - 1], text[i], i \in J)
  <2>1. i \in 0..n /\ i # 0
    BY <1>1
  <2>2. Body(F)[i] = DotLine(F[i - 1], text[i], i \in J)
    BY <2>1
  <2> QED  BY <1>8, <2>1, <2>2
<1> DEFINE S == {i \in 0..n : F[i] = g[i]}
<1>12. 0 \in S
  BY <1>1, <1>4, <1>10
<1>13. ASSUME NEW k \in 1..n, k - 1 \in S PROVE k \in S
  <2>1. k \in 0..n /\ F[k - 1] = g[k - 1]
    BY <1>13
  <2>2. F[k] = g[k]
    BY <1>5, <1>11, <2>1
  <2> QED  BY <2>1, <2>2
<1>14. n \in S
  <2> HIDE DEF S
  <2>1. 0..n \subseteq S
    BY <1>1, <1>12, <1>13, InductionUpTo
  <2> QED  BY <1>1, <2>1
<1>15. Gets(g, text, J)
  BY <1>4, <1>5 DEF Gets
<1>16. F[n] = g[n]
  BY <1>14
<1> QED  BY <1>9, <1>15, <1>16

(* GetX() leaves no blank line, so that none can end a section of the file. *)
LEMMA GotNoBlank ==
  ASSUME NEW text \in Seq(Words), NEW J
  PROVE  Got(text, J) \in Lines
<1>1. PICK g : Gets(g, text, J)
             /\ Got(text, J) = LET acc == g[Len(text)]
                               IN  IF acc.last = <<>> THEN acc.lines
                                   ELSE Append(acc.lines, acc.last)
  BY GotIs
<1> DEFINE acc == g[Len(text)]
<1>2. acc \in Acc
  <2>1. Len(text) \in 0..Len(text)
    OBVIOUS
  <2> QED  BY <1>1, <2>1 DEF Gets
<1>3. acc.lines \in Lines /\ acc.last \in Words
  BY <1>2 DEF Acc
<1> HIDE DEF acc
<1>4. acc.last # <<>> => Append(acc.lines, acc.last) \in Lines
  BY <1>3 DEF Lines
<1> QED  BY <1>1, <1>3, <1>4 DEF acc

(* And changes no text that has none. *)
LEMMA GotSame ==
  ASSUME NEW text \in Lines, NEW J
  PROVE  Got(text, J) = text
<1> DEFINE n == Len(text)
           So(i) == [lines |-> SubSeq(text, 1, i), last |-> <<>>]
<1>1. text \in Seq(Words) /\ n \in Nat /\ \A i \in 1..n : text[i] \in Words /\ text[i] # <<>>
  BY DEF Lines
<1>2. PICK g : Gets(g, text, J)
             /\ Got(text, J) = LET acc == g[n] IN IF acc.last = <<>> THEN acc.lines
                                                  ELSE Append(acc.lines, acc.last)
  BY <1>1, GotIs
<1>3. SubSeq(text, 1, 0) = <<>> /\ SubSeq(text, 1, n) = text
      /\ \A i \in 1..n : SubSeq(text, 1, i) = Append(SubSeq(text, 1, i - 1), text[i])
  BY <1>1, FirstOnes
<1> DEFINE S == {i \in 0..n : g[i] = So(i)}
<1>4. 0 \in S
  <2>1. g[0] = NoLines
    BY <1>2 DEF Gets
  <2>2. So(0) = NoLines
    BY <1>3 DEF NoLines
  <2>3. 0 \in 0..n
    BY <1>1
  <2> HIDE DEF So
  <2> QED  BY <2>1, <2>2, <2>3
<1>5. ASSUME NEW k \in 1..n, k - 1 \in S PROVE k \in S
  <2>1. g[k] = DotLine(So(k - 1), text[k], k \in J)
    BY <1>2, <1>5 DEF Gets
  <2>2. <<>> \o text[k] = text[k]
    BY <1>1 DEF Words
  <2> DEFINE p == SubSeq(text, 1, k - 1)
  <2>3. SubSeq(text, 1, k) = Append(p, text[k])
    BY <1>3
  <2> HIDE DEF p
  <2>4. DotLine([lines |-> p, last |-> <<>>], text[k], k \in J)
          = [lines |-> Append(p, text[k]), last |-> <<>>]
    BY <1>1, <2>2 DEF DotLine
  <2>5. g[k] = So(k)
    BY <2>1, <2>3, <2>4 DEF p
  <2>6. k \in 0..n
    BY <1>1
  <2> QED  BY <2>5, <2>6
<1>6. n \in S
  <2> HIDE DEF S
  <2>1. 0..n \subseteq S
    BY <1>1, <1>4, <1>5, InductionUpTo
  <2> QED  BY <1>1, <2>1
<1>7. g[n].last = <<>> /\ g[n].lines = text
  BY <1>3, <1>6
<1> QED  BY <1>2, <1>7

-----------------------------------------------------------------------------
(* The inductive invariant. *)

PageOf(p) ==
  CASE p = "users" -> Seq(User)
    [] p = "paths" -> Seq(Path)
    [] p = "general" -> Numbers
    [] OTHER -> Seq(Words)

(* A page of the window holds what it may hold; while the operator has not changed
   it, that is the settings as they are, and it is gone when the window is closed. *)
WindowInv ==
  /\ shown = [p \in Pages |-> shown[p]]
  /\ \A p \in Pages : shown[p] # <<>> =>
       shown[p] = <<shown[p][1]>> /\ shown[p][1] \in PageOf(p)
  /\ \A p \in Pages \ {"goodbye"} : shown[p] # <<>> =>
       open /\ (p \in edited \/ shown[p][1] = settings[p])

FilesInv == env = Saved(written) /\ envarc = Saved(archived)
ForceInv == InForce(settings) /\ InForce(written) /\ InForce(archived)

SettingsInv == ForceInv /\ FilesInv /\ WindowInv

LEMMA PagesInForce ==
  ASSUME NEW s, InForce(s), NEW p \in Pages
  PROVE  s[p] \in PageOf(p)
<1>1. CASE p \in {"users", "paths", "general"}
  BY <1>1 DEF InForce, PageOf
<1>2. CASE p \notin {"users", "paths", "general"}
  <2>1. p \in Texts /\ PageOf(p) = Seq(Words)
    BY <1>2 DEF Pages, PageOf
  <2>2. Seq(Words \ {<<>>}) \subseteq Seq(Words)
    OBVIOUS
  <2> QED  BY <2>1, <2>2 DEF InForce
<1> QED  BY <1>1, <1>2

LEMMA TextPages ==
  /\ \A p \in Texts : p \in Pages /\ PageOf(p) = Seq(Words)
  /\ \A p \in Pages : p \in {"users", "paths", "general"} \cup Texts
  /\ "users" \in Pages /\ "paths" \in Pages /\ "general" \in Pages
  /\ \A p \in {"users", "paths", "general"} : p \notin Texts /\ p # "goodbye"
BY SettingsAssumption DEF Pages, PageOf

LEMMA InitSettings == Init => SettingsInv
BY SettingsAssumption DEF Init, SettingsInv, ForceInv, FilesInv, WindowInv

(* An entry more, changed, or less. *)
LEMMA Removed ==
  ASSUME NEW E, NEW list \in Seq(E), NEW i \in DOMAIN list
  PROVE  RemoveAt(list, i) \in Seq(E)
<1>1. SubSeq(list, 1, i - 1) \in Seq(E) /\ SubSeq(list, i + 1, Len(list)) \in Seq(E)
  OBVIOUS
<1> QED  BY <1>1, ConcatProperties DEF RemoveAt

LEMMA Changed ==
  ASSUME NEW E, NEW list \in Seq(E), NEW i \in DOMAIN list, NEW e \in E
  PROVE  [list EXCEPT ![i] = e] \in Seq(E)
OBVIOUS

LEMMA FieldsChanged ==
  /\ \A u \in User : /\ \A name \in AnyName : [u EXCEPT !.name = name] \in User
                     /\ [u EXCEPT !.access = 1 - @] \in User
                     /\ \A k \in Nat : [u EXCEPT !.sessions = k] \in User
  /\ \A a \in Path : /\ \A alias \in AnyAlias : [a EXCEPT !.alias = alias] \in Path
                     /\ \A r \in {"read", "write", "delete", "subdirs"} :
                          [a EXCEPT ![r] = 1 - @] \in Path
<1>1. ASSUME NEW u \in User
      PROVE  /\ \A name \in AnyName : [u EXCEPT !.name = name] \in User
             /\ [u EXCEPT !.access = 1 - @] \in User
             /\ \A k \in Nat : [u EXCEPT !.sessions = k] \in User
  <2>1. ASSUME NEW name \in AnyName PROVE [u EXCEPT !.name = name] \in User
    BY DEF User
  <2>2. [u EXCEPT !.access = 1 - @] \in User
    BY DEF User
  <2>3. ASSUME NEW k \in Nat PROVE [u EXCEPT !.sessions = k] \in User
    BY DEF User
  <2> QED  BY <2>1, <2>2, <2>3
<1>2. ASSUME NEW a \in Path, NEW alias \in AnyAlias
      PROVE  [a EXCEPT !.alias = alias] \in Path
  BY DEF Path
<1>3. ASSUME NEW a \in Path, NEW r \in {"read", "write", "delete", "subdirs"}
      PROVE  [a EXCEPT ![r] = 1 - @] \in Path
  <2>1. CASE r = "read"
    BY <2>1 DEF Path
  <2>2. CASE r = "write"
    BY <2>2 DEF Path
  <2>3. CASE r = "delete"
    BY <2>3 DEF Path
  <2>4. CASE r = "subdirs"
    BY <2>4 DEF Path
  <2> QED  BY <2>1, <2>2, <2>3, <2>4
<1> QED  BY <1>1, <1>2, <1>3

LEMMA UsersEdited ==
  ASSUME NEW list \in Seq(User), NEW new \in UserEdits(list)
  PROVE  new \in Seq(User)
<1>0. NewUser \in User
  BY DEF NewUser, User, AnyName
<1>1. CASE new = Append(list, [NewUser EXCEPT !.sessions = 0])
  <2>1. [NewUser EXCEPT !.sessions = 0] \in User
    BY <1>0 DEF User
  <2> QED  BY <1>1, <2>1
<1>2. ASSUME NEW i \in DOMAIN list, NEW name \in AnyName,
             new = [list EXCEPT ![i].name = name]
      PROVE  new \in Seq(User)
  <2>0. list[i] \in User
    OBVIOUS
  <2>1. [list[i] EXCEPT !.name = name] \in User
    BY <2>0, FieldsChanged, Zenon
  <2> QED  BY <1>2, <2>1, Changed
<1>3. ASSUME NEW i \in DOMAIN list, new = [list EXCEPT ![i].access = 1 - @]
      PROVE  new \in Seq(User)
  <2>1. [list[i] EXCEPT !.access = 1 - @] \in User
    BY FieldsChanged
  <2> QED  BY <1>3, <2>1, Changed
<1>4. ASSUME NEW i \in DOMAIN list, NEW k \in 0..2, new = [list EXCEPT ![i].sessions = k]
      PROVE  new \in Seq(User)
  <2>0. list[i] \in User /\ k \in Nat
    OBVIOUS
  <2>1. [list[i] EXCEPT !.sessions = k] \in User
    BY <2>0, FieldsChanged, Zenon
  <2> QED  BY <1>4, <2>1, Changed
<1>5. ASSUME NEW i \in DOMAIN list, new = RemoveAt(list, i)
      PROVE  new \in Seq(User)
  BY <1>5, Removed
<1> DEFINE A1 == {Append(list, [NewUser EXCEPT !.sessions = 0])}
           A2 == {[list EXCEPT ![i].name = name] : i \in DOMAIN list, name \in AnyName}
           A3 == {[list EXCEPT ![i].access = 1 - @] : i \in DOMAIN list}
           A4 == {[list EXCEPT ![i].sessions = k] : i \in DOMAIN list, k \in 0..2}
           A5 == {RemoveAt(list, i) : i \in {i \in DOMAIN list : list[i].name = NoName}}
<1>6. UserEdits(list) = A1 \cup A2 \cup A3 \cup A4 \cup A5
  BY DEF UserEdits
<1>7. new \in A1 => new \in Seq(User)
  BY <1>1
<1>8. new \in A2 => new \in Seq(User)
  BY <1>2
<1>9. new \in A3 => new \in Seq(User)
  BY <1>3
<1>10. new \in A4 => new \in Seq(User)
  BY <1>4
<1>11. new \in A5 => new \in Seq(User)
  BY <1>5
<1> HIDE DEF A1, A2, A3, A4, A5
<1> QED  BY <1>6, <1>7, <1>8, <1>9, <1>10, <1>11

LEMMA PathsEdited ==
  ASSUME NEW list \in Seq(Path), NEW new \in PathEdits(list)
  PROVE  new \in Seq(Path)
<1>1. CASE new = Append(list, NewPath)
  BY <1>1 DEF NewPath, Path, AnyAlias
<1>2. ASSUME NEW i \in DOMAIN list, NEW a \in AnyAlias,
             new = [list EXCEPT ![i].alias = a]
      PROVE  new \in Seq(Path)
  <2>0. list[i] \in Path
    OBVIOUS
  <2>1. [list[i] EXCEPT !.alias = a] \in Path
    BY <2>0, FieldsChanged, Zenon
  <2> QED  BY <1>2, <2>1, Changed
<1>3. ASSUME NEW i \in DOMAIN list, NEW r \in {"read", "write", "delete", "subdirs"},
             new = [list EXCEPT ![i][r] = 1 - @]
      PROVE  new \in Seq(Path)
  <2>0. list[i] \in Path
    OBVIOUS
  <2>1. [list[i] EXCEPT ![r] = 1 - @] \in Path
    BY <2>0, FieldsChanged, Zenon
  <2> QED  BY <1>3, <2>1, Changed
<1>4. ASSUME NEW i \in DOMAIN list, new = RemoveAt(list, i)
      PROVE  new \in Seq(Path)
  BY <1>4, Removed
<1> DEFINE A1 == {Append(list, NewPath)}
           A2 == {[list EXCEPT ![i].alias = a] : i \in DOMAIN list, a \in AnyAlias}
           A3 == {[list EXCEPT ![i][r] = 1 - @] : i \in DOMAIN list,
                    r \in {"read", "write", "delete", "subdirs"}}
           A4 == {RemoveAt(list, i) : i \in {i \in DOMAIN list : list[i].alias = NoAlias}}
<1>5. PathEdits(list) = A1 \cup A2 \cup A3 \cup A4
  BY DEF PathEdits
<1>6. new \in A1 => new \in Seq(Path)
  BY <1>1
<1>7. new \in A2 => new \in Seq(Path)
  BY <1>2
<1>8. new \in A3 => new \in Seq(Path)
  BY <1>3
<1>9. new \in A4 => new \in Seq(Path)
  BY <1>4
<1> HIDE DEF A1, A2, A3, A4
<1> QED  BY <1>5, <1>6, <1>7, <1>8, <1>9

LEMMA PageEdited ==
  ASSUME NEW p \in Pages, shown[p][1] \in PageOf(p), NEW new \in Edits(p)
  PROVE  new \in PageOf(p)
<1> DEFINE x == shown[p][1]
<1>1. CASE p = "users"
  <2>1. Edits(p) = UserEdits(x) /\ PageOf(p) = Seq(User)
    BY <1>1, TextPages DEF Edits, PageOf
  <2> HIDE DEF x
  <2> QED  BY <2>1, UsersEdited DEF x
<1>2. CASE p = "paths"
  <2>1. Edits(p) = PathEdits(x) /\ PageOf(p) = Seq(Path)
    BY <1>2, TextPages DEF Edits, PageOf
  <2> HIDE DEF x
  <2> QED  BY <2>1, PathsEdited DEF x
<1>3. CASE p = "general"
  <2>1. Edits(p) = Numbers /\ PageOf(p) = Numbers
    BY <1>3, TextPages DEF Edits, PageOf
  <2> QED  BY <2>1
<1>4. CASE p \in Texts
  <2>1. Edits(p) = Typed
    BY <1>4, TextPages DEF Edits
  <2> QED  BY <1>4, <2>1, TextPages, SettingsAssumption
<1> QED  BY <1>1, <1>2, <1>3, <1>4, TextPages

(* What Use and Save take over can be in force. *)
LEMMA TakenOver ==
  ASSUME InForce(settings), WindowInv, NEW J
  PROVE  InForce([p \in Pages |-> Get(p, J)])
<1> DEFINE s == [p \in Pages |-> Get(p, J)]
<1>1. ASSUME NEW p \in {"users", "paths", "general"} PROVE s[p] \in PageOf(p)
  <2>1. p \in Pages /\ p \notin Texts
    BY TextPages
  <2>2. CASE shown[p] = <<>>
    BY <2>1, <2>2, PagesInForce DEF Get
  <2>3. CASE shown[p] # <<>>
    BY <2>1, <2>3 DEF Get, WindowInv
  <2> QED  BY <2>2, <2>3
<1>2. ASSUME NEW p \in Texts PROVE s[p] \in Seq(Words \ {<<>>})
  <2>1. p \in Pages /\ PageOf(p) = Seq(Words)
    BY TextPages
  <2>2. CASE shown[p] = <<>>
    BY <2>1, <2>2 DEF Get, InForce
  <2>3. CASE shown[p] # <<>>
    <3> DEFINE text == shown[p][1]
               K == {i \in DOMAIN text : <<p, i>> \in J}
    <3>1. text \in Seq(Words) /\ s[p] = Got(text, K)
      BY <2>1, <2>3 DEF Get, WindowInv
    <3> HIDE DEF text, K
    <3> QED  BY <3>1, GotNoBlank DEF Lines
  <2> QED  BY <2>2, <2>3
<1>3. s = [p \in Pages |-> s[p]]
  OBVIOUS
<1> HIDE DEF s
<1>4. s["users"] \in Seq(User) /\ s["paths"] \in Seq(Path) /\ s["general"] \in Numbers
  BY <1>1 DEF PageOf
<1>5. InForce(s)
  BY <1>2, <1>3, <1>4 DEF InForce
<1> QED  BY <1>5 DEF s

(* What an untouched page gives back is what it took. *)
LEMMA GivenBack ==
  ASSUME InForce(settings), WindowInv, NEW J, NEW p \in Pages \ {"goodbye"}, p \notin edited
  PROVE  Get(p, J) = settings[p]
<1>1. CASE shown[p] = <<>>
  BY <1>1 DEF Get
<1>2. CASE shown[p] # <<>>
  <2>1. shown[p][1] = settings[p]
    BY <1>2 DEF WindowInv
  <2>2. CASE p \in Texts
    <3> DEFINE text == shown[p][1]
               K == {i \in DOMAIN text : <<p, i>> \in J}
    <3>1. text \in Lines /\ Get(p, J) = Got(text, K)
      BY <1>2, <2>1, <2>2 DEF Get, InForce, Lines
    <3> HIDE DEF K
    <3>2. Got(text, K) = text
      BY <3>1, GotSame
    <3> QED  BY <2>1, <3>1, <3>2
  <2>3. CASE p \notin Texts
    BY <1>2, <2>1, <2>3 DEF Get
  <2> QED  BY <2>2, <2>3
<1> QED  BY <1>1, <1>2

LEMMA NextSettings == SettingsInv /\ [Next]_vars => SettingsInv'
<1> SUFFICES ASSUME SettingsInv, [Next]_vars PROVE SettingsInv'
  OBVIOUS
<1> USE DEF SettingsInv
<1>1. CASE OpenWindow
  BY <1>1 DEF OpenWindow, ForceInv, FilesInv, WindowInv
<1>2. ASSUME NEW p \in Pages, ShowPage(p) PROVE SettingsInv'
  <2>1. ForceInv' /\ FilesInv'
    BY <1>2 DEF ShowPage, ForceInv, FilesInv
  <2>2. Set(p) \in PageOf(p) /\ (p # "goodbye" => Set(p) = settings[p])
    <3>1. settings[p] \in PageOf(p)
      BY PagesInForce DEF ForceInv
    <3>2. p = "goodbye" => <<>> \in PageOf(p)
      BY DEF PageOf
    <3> QED  BY <3>1, <3>2 DEF Set
  <2>3. shown' = [shown EXCEPT ![p] = <<Set(p)>>] /\ open /\ open' = open
        /\ edited' = edited /\ settings' = settings
    BY <1>2 DEF ShowPage
  <2> DEFINE x == Set(p)
  <2> HIDE DEF x
  <2>4. WindowInv'
    BY <2>2, <2>3 DEF WindowInv, x
  <2> QED  BY <2>1, <2>4
<1>3. ASSUME NEW p \in Pages, Edit(p) PROVE SettingsInv'
  <2>1. ForceInv' /\ FilesInv'
    BY <1>3 DEF Edit, ForceInv, FilesInv
  <2>2. PICK new \in Edits(p) : shown' = [shown EXCEPT ![p] = <<new>>]
    BY <1>3 DEF Edit
  <2>3. new \in PageOf(p)
    BY <1>3, PageEdited DEF Edit, WindowInv
  <2>4. open /\ open' = open /\ edited' = edited \cup {p} /\ settings' = settings
    BY <1>3 DEF Edit
  <2>5. WindowInv'
    BY <2>2, <2>3, <2>4 DEF WindowInv
  <2> QED  BY <2>1, <2>5
<1>4. ASSUME NEW status \in {"cancel", "use", "save"}, Close(status) PROVE SettingsInv'
  <2>1. InForce(settings')
    <3>1. CASE status = "cancel"
      BY <1>4, <3>1 DEF Close, ForceInv
    <3>2. CASE status # "cancel"
      <4>1. PICK J : settings' = [p \in Pages |-> Get(p, J)]
        BY <1>4, <3>2 DEF Close
      <4> QED  BY <4>1, TakenOver DEF ForceInv
    <3> QED  BY <3>1, <3>2
  <2>2. \/ envarc' = envarc /\ archived' = archived
        \/ envarc' = Saved(settings') /\ archived' = settings'
    BY <1>4 DEF Close
  <2>3. \/ env' = env /\ written' = written
        \/ env' = Saved(settings') /\ written' = settings'
    BY <1>4 DEF Close
  <2>4. ForceInv'
    BY <2>1, <2>2, <2>3 DEF ForceInv
  <2>5. FilesInv'
    BY <2>2, <2>3 DEF FilesInv
  <2>6. shown' = [p \in Pages |-> IF p \in Disposed THEN <<>> ELSE shown[p]]
    BY <1>4 DEF Close
  <2>7. WindowInv'
    BY <2>6 DEF WindowInv, Disposed
  <2> QED  BY <2>4, <2>5, <2>7
<1>5. CASE Start
  <2>1. InForce(Load(env))
    BY LoadedInForce DEF ForceInv, FilesInv
  <2>2. ForceInv' /\ FilesInv'
    BY <1>5, <2>1 DEF Start, ForceInv, FilesInv
  <2>3. WindowInv'
    BY <1>5 DEF Start, WindowInv
  <2> QED  BY <2>2, <2>3
<1>6. CASE Reboot
  <2>1. InForce(Load(envarc))
    BY LoadedInForce DEF ForceInv, FilesInv
  <2>2. ForceInv' /\ FilesInv'
    BY <1>6, <2>1 DEF Reboot, ForceInv, FilesInv
  <2>3. WindowInv'
    BY <1>6 DEF Reboot, WindowInv
  <2> QED  BY <2>2, <2>3
<1>7. CASE UNCHANGED vars
  BY <1>7 DEF vars, ForceInv, FilesInv, WindowInv
<1> QED  BY <1>1, <1>2, <1>3, <1>4, <1>5, <1>6, <1>7 DEF Next

LEMMA SettingsAlways == Spec => []SettingsInv
BY InitSettings, NextSettings, PTL DEF Spec

-----------------------------------------------------------------------------
(* What follows. *)

(* What Use and Save wrote is what the next start and the next boot give back, for
   every list of accounts and aliases and every text without a heading behind a line
   of white space: no line that is empty or looks like a heading ends or begins a
   section, and what is lost of a text is the white space at the ends of its lines
   and what stands from its first line of white space on (ftpd.c 625-705). *)
THEOREM SettingsComeBack == Spec => []RestartKeeps
<1>1. SettingsInv => RestartKeeps
  BY LoadSaved DEF SettingsInv, ForceInv, FilesInv, RestartKeeps
<1> QED  BY <1>1, SettingsAlways, PTL

(* Use and Save change only what the operator has edited since the window was
   opened, and Cancel nothing, but for the page of the goodbye text
   (ftpd_mui_prefs.c 70-111): a page that was only looked at gives back what it took,
   through the dots and joined lines of GetX(). *)
THEOREM OnlyEditedChange == Spec => EditedOnly
<1>1. SettingsInv /\ [Next]_vars =>
        ((\E status \in {"cancel", "use", "save"} : Close(status)) =>
           \A p \in Pages \ {"goodbye"} : settings'[p] # settings[p] => p \in edited)
  <2> SUFFICES ASSUME SettingsInv, NEW status \in {"cancel", "use", "save"}, Close(status),
                      NEW p \in Pages \ {"goodbye"}, p \notin edited
               PROVE  settings'[p] = settings[p]
    OBVIOUS
  <2>1. CASE status = "cancel"
    BY <2>1 DEF Close
  <2>2. CASE status # "cancel"
    <3>1. PICK J : settings' = [q \in Pages |-> Get(q, J)]
      BY <2>2 DEF Close
    <3>2. Get(p, J) = settings[p]
      BY GivenBack DEF SettingsInv, ForceInv
    <3> QED  BY <3>1, <3>2
  <2> QED  BY <2>1, <2>2
<1>2. Spec => [][(\E status \in {"cancel", "use", "save"} : Close(status)) =>
       \A p \in Pages \ {"goodbye"} : settings'[p] # settings[p] => p \in edited]_vars
  BY <1>1, SettingsAlways, PTL DEF Spec
<1> QED  BY <1>2 DEF EditedOnly

=============================================================================
