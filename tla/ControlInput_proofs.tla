----------------------- MODULE ControlInput_proofs -----------------------
(***************************************************************************)
(* However recv() cuts the stream of a control connection, the commands    *)
(* that are run are those that were said: for every buffer, every set of   *)
(* commands and every number of them.                                      *)
(*                                                                         *)
(* The parser is a loop over a line of any length.  Drives(p, w, q) says   *)
(* that the bytes w take it from p to q; such runs are put one behind the  *)
(* other, and the run over a whole line is its parse (ParseIs, by the      *)
(* induction of NatRecursion).  StreamInv says that the text in input and  *)
(* the bytes under way are, together, exactly the commands not run yet,    *)
(* behind a line feed that an earlier call may have left.                  *)
(***************************************************************************)
EXTENDS ControlInput, SequenceTheorems, NatRecursion

-----------------------------------------------------------------------------
(* The parser.  Drives(p, w, q): from the state p the bytes w lead to q. *)

Passes(g, p, w) ==
  /\ g \in [0..Len(w) -> Parsing]
  /\ g[0] = p
  /\ \A i \in 1..Len(w) : g[i] = parse_byte(g[i - 1], w[i])

Drives(p, w, q) == \E g : Passes(g, p, w) /\ g[Len(w)] = q

(* A text that leads from NoParse to q is parsed as q. *)
LEMMA ParseIs ==
  ASSUME NEW w \in Seq(Byte), NEW q, Drives(NoParse, w, q)
  PROVE  parse[w] = q
<1> DEFINE n == Len(w)
           Body(f) == [i \in 0..n |->
             IF i = 0 THEN NoParse
             ELSE [p \in Parsing |-> parse_byte(p, w[i])][f[i - 1]]]
           F == CHOOSE f : f = Body(f)
<1>0. n \in Nat
  OBVIOUS
<1>1. PICK g : Passes(g, NoParse, w) /\ g[n] = q
  BY DEF Drives
<1>2. g = Body(g)
  BY <1>0, <1>1 DEF Passes
<1>3. F = Body(F)
  BY <1>2
<1>4. parse[w] = F[n]
  BY DEF parse
<1>5. \A i \in 0..n : F[i] = Body(F)[i]
  BY <1>3
<1> HIDE DEF F
<1>6. F[0] = NoParse
      /\ \A i \in 1..n : F[i - 1] \in Parsing => F[i] = parse_byte(F[i - 1], w[i])
  <2>1. F[0] = NoParse
    <3>1. 0 \in 0..n
      BY <1>0
    <3>2. F[0] = Body(F)[0]
      BY <1>5, <3>1
    <3>3. Body(F)[0] = NoParse
      BY <3>1
    <3> QED  BY <3>2, <3>3, Zenon
  <2>2. \A i \in 1..n : F[i] = [p \in Parsing |-> parse_byte(p, w[i])][F[i - 1]]
    BY <1>0, <1>5
  <2>3. \A b : \A x \in Parsing : [p \in Parsing |-> parse_byte(p, b)][x] = parse_byte(x, b)
    OBVIOUS
  <2> HIDE DEF n
  <2> QED  BY <2>1, <2>2, <2>3, Zenon
<1> DEFINE S == {i \in 0..n : F[i] = g[i]}
<1>7. 0 \in S
  BY <1>0, <1>1, <1>6 DEF Passes
<1>8. \A k \in 1..n : k - 1 \in S => k \in S
  BY <1>0, <1>1, <1>6 DEF Passes
<1>9. n \in S
  <2> HIDE DEF S
  <2>1. 0..n \subseteq S
    BY <1>0, <1>7, <1>8, InductionUpTo
  <2> QED  BY <1>0, <2>1
<1> QED  BY <1>1, <1>4, <1>9

(* The parser stays where it is without a byte, goes on by one, and goes on
   where it was. *)
LEMMA DriveNothing ==
  ASSUME NEW p \in Parsing
  PROVE  Drives(p, <<>>, p)
<1>1. Passes([i \in 0..0 |-> p], p, <<>>)
  BY DEF Passes
<1> QED  BY <1>1 DEF Drives

LEMMA DriveByte ==
  ASSUME NEW p \in Parsing, NEW b \in Byte, NEW q \in Parsing, parse_byte(p, b) = q
  PROVE  Drives(p, <<b>>, q)
<1> DEFINE g == [i \in 0..1 |-> IF i = 0 THEN p ELSE q]
<1>1. Len(<<b>>) = 1 /\ <<b>>[1] = b /\ 1..1 = {1}
  OBVIOUS
<1>2. g \in [0..1 -> Parsing] /\ g[0] = p /\ g[1] = q
  OBVIOUS
<1> HIDE DEF g
<1>3. Passes(g, p, <<b>>)
  BY <1>1, <1>2 DEF Passes
<1> QED  BY <1>1, <1>2, <1>3 DEF Drives

LEMMA DriveOn ==
  ASSUME NEW p, NEW q, NEW r, NEW u \in Seq(Byte), NEW w \in Seq(Byte),
         Drives(p, u, q), Drives(q, w, r)
  PROVE  Drives(p, u \o w, r)
<1>1. PICK g : Passes(g, p, u) /\ g[Len(u)] = q
  BY DEF Drives
<1>2. PICK h : Passes(h, q, w) /\ h[Len(w)] = r
  BY DEF Drives
<1> DEFINE m == Len(u)
           n == Len(w)
           f == [i \in 0..(m + n) |-> IF i <= m THEN g[i] ELSE h[i - m]]
<1>3. m \in Nat /\ n \in Nat /\ u \o w \in Seq(Byte) /\ Len(u \o w) = m + n
      /\ (\A i \in 1..m : (u \o w)[i] = u[i])
      /\ (\A i \in (m + 1)..(m + n) : (u \o w)[i] = w[i - m])
  BY ConcatProperties
<1>4. g \in [0..m -> Parsing] /\ h \in [0..n -> Parsing] /\ h[0] = q /\ g[m] = q /\ g[0] = p
  BY <1>1, <1>2 DEF Passes
<1>5. f \in [0..(m + n) -> Parsing]
      /\ (\A i \in 0..m : f[i] = g[i]) /\ (\A i \in m..(m + n) : f[i] = h[i - m])
  <2> HIDE DEF m, n
  <2>1. \A i \in 0..m : i \in 0..(m + n) /\ g[i] \in Parsing
    BY <1>3, <1>4
  <2>2. \A i \in m..(m + n) : i \in 0..(m + n) /\ h[i - m] \in Parsing
    <3>1. \A i \in m..(m + n) : i - m \in 0..n
      BY <1>3
    <3> QED  BY <1>3, <1>4, <3>1
  <2>3. \A i \in 0..m : f[i] = g[i]
    BY <1>3, <2>1
  <2>4. ASSUME NEW i \in m..(m + n) PROVE f[i] = h[i - m]
    <3>1. CASE i = m
      BY <1>3, <1>4, <2>2, <3>1
    <3>2. CASE i # m
      BY <1>3, <2>2, <3>2
    <3> QED  BY <3>1, <3>2
  <2>5. \A i \in 0..(m + n) : i \in 0..m \/ i \in m..(m + n)
    BY <1>3
  <2>6. \A i \in 0..(m + n) : f[i] \in Parsing
    BY <2>1, <2>2, <2>3, <2>4, <2>5
  <2> QED  BY <2>3, <2>4, <2>6
<1> HIDE DEF f
<1>6. ASSUME NEW i \in 1..(m + n) PROVE f[i] = parse_byte(f[i - 1], (u \o w)[i])
  <2>1. CASE i <= m
    <3>1. i \in 1..m /\ i \in 0..m /\ i - 1 \in 0..m
      BY <1>3, <2>1
    <3>2. g[i] = parse_byte(g[i - 1], u[i])
      BY <1>1, <3>1 DEF Passes
    <3> QED  BY <1>3, <1>5, <3>1, <3>2
  <2>2. CASE i > m
    <3>1. i \in (m + 1)..(m + n) /\ i \in m..(m + n) /\ i - 1 \in m..(m + n) /\ i - m \in 1..n
          /\ (i - 1) - m = (i - m) - 1
      BY <1>3, <2>2
    <3>2. h[i - m] = parse_byte(h[(i - m) - 1], w[i - m])
      BY <1>2, <3>1 DEF Passes
    <3>3. f[i] = h[i - m] /\ f[i - 1] = h[(i - m) - 1] /\ (u \o w)[i] = w[i - m]
      BY <1>3, <1>5, <3>1
    <3> QED  BY <3>2, <3>3
  <2> QED  BY <1>3, <2>1, <2>2
<1>7. Passes(f, p, u \o w) /\ f[Len(u \o w)] = r
  <2>1. f[0] = p
    BY <1>3, <1>4, <1>5
  <2>2. f[m + n] = r
    <3>1. m + n \in m..(m + n) /\ (m + n) - m = n
      BY <1>3
    <3> QED  BY <1>2, <1>5, <3>1
  <2> QED  BY <1>3, <1>5, <1>6, <2>1, <2>2 DEF Passes
<1> QED  BY <1>7 DEF Drives

(* The states the parser is in while it reads a line of the peer. *)
At(mode, back, verb, args, refused, rest) ==
  [mode |-> mode, back |-> back, verb |-> verb, args |-> args,
   refused |-> refused, rest |-> rest]

LEMMA AtParsing ==
  \A mode, back \in Modes, verb, args, refused, rest \in Seq(Byte) :
    At(mode, back, verb, args, refused, rest) \in Parsing
BY DEF At, Parsing

(* The bytes that the parser looks for are no letters. *)
LEMMA Bytes ==
  /\ Eol \subseteq Byte /\ White \subseteq Byte /\ Letters \subseteq Byte
  /\ "SP" \in Byte /\ "IAC" \in Byte /\ "WILL" \in Byte /\ "DO" \in Byte /\ "DONT" \in Byte
  /\ "SP" \notin Eol /\ "SP" \in White /\ "NUL" \in Byte
  /\ Letters \cap (White \cup {"NUL", "IAC", "WILL", "DO", "DONT"}) = {}
BY InputAssumption DEF Eol, White, Byte

First4(v) == SubSeq(v, 1, Min({4, Len(v)}))

LEMMA MinOfTwo ==
  ASSUME NEW a \in Int, NEW b \in Int
  PROVE  Min({a, b}) = IF a <= b THEN a ELSE b
<1>1. \E x \in {a, b} : \A y \in {a, b} : x =< y
  OBVIOUS
<1>2. Min({a, b}) \in {a, b} /\ \A y \in {a, b} : Min({a, b}) =< y
  BY <1>1 DEF Min
<1> QED  BY <1>2

(* The first byte alone decides how two states differ. *)
LEMMA DriveSame ==
  ASSUME NEW p \in Parsing, NEW r \in Parsing, NEW w \in Seq(Byte), NEW q,
         w # <<>>, Drives(p, w, q), parse_byte(r, w[1]) = parse_byte(p, w[1])
  PROVE  Drives(r, w, q)
<1>1. PICK g : Passes(g, p, w) /\ g[Len(w)] = q
  BY DEF Drives
<1> DEFINE f == [g EXCEPT ![0] = r]
<1>2. Len(w) \in Nat \ {0}
  OBVIOUS
<1>3. g \in [0..Len(w) -> Parsing] /\ g[0] = p
      /\ \A i \in 1..Len(w) : g[i] = parse_byte(g[i - 1], w[i])
  BY <1>1 DEF Passes
<1>4. f \in [0..Len(w) -> Parsing] /\ f[0] = r /\ \A i \in 1..Len(w) : f[i] = g[i]
  BY <1>2, <1>3
<1> HIDE DEF f
<1>5. ASSUME NEW i \in 1..Len(w) PROVE f[i] = parse_byte(f[i - 1], w[i])
  <2>1. CASE i = 1
    BY <1>3, <1>4, <2>1
  <2>2. CASE i # 1
    <3>1. i - 1 \in 1..Len(w)
      BY <1>2, <2>2
    <3> QED  BY <1>3, <1>4, <3>1
  <2> QED  BY <2>1, <2>2
<1> QED  BY <1>1, <1>2, <1>4, <1>5 DEF Passes, Drives

(* What the loop over the line does with one byte, in each part of the line. *)
LEMMA ByteInVerb ==
  ASSUME NEW back, NEW verb, NEW refused, NEW b \in Letters
  PROVE  parse_byte(At("verb", back, verb, <<>>, refused, <<>>), b)
           = At("verb", back, IF Len(verb) < 4 THEN Append(verb, b) ELSE verb,
                <<>>, refused, <<>>)
<1>1. b \notin White /\ b \notin Eol /\ b # "IAC" /\ b # "SP"
  BY Bytes DEF White
<1> QED  BY <1>1 DEF parse_byte, InLine, At

LEMMA ByteInArgs ==
  ASSUME NEW back, NEW verb, NEW args, NEW refused, NEW b \in Letters
  PROVE  parse_byte(At("args", back, verb, args, refused, <<>>), b)
           = At("args", back, verb, Append(args, b), refused, <<>>)
<1>1. b \notin White /\ b \notin Eol /\ b # "IAC" /\ b # "SP"
  BY Bytes DEF White
<1> QED  BY <1>1 DEF parse_byte, InLine, At

LEMMA ByteInRest ==
  ASSUME NEW back, NEW verb, NEW args, NEW refused, NEW rest, NEW b
  PROVE  parse_byte(At("rest", back, verb, args, refused, rest), b)
           = At("rest", back, verb, args, refused, Append(rest, b))
BY DEF parse_byte, At

(* A byte that is not white opens the verb, the arguments and the rest. *)
LEMMA ByteOpens ==
  ASSUME NEW back, NEW verb, NEW args, NEW refused, NEW rest, NEW b, b \notin White
  PROVE  /\ parse_byte(At("lead", back, verb, args, refused, rest), b)
              = parse_byte(At("verb", back, verb, args, refused, rest), b)
         /\ parse_byte(At("gap", back, verb, args, refused, rest), b)
              = parse_byte(At("args", back, verb, args, refused, rest), b)
         /\ parse_byte(At("tail", back, verb, args, refused, rest), b)
              = parse_byte(At("rest", back, verb, args, refused, rest), b)
<1>1. parse_byte(At("lead", back, verb, args, refused, rest), b)
        = InLine(At("verb", back, verb, args, refused, rest), b)
  BY DEF parse_byte, At
<1>2. parse_byte(At("verb", back, verb, args, refused, rest), b)
        = InLine(At("verb", back, verb, args, refused, rest), b)
  BY DEF parse_byte, At
<1>3. parse_byte(At("gap", back, verb, args, refused, rest), b)
        = InLine(At("args", back, verb, args, refused, rest), b)
  BY DEF parse_byte, At
<1>4. parse_byte(At("args", back, verb, args, refused, rest), b)
        = InLine(At("args", back, verb, args, refused, rest), b)
  BY DEF parse_byte, At
<1>5. parse_byte(At("tail", back, verb, args, refused, rest), b)
        = At("rest", back, verb, args, refused, Append(rest, b))
  BY DEF parse_byte, At
<1> QED  BY <1>1, <1>2, <1>3, <1>4, <1>5, ByteInRest

(* The end of a line ends either part. *)
LEMMA ByteEnds ==
  ASSUME NEW mode \in {"verb", "args"}, NEW back, NEW verb, NEW args, NEW refused,
         NEW rest, NEW b \in Eol
  PROVE  parse_byte(At(mode, back, verb, args, refused, rest), b)
           = At("tail", back, verb, args, refused, rest)
<1>1. parse_byte(At(mode, back, verb, args, refused, rest), b)
        = InLine(At(mode, back, verb, args, refused, rest), b)
  BY DEF parse_byte, At
<1>2. InLine(At(mode, back, verb, args, refused, rest), b)
        = At("tail", back, verb, args, refused, rest)
  BY DEF InLine, At, Eol
<1> QED  BY <1>1, <1>2

(* White space is skipped in front of the verb, of the arguments and of the
   next line; a blank ends the verb. *)
LEMMA WhiteSkipped ==
  ASSUME NEW mode \in {"lead", "gap", "tail"}, NEW back, NEW verb, NEW args,
         NEW refused, NEW rest, NEW b \in White
  PROVE  parse_byte(At(mode, back, verb, args, refused, rest), b)
           = At(mode, back, verb, args, refused, rest)
BY DEF parse_byte, At

LEMMA BlankEndsVerb ==
  ASSUME NEW back, NEW verb, NEW refused
  PROVE  parse_byte(At("verb", back, verb, <<>>, refused, <<>>), "SP")
           = At("gap", back, verb, <<>>, refused, <<>>)
BY DEF parse_byte, At, InLine, Eol, White

-----------------------------------------------------------------------------

(* The letters of a verb, of which four are kept. *)
LEMMA DriveVerb ==
  ASSUME NEW v \in Seq(Letters), NEW back \in Modes, NEW refused \in Seq(Byte)
  PROVE  Drives(At("verb", back, <<>>, <<>>, refused, <<>>), v,
                At("verb", back, First4(v), <<>>, refused, <<>>))
<1> DEFINE n == Len(v)
           kept(i) == SubSeq(v, 1, IF i < 4 THEN i ELSE 4)
           g == [i \in 0..n |-> At("verb", back, kept(i), <<>>, refused, <<>>)]
<1>0. n \in Nat /\ v \in Seq(Byte) /\ "verb" \in Modes /\ <<>> \in Seq(Byte)
  BY Bytes, SeqMonotonic DEF Modes
<1>1. \A i \in 0..n : kept(i) \in Seq(Byte)
  BY <1>0
<1>2. g \in [0..n -> Parsing]
  <2>1. \A i \in 0..n : At("verb", back, kept(i), <<>>, refused, <<>>) \in Parsing
    BY <1>0, <1>1, AtParsing
  <2> QED  BY <2>1
<1>3. kept(0) = <<>>
  BY <1>0
<1>4. ASSUME NEW i \in 1..n
      PROVE  kept(i) = IF Len(kept(i - 1)) < 4 THEN Append(kept(i - 1), v[i]) ELSE kept(i - 1)
  <2>1. CASE i <= 4
    <3>1. kept(i) = SubSeq(v, 1, i) /\ kept(i - 1) = SubSeq(v, 1, i - 1) /\ Len(kept(i - 1)) = i - 1
      BY <1>0, <2>1
    <3>2. SubSeq(v, 1, i) = Append(SubSeq(v, 1, i - 1), v[i])
      BY <1>0
    <3> QED  BY <2>1, <3>1, <3>2
  <2>2. CASE i > 4
    <3>1. kept(i) = SubSeq(v, 1, 4) /\ kept(i - 1) = SubSeq(v, 1, 4) /\ Len(SubSeq(v, 1, 4)) = 4
      BY <1>0, <2>2
    <3> QED  BY <3>1
  <2> QED  BY <1>0, <2>1, <2>2
<1>5. ASSUME NEW i \in 1..n PROVE g[i] = parse_byte(g[i - 1], v[i])
  <2>1. v[i] \in Letters /\ i \in 0..n /\ i - 1 \in 0..n
    BY <1>0
  <2>2. g[i] = At("verb", back, kept(i), <<>>, refused, <<>>)
        /\ g[i - 1] = At("verb", back, kept(i - 1), <<>>, refused, <<>>)
    BY <2>1
  <2> HIDE DEF g, kept
  <2>3. parse_byte(g[i - 1], v[i]) = At("verb", back,
            IF Len(kept(i - 1)) < 4 THEN Append(kept(i - 1), v[i]) ELSE kept(i - 1),
            <<>>, refused, <<>>)
    BY <2>1, <2>2, ByteInVerb
  <2> QED  BY <2>2, <2>3, <1>4
<1>6. kept(n) = First4(v)
  <2>1. Min({4, n}) = IF 4 <= n THEN 4 ELSE n
    BY <1>0, MinOfTwo
  <2>2. (IF n < 4 THEN n ELSE 4) = Min({4, n})
    BY <1>0, <2>1
  <2> QED  BY <2>2 DEF First4
<1>7. g[0] = At("verb", back, <<>>, <<>>, refused, <<>>)
      /\ g[n] = At("verb", back, First4(v), <<>>, refused, <<>>)
  <2>1. 0 \in 0..n /\ n \in 0..n
    BY <1>0
  <2> HIDE DEF n, kept
  <2> QED  BY <2>1, <1>0, <1>3, <1>6
<1> HIDE DEF g, kept
<1> QED  BY <1>0, <1>2, <1>5, <1>7 DEF Passes, Drives

LEMMA DriveArgs ==
  ASSUME NEW a \in Seq(Letters), NEW back \in Modes, NEW verb \in Seq(Byte),
         NEW refused \in Seq(Byte)
  PROVE  Drives(At("args", back, verb, <<>>, refused, <<>>), a,
                At("args", back, verb, a, refused, <<>>))
<1> DEFINE n == Len(a)
           kept(i) == SubSeq(a, 1, i)
           g == [i \in 0..n |-> At("args", back, verb, kept(i), refused, <<>>)]
<1>0. n \in Nat /\ a \in Seq(Byte) /\ "args" \in Modes /\ <<>> \in Seq(Byte)
  BY Bytes, SeqMonotonic DEF Modes
<1>1. \A i \in 0..n : kept(i) \in Seq(Byte)
  BY <1>0
<1>2. g \in [0..n -> Parsing]
  <2>1. \A i \in 0..n : At("args", back, verb, kept(i), refused, <<>>) \in Parsing
    BY <1>0, <1>1, AtParsing
  <2> QED  BY <2>1
<1>3. kept(0) = <<>> /\ kept(n) = a
  BY <1>0
<1>4. \A i \in 1..n : kept(i) = Append(kept(i - 1), a[i])
  BY <1>0
<1>5. ASSUME NEW i \in 1..n PROVE g[i] = parse_byte(g[i - 1], a[i])
  <2>1. a[i] \in Letters /\ i \in 0..n /\ i - 1 \in 0..n
    BY <1>0
  <2>2. g[i] = At("args", back, verb, kept(i), refused, <<>>)
        /\ g[i - 1] = At("args", back, verb, kept(i - 1), refused, <<>>)
    BY <2>1
  <2> HIDE DEF g, kept
  <2>3. parse_byte(g[i - 1], a[i])
          = At("args", back, verb, Append(kept(i - 1), a[i]), refused, <<>>)
    BY <2>1, <2>2, ByteInArgs
  <2> QED  BY <2>2, <2>3, <1>4
<1>7. g[0] = At("args", back, verb, <<>>, refused, <<>>)
      /\ g[n] = At("args", back, verb, a, refused, <<>>)
  <2>1. 0 \in 0..n /\ n \in 0..n
    BY <1>0
  <2> HIDE DEF n, kept
  <2> QED  BY <2>1, <1>0, <1>3
<1> HIDE DEF g, kept
<1> QED  BY <1>0, <1>2, <1>5, <1>7 DEF Passes, Drives

LEMMA DriveRest ==
  ASSUME NEW r \in Seq(Byte), NEW back \in Modes, NEW verb \in Seq(Byte),
         NEW args \in Seq(Byte), NEW refused \in Seq(Byte)
  PROVE  Drives(At("rest", back, verb, args, refused, <<>>), r,
                At("rest", back, verb, args, refused, r))
<1> DEFINE n == Len(r)
           kept(i) == SubSeq(r, 1, i)
           g == [i \in 0..n |-> At("rest", back, verb, args, refused, kept(i))]
<1>0. n \in Nat /\ "rest" \in Modes /\ <<>> \in Seq(Byte)
  BY DEF Modes
<1>1. \A i \in 0..n : kept(i) \in Seq(Byte)
  BY <1>0
<1>2. g \in [0..n -> Parsing]
  <2>1. \A i \in 0..n : At("rest", back, verb, args, refused, kept(i)) \in Parsing
    BY <1>0, <1>1, AtParsing
  <2> QED  BY <2>1
<1>3. kept(0) = <<>> /\ kept(n) = r
  BY <1>0
<1>4. \A i \in 1..n : kept(i) = Append(kept(i - 1), r[i])
  BY <1>0
<1>5. ASSUME NEW i \in 1..n PROVE g[i] = parse_byte(g[i - 1], r[i])
  <2>1. i \in 0..n /\ i - 1 \in 0..n
    BY <1>0
  <2>2. g[i] = At("rest", back, verb, args, refused, kept(i))
        /\ g[i - 1] = At("rest", back, verb, args, refused, kept(i - 1))
    BY <2>1
  <2> HIDE DEF g, kept
  <2>3. parse_byte(g[i - 1], r[i])
          = At("rest", back, verb, args, refused, Append(kept(i - 1), r[i]))
    BY <2>1, <2>2, ByteInRest
  <2> QED  BY <2>2, <2>3, <1>4
<1>7. g[0] = At("rest", back, verb, args, refused, <<>>)
      /\ g[n] = At("rest", back, verb, args, refused, r)
  <2>1. 0 \in 0..n /\ n \in 0..n
    BY <1>0
  <2> HIDE DEF n, kept
  <2> QED  BY <2>1, <1>0, <1>3
<1> HIDE DEF g, kept
<1> QED  BY <1>0, <1>2, <1>5, <1>7 DEF Passes, Drives

-----------------------------------------------------------------------------
(* A command of the peer, as far as the end of its line. *)
Spoken(t, c) ==
  t \o c.verb \o (IF c.args = <<>> THEN <<>> ELSE <<"SP">> \o c.args)

Fresh == At("verb", "lead", <<>>, <<>>, <<>>, <<>>)

(* Between the white space in front of a line and its first byte nothing
   happens but the change of the mode. *)
LEMMA FreshParsing ==
  /\ Fresh \in Parsing /\ NoParse \in Parsing
  /\ NoParse = At("lead", "lead", <<>>, <<>>, <<>>, <<>>)
  /\ \A b : b \notin White => parse_byte(NoParse, b) = parse_byte(Fresh, b)
<1>1. NoParse = At("lead", "lead", <<>>, <<>>, <<>>, <<>>)
  BY DEF NoParse, At
<1>2. "lead" \in Modes /\ "verb" \in Modes /\ <<>> \in Seq(Byte)
  BY DEF Modes
<1>3. Fresh \in Parsing /\ NoParse \in Parsing
  BY <1>1, <1>2, AtParsing DEF Fresh
<1> QED  BY <1>1, <1>3, ByteOpens DEF Fresh

(* What a command and its Telnet negotiation are made of. *)
LEMMA CommandTyped ==
  ASSUME NEW c \in Commands
  PROVE  /\ c.verb \in Seq(Letters) /\ c.verb # <<>> /\ c.args \in Seq(Letters)
         /\ c.verb \in Seq(Byte) /\ c.args \in Seq(Byte)
         /\ First4(c.verb) \in Seq(Byte) /\ First4(c.verb) # <<>>
<1>1. c.verb \in Seq(Letters) /\ c.verb # <<>> /\ c.args \in Seq(Letters)
  BY InputAssumption
<1>2. c.verb \in Seq(Byte) /\ c.args \in Seq(Byte)
  BY <1>1, Bytes, SeqMonotonic
<1>3. Min({4, Len(c.verb)}) \in 1..Len(c.verb)
  <2>1. Len(c.verb) \in Nat \ {0}
    BY <1>1
  <2> QED  BY <2>1, MinOfTwo
<1>4. First4(c.verb) \in Seq(Byte) /\ Len(First4(c.verb)) = Min({4, Len(c.verb)})
  <2>1. \A n \in 1..Len(c.verb) : SubSeq(c.verb, 1, n) \in Seq(Byte) /\ Len(SubSeq(c.verb, 1, n)) = n
    BY <1>2
  <2> QED  BY <1>3, <2>1 DEF First4
<1> QED  BY <1>1, <1>2, <1>3, <1>4

LEMMA TelnetTyped ==
  ASSUME NEW t \in Telnet
  PROVE  /\ t \in Seq(Byte) /\ Refused(t) \in Seq(Byte)
         /\ t # <<>> => \E k \in {"WILL", "DO", "DONT"}, o \in Letters :
              /\ t = <<"IAC", k, o>>
              /\ Refused(t) = IF k # "DONT" THEN <<o>> ELSE <<>>
<1>1. CASE t = <<>>
  BY <1>1 DEF Refused
<1>2. CASE t # <<>>
  <2>1. PICK k \in {"WILL", "DO", "DONT"}, o \in Options : t = <<"IAC", k, o>>
    BY <1>2 DEF Telnet
  <2>2. o \in Letters /\ o \in Byte /\ k \in Byte /\ "IAC" \in Byte
    BY InputAssumption, Bytes
  <2>3. Refused(t) = IF k # "DONT" THEN <<o>> ELSE <<>>
    BY <2>1 DEF Refused
  <2>4. t \in Seq(Byte)
    BY <2>1, <2>2
  <2>5. Refused(t) \in Seq(Byte)
    BY <2>2, <2>3
  <2> QED  BY <2>1, <2>2, <2>3, <2>4, <2>5
<1> QED  BY <1>1, <1>2

LEMMA ShortConcat ==
  \A S : \A a, b, d \in S :
    <<a>> \o <<b>> = <<a, b>> /\ <<a>> \o <<b, d>> = <<a, b, d>>
<1> SUFFICES ASSUME NEW S, NEW a \in S, NEW b \in S, NEW d \in S
             PROVE  <<a>> \o <<b>> = <<a, b>> /\ <<a>> \o <<b, d>> = <<a, b, d>>
  OBVIOUS
<1>1. <<a>> \in Seq(S) /\ <<b>> \in Seq(S) /\ <<a, b>> \in Seq(S)
      /\ <<b, d>> \in Seq(S) /\ <<a, b, d>> \in Seq(S)
      /\ Len(<<a>>) = 1 /\ Len(<<b>>) = 1 /\ Len(<<a, b>>) = 2
      /\ Len(<<b, d>>) = 2 /\ Len(<<a, b, d>>) = 3
  OBVIOUS
<1>2. <<a>> \o <<b>> = <<a, b>>
  <2>1. <<a>> \o <<b>> \in Seq(S) /\ Len(<<a>> \o <<b>>) = 2
        /\ \A i \in 1..2 : (<<a>> \o <<b>>)[i] = IF i <= 1 THEN <<a>>[i] ELSE <<b>>[i - 1]
    BY <1>1, ConcatProperties
  <2>2. \A i \in 1..2 : (<<a>> \o <<b>>)[i] = <<a, b>>[i]
    BY <2>1
  <2> QED  BY <1>1, <2>1, <2>2, SeqEqual
<1>3. <<a>> \o <<b, d>> = <<a, b, d>>
  <2>1. <<a>> \o <<b, d>> \in Seq(S) /\ Len(<<a>> \o <<b, d>>) = 3
        /\ \A i \in 1..3 : (<<a>> \o <<b, d>>)[i] = IF i <= 1 THEN <<a>>[i] ELSE <<b, d>>[i - 1]
    BY <1>1, ConcatProperties
  <2>2. \A i \in 1..3 : (<<a>> \o <<b, d>>)[i] = <<a, b, d>>[i]
    BY <2>1
  <2> QED  BY <1>1, <2>1, <2>2, SeqEqual
<1> QED  BY <1>2, <1>3

(* A Telnet sequence leaves the option in refused, or nothing (ftpd.c 1046-1058). *)
LEMMA DriveTelnet ==
  ASSUME NEW t \in Telnet, t # <<>>
  PROVE  Drives(Fresh, t, At("verb", "verb", <<>>, <<>>, Refused(t), <<>>))
<1>1. PICK k \in {"WILL", "DO", "DONT"}, o \in Letters :
        /\ t = <<"IAC", k, o>>
        /\ Refused(t) = IF k # "DONT" THEN <<o>> ELSE <<>>
  BY TelnetTyped
<1> DEFINE P1 == At("IAC", "verb", <<>>, <<>>, <<>>, <<>>)
           P2 == At(IF k = "DONT" THEN "skip" ELSE "offer", "verb", <<>>, <<>>, <<>>, <<>>)
           P3 == At("verb", "verb", <<>>, <<>>, Refused(t), <<>>)
<1>2. "IAC" \in Byte /\ k \in Byte /\ o \in Byte
      /\ {"IAC", "verb", "skip", "offer"} \subseteq Modes /\ <<>> \in Seq(Byte)
      /\ Refused(t) \in Seq(Byte)
  BY Bytes, TelnetTyped DEF Modes
<1>3. P1 \in Parsing /\ P2 \in Parsing /\ P3 \in Parsing /\ Fresh \in Parsing
  BY <1>2, AtParsing, FreshParsing
<1>4. parse_byte(Fresh, "IAC") = P1
  BY DEF Fresh, parse_byte, InLine, At, White, Eol
<1>5. parse_byte(P1, k) = P2
  BY DEF parse_byte, AfterIac, At
<1>6. parse_byte(P2, o) = P3
  <2>1. CASE k = "DONT"
    BY <1>1, <2>1 DEF parse_byte, At
  <2>2. CASE k # "DONT"
    <3>1. Refused(t) = Append(<<>>, o)
      BY <1>1, <2>2
    <3> QED  BY <2>2, <3>1 DEF parse_byte, At
  <2> QED  BY <2>1, <2>2
<1> HIDE DEF P1, P2, P3
<1>7. Drives(Fresh, <<"IAC">>, P1) /\ Drives(P1, <<k>>, P2) /\ Drives(P2, <<o>>, P3)
  BY <1>2, <1>3, <1>4, <1>5, <1>6, DriveByte
<1>11. <<"IAC">> \in Seq(Byte) /\ <<k>> \in Seq(Byte) /\ <<o>> \in Seq(Byte)
       /\ <<k, o>> \in Seq(Byte)
  BY <1>2
<1>12. <<k>> \o <<o>> = <<k, o>> /\ <<"IAC">> \o <<k, o>> = <<"IAC", k, o>>
  BY <1>2, ShortConcat
<1>8. Drives(P1, <<k>> \o <<o>>, P3)
  BY <1>7, <1>11, DriveOn
<1>9. Drives(Fresh, <<"IAC">> \o (<<k>> \o <<o>>), P3)
  BY <1>7, <1>8, <1>11, <1>12, DriveOn
<1>10. <<"IAC">> \o (<<k>> \o <<o>>) = t
  BY <1>1, <1>12
<1> QED  BY <1>9, <1>10 DEF P3

(* What was spoken has no line end in it and begins with a byte that is not
   white. *)
LEMMA SpokenTyped ==
  ASSUME NEW t \in Telnet, NEW c \in Commands
  PROVE  /\ Spoken(t, c) \in Seq(Byte \ {"NUL"}) /\ Spoken(t, c) # <<>>
         /\ \A i \in 1..Len(Spoken(t, c)) : Spoken(t, c)[i] \notin Eol
         /\ Spoken(t, c)[1] \notin White
         /\ \A eol : Wire(t, c, eol) = Spoken(t, c) \o eol
<1> DEFINE B == (Byte \ {"NUL"}) \ Eol
           sp == IF c.args = <<>> THEN <<>> ELSE <<"SP">> \o c.args
<1>1. Letters \subseteq B /\ {"IAC", "WILL", "DO", "DONT", "SP"} \subseteq B
      /\ Letters \cap White = {} /\ "IAC" \notin White
  BY Bytes DEF Eol, White
<1>2. c.verb \in Seq(B) /\ c.verb # <<>> /\ c.args \in Seq(B) /\ c.verb[1] \in Letters
  <2>1. c.verb \in Seq(Letters) /\ c.verb # <<>> /\ c.args \in Seq(Letters)
    BY CommandTyped
  <2> QED  BY <2>1, <1>1, SeqMonotonic
<1>3. t \in Seq(B) /\ (t # <<>> => t[1] = "IAC")
  <2>1. CASE t = <<>>
    BY <2>1
  <2>2. CASE t # <<>>
    <3>1. PICK k \in {"WILL", "DO", "DONT"}, o \in Letters : t = <<"IAC", k, o>>
      BY <2>2, TelnetTyped
    <3>2. k \in B /\ o \in B /\ "IAC" \in B
      BY <1>1
    <3> HIDE DEF B
    <3> QED  BY <3>1, <3>2
  <2> QED  BY <2>1, <2>2
<1>4. sp \in Seq(B)
  <2>1. "SP" \in B
    BY <1>1
  <2> HIDE DEF B
  <2> QED  BY <1>2, <2>1
<1>5. Spoken(t, c) = (t \o c.verb) \o sp
  BY DEF Spoken
<1>6. \A eol : Wire(t, c, eol) = Spoken(t, c) \o eol
  BY DEF Spoken, Wire
<1> HIDE DEF sp
<1>7. t \o c.verb \in Seq(B) /\ Len(t \o c.verb) = Len(t) + Len(c.verb)
      /\ Spoken(t, c) \in Seq(B) /\ Len(Spoken(t, c)) = Len(t) + Len(c.verb) + Len(sp)
      /\ Len(t) \in Nat /\ Len(c.verb) \in Nat \ {0} /\ Len(sp) \in Nat
  <2> HIDE DEF B
  <2> QED  BY <1>2, <1>3, <1>4, <1>5
<1>8. Spoken(t, c)[1] \notin White
  <2>1. Spoken(t, c)[1] = (t \o c.verb)[1]
    <3> HIDE DEF B
    <3> QED  BY <1>4, <1>5, <1>7
  <2>2. CASE t = <<>>
    <3>1. (t \o c.verb)[1] = c.verb[1]
      <4> HIDE DEF B
      <4> QED  BY <1>2, <2>2
    <3> QED  BY <1>1, <1>2, <2>1, <3>1
  <2>3. CASE t # <<>>
    <3>1. (t \o c.verb)[1] = t[1]
      <4> HIDE DEF B
      <4> QED  BY <1>2, <1>3, <2>3
    <3> QED  BY <1>1, <1>3, <2>1, <2>3, <3>1
  <2> QED  BY <2>2, <2>3
<1>9. Spoken(t, c) \in Seq(Byte \ {"NUL"})
  BY <1>7, SeqMonotonic
<1>10. \A i \in 1..Len(Spoken(t, c)) : Spoken(t, c)[i] \in B
  <2> HIDE DEF B
  <2> QED  BY <1>7
<1>11. Spoken(t, c) # <<>>
  BY <1>7
<1> QED  BY <1>6, <1>8, <1>9, <1>10, <1>11

(* What was spoken leaves its verb, arguments and refusals in the parser. *)
Heard(mode, back, t, c) == At(mode, back, First4(c.verb), c.args, Refused(t), <<>>)

LEMMA DriveCommand ==
  ASSUME NEW t \in Telnet, NEW c \in Commands
  PROVE  \E mode \in {"verb", "args"}, back \in Modes :
           Drives(NoParse, Spoken(t, c), Heard(mode, back, t, c))
<1> DEFINE v == c.verb
           a == c.args
           sp == IF a = <<>> THEN <<>> ELSE <<"SP">> \o a
           P(back) == At("verb", back, First4(v), <<>>, Refused(t), <<>>)
<1>0. /\ v \in Seq(Letters) /\ v # <<>> /\ a \in Seq(Letters)
      /\ v \in Seq(Byte) /\ a \in Seq(Byte) /\ First4(v) \in Seq(Byte)
      /\ t \in Seq(Byte) /\ Refused(t) \in Seq(Byte) /\ <<>> \in Seq(Byte)
      /\ {"verb", "lead", "gap", "args"} \subseteq Modes /\ "SP" \in Byte
  BY CommandTyped, TelnetTyped, Bytes DEF Modes
<1>1. PICK back \in Modes : Drives(Fresh, t \o v, P(back))
  <2>1. CASE t = <<>>
    <3>1. Refused(t) = <<>> /\ t \o v = v
      BY <1>0, <2>1 DEF Refused
    <3>2. Drives(Fresh, v, P("lead"))
      BY <1>0, <3>1, DriveVerb DEF Fresh
    <3> QED  BY <1>0, <3>1, <3>2
  <2>2. CASE t # <<>>
    <3>1. Drives(Fresh, t, At("verb", "verb", <<>>, <<>>, Refused(t), <<>>))
      BY <2>2, DriveTelnet
    <3>2. Drives(At("verb", "verb", <<>>, <<>>, Refused(t), <<>>), v, P("verb"))
      BY <1>0, DriveVerb
    <3> HIDE DEF P, v
    <3>3. Drives(Fresh, t \o v, P("verb"))
      BY <1>0, <3>1, <3>2, DriveOn
    <3> QED  BY <1>0, <3>3
  <2> QED  BY <2>1, <2>2
<1>2. PICK mode \in {"verb", "args"} : Drives(P(back), sp, Heard(mode, back, t, c))
  <2>0. P(back) \in Parsing
    BY <1>0, AtParsing
  <2>1. CASE a = <<>>
    <3>1. Heard("verb", back, t, c) = P(back) /\ sp = <<>>
      BY <2>1 DEF Heard
    <3> HIDE DEF P
    <3> QED  BY <2>0, <3>1, DriveNothing
  <2>2. CASE a # <<>>
    <3> DEFINE G == At("gap", back, First4(v), <<>>, Refused(t), <<>>)
               H == At("args", back, First4(v), <<>>, Refused(t), <<>>)
               Q == Heard("args", back, t, c)
    <3>1. G \in Parsing /\ H \in Parsing
      BY <1>0, AtParsing
    <3>2. Drives(P(back), <<"SP">>, G)
      BY <1>0, <2>0, <3>1, BlankEndsVerb, DriveByte
    <3>3. Drives(H, a, Q)
      BY <1>0, DriveArgs DEF Heard
    <3>4. a[1] \notin White
      <4>1. a[1] \in Letters
        BY <1>0, <2>2
      <4> QED  BY <4>1, Bytes
    <3>5. parse_byte(G, a[1]) = parse_byte(H, a[1])
      BY <3>4, ByteOpens
    <3> HIDE DEF G, H, Q, P, a
    <3>6. Drives(G, a, Q)
      BY <1>0, <2>2, <3>1, <3>3, <3>5, DriveSame
    <3>7. Drives(P(back), <<"SP">> \o a, Q)
      <4>1. <<"SP">> \in Seq(Byte)
        BY <1>0
      <4> QED  BY <1>0, <3>2, <3>6, <4>1, DriveOn
    <3> QED  BY <2>2, <3>7 DEF Q
  <2> QED  BY <2>1, <2>2
<1>3. sp \in Seq(Byte) /\ t \o v \in Seq(Byte)
  <2> HIDE DEF v, a
  <2> QED  BY <1>0
<1>4. Spoken(t, c) = (t \o v) \o sp
  BY DEF Spoken
<1> HIDE DEF P, v, a, sp
<1>5. Drives(Fresh, Spoken(t, c), Heard(mode, back, t, c))
  <2>1. Drives(Fresh, (t \o v) \o sp, Heard(mode, back, t, c))
    BY <1>1, <1>2, <1>3, DriveOn
  <2> QED  BY <1>4, <2>1
<1>6. Spoken(t, c) \in Seq(Byte) /\ Spoken(t, c) # <<>> /\ Spoken(t, c)[1] \notin White
  <2>1. Byte \ {"NUL"} \subseteq Byte
    OBVIOUS
  <2> QED  BY <2>1, SpokenTyped, SeqMonotonic
<1>7. Drives(NoParse, Spoken(t, c), Heard(mode, back, t, c))
  BY <1>5, <1>6, FreshParsing, DriveSame
<1> QED  BY <1>7

NetByte == Byte \ {"NUL"}
Eols == {<<"CR", "LF">>, <<"LF">>}

(* What the parser sees of the end of a line. *)
Ends == {<<"CR">>, <<"LF">>, <<"CR", "LF">>}

LEMMA EndsTyped ==
  /\ \A e \in Ends : e \in Seq(NetByte) /\ e # <<>>
  /\ \A e \in Eols : /\ e \in Seq(NetByte) /\ e # <<>> /\ e \in Ends
                     /\ Len(e) \in {1, 2} /\ e[Len(e)] = "LF"
                     /\ Len(e) = 2 => e = <<"CR", "LF">>
<1>1. "CR" \in NetByte /\ "LF" \in NetByte
  BY DEF NetByte, Byte, White, Eol
<1>2. <<"CR">> \in Seq(NetByte) /\ <<"LF">> \in Seq(NetByte) /\ <<"CR", "LF">> \in Seq(NetByte)
  BY <1>1
<1>3. <<"CR">> # <<>> /\ <<"LF">> # <<>> /\ <<"CR", "LF">> # <<>>
      /\ Len(<<"LF">>) = 1 /\ Len(<<"CR", "LF">>) = 2
      /\ <<"LF">>[1] = "LF" /\ <<"CR", "LF">>[2] = "LF"
  OBVIOUS
<1> QED  BY <1>2, <1>3 DEF Ends, Eols

(* Each end of a line ends the arguments, or the verb. *)
LEMMA DriveEnd ==
  ASSUME NEW mode \in {"verb", "args"}, NEW back \in Modes, NEW v \in Seq(Byte),
         NEW a \in Seq(Byte), NEW f \in Seq(Byte), NEW e \in Ends
  PROVE  Drives(At(mode, back, v, a, f, <<>>), e, At("tail", back, v, a, f, <<>>))
<1> DEFINE P == At(mode, back, v, a, f, <<>>)
           Q == At("tail", back, v, a, f, <<>>)
<1>1. P \in Parsing /\ Q \in Parsing
  <2>1. mode \in Modes /\ "tail" \in Modes /\ <<>> \in Seq(Byte)
    BY DEF Modes
  <2> QED  BY <2>1, AtParsing
<1>2. "CR" \in Eol /\ "LF" \in Eol /\ "LF" \in White /\ "CR" \in Byte /\ "LF" \in Byte
  BY DEF Byte, White, Eol
<1>3. parse_byte(P, "CR") = Q /\ parse_byte(P, "LF") = Q /\ parse_byte(Q, "LF") = Q
  BY <1>2, ByteEnds, WhiteSkipped
<1> HIDE DEF P, Q
<1>4. Drives(P, <<"CR">>, Q) /\ Drives(P, <<"LF">>, Q) /\ Drives(Q, <<"LF">>, Q)
  BY <1>1, <1>2, <1>3, DriveByte
<1>5. <<"CR">> \in Seq(Byte) /\ <<"LF">> \in Seq(Byte)
  BY <1>2
<1>6. <<"CR">> \o <<"LF">> = <<"CR", "LF">>
  BY <1>2, ShortConcat
<1>7. Drives(P, <<"CR">> \o <<"LF">>, Q)
  BY <1>4, <1>5, DriveOn
<1>8. Drives(P, <<"CR", "LF">>, Q)
  BY <1>6, <1>7
<1> HIDE DEF Drives
<1>9. Drives(P, e, Q)
  BY <1>4, <1>8 DEF Ends
<1> QED  BY <1>9 DEF P, Q

(* A line is parsed as the command it stands for; what comes behind it is
   the rest. *)
LEMMA ParseLine ==
  ASSUME NEW lead \in {<<>>, <<"LF">>}, NEW t \in Telnet, NEW c \in Commands,
         NEW e \in Ends, NEW r \in Seq(Byte), r # <<>> => r[1] \notin White
  PROVE  \E mode, back \in Modes :
           parse[lead \o (Spoken(t, c) \o (e \o r))]
             = At(mode, back, First4(c.verb), c.args, Refused(t), r)
<1> DEFINE s == Spoken(t, c)
           v == First4(c.verb)
           a == c.args
           f == Refused(t)
<1>0. s \in Seq(Byte) /\ v \in Seq(Byte) /\ a \in Seq(Byte) /\ f \in Seq(Byte)
      /\ e \in Seq(Byte) /\ <<>> \in Seq(Byte) /\ {"tail", "rest"} \subseteq Modes
  <2>1. NetByte \subseteq Byte /\ Byte \ {"NUL"} \subseteq Byte
    BY DEF NetByte
  <2>2. s \in Seq(Byte)
    BY <2>1, SpokenTyped, SeqMonotonic
  <2>3. e \in Seq(Byte)
    BY <2>1, EndsTyped, SeqMonotonic
  <2> QED  BY <2>2, <2>3, CommandTyped, TelnetTyped DEF Modes
<1>1. PICK m \in {"verb", "args"}, back \in Modes : Drives(NoParse, s, At(m, back, v, a, f, <<>>))
  BY DriveCommand DEF Heard
<1> DEFINE Q == At("tail", back, v, a, f, <<>>)
<1>2. Drives(At(m, back, v, a, f, <<>>), e, Q)
  BY <1>0, DriveEnd
<1>3. PICK mode \in Modes : Drives(Q, r, At(mode, back, v, a, f, r))
  <2>0. Q \in Parsing
    BY <1>0, AtParsing
  <2>1. CASE r = <<>>
    BY <1>0, <2>0, <2>1, DriveNothing
  <2>2. CASE r # <<>>
    <3> DEFINE H == At("rest", back, v, a, f, <<>>)
    <3>1. H \in Parsing
      BY <1>0, AtParsing
    <3>2. Drives(H, r, At("rest", back, v, a, f, r))
      BY <1>0, DriveRest
    <3>3. parse_byte(Q, r[1]) = parse_byte(H, r[1])
      BY <2>2, ByteOpens
    <3> HIDE DEF Q, H, v, a, f
    <3>4. Drives(Q, r, At("rest", back, v, a, f, r))
      BY <2>0, <2>2, <3>1, <3>2, <3>3, DriveSame
    <3> QED  BY <1>0, <3>4
  <2> QED  BY <2>1, <2>2
<1> DEFINE Z == At(mode, back, v, a, f, r)
<1> HIDE DEF Z, Q, s
<1>4. Drives(At(m, back, v, a, f, <<>>), e \o r, Z)
  BY <1>0, <1>2, <1>3, DriveOn DEF Z
<1>5. e \o r \in Seq(Byte) /\ s \o (e \o r) \in Seq(Byte)
  BY <1>0
<1>6. Drives(NoParse, s \o (e \o r), Z)
  BY <1>0, <1>1, <1>4, <1>5, DriveOn
<1>7. Drives(NoParse, lead \o (s \o (e \o r)), Z) /\ lead \in Seq(Byte)
  <2>1. CASE lead = <<>>
    <3>1. lead \o (s \o (e \o r)) = s \o (e \o r)
      BY <1>5, <2>1, ConcatEmptySeq
    <3> QED  BY <1>0, <1>6, <2>1, <3>1
  <2>2. CASE lead = <<"LF">>
    <3>1. "LF" \in Byte /\ "LF" \in White
      BY DEF Byte, White, Eol
    <3>2. parse_byte(NoParse, "LF") = NoParse
      BY <3>1, FreshParsing, WhiteSkipped
    <3>3. Drives(NoParse, <<"LF">>, NoParse)
      BY <3>1, <3>2, FreshParsing, DriveByte
    <3>4. <<"LF">> \in Seq(Byte)
      BY <3>1
    <3>5. Drives(NoParse, <<"LF">> \o (s \o (e \o r)), Z)
      BY <1>5, <1>6, <3>3, <3>4, DriveOn
    <3> QED  BY <2>2, <3>4, <3>5
  <2> QED  BY <2>1, <2>2
<1>8. lead \o (s \o (e \o r)) \in Seq(Byte)
  BY <1>5, <1>7
<1>9. parse[lead \o (s \o (e \o r))] = Z
  BY <1>7, <1>8, ParseIs
<1> QED  BY <1>3, <1>9 DEF Z, s

(* A line feed alone is no command. *)
LEMMA ParseLead == parse[<<"LF">>] = NoParse
<1>1. "LF" \in Byte /\ "LF" \in White
  BY DEF Byte, White, Eol
<1>2. parse_byte(NoParse, "LF") = NoParse
  BY <1>1, FreshParsing, WhiteSkipped
<1>3. Drives(NoParse, <<"LF">>, NoParse)
  BY <1>1, <1>2, FreshParsing, DriveByte
<1>4. <<"LF">> \in Seq(Byte)
  BY <1>1
<1> QED  BY <1>3, <1>4, ParseIs

-----------------------------------------------------------------------------
(* Where a part of the stream ends. *)

Same(x, y, u, v) == x \o y = u \o v
Goes(w, x, y, u, v) == u = x \o w /\ y = w \o v

(* Two ways to cut one string in two: the longer beginning goes on after the
   shorter one. *)
LEMMA Overlap ==
  ASSUME NEW x \in Seq(NetByte), NEW y \in Seq(NetByte), NEW u \in Seq(NetByte),
         NEW v \in Seq(NetByte), Same(x, y, u, v), Len(x) <= Len(u)
  PROVE  \E w \in Seq(NetByte) : Goes(w, x, y, u, v)
<1> DEFINE S == NetByte
<1> HIDE DEF S
<1>0. x \in Seq(S) /\ y \in Seq(S) /\ u \in Seq(S) /\ v \in Seq(S) /\ x \o y = u \o v
  BY DEF S, Same
<1> DEFINE w == SubSeq(u, Len(x) + 1, Len(u))
<1>1. Len(x) \in Nat /\ Len(u) \in Nat /\ Len(y) \in Nat /\ Len(v) \in Nat
  BY <1>0
<1>2. w \in Seq(S) /\ Len(w) = Len(u) - Len(x)
      /\ \A i \in 1..Len(w) : w[i] = u[Len(x) + i]
  BY <1>0, <1>1
<1> HIDE DEF w
<1>3. x \o w \in Seq(S) /\ Len(x \o w) = Len(u)
  BY <1>0, <1>1, <1>2
<1>4. ASSUME NEW i \in 1..Len(u) PROVE u[i] = (x \o w)[i]
  <2>1. (x \o w)[i] = IF i <= Len(x) THEN x[i] ELSE w[i - Len(x)]
    BY <1>0, <1>1, <1>2, ConcatProperties
  <2>2. u[i] = (u \o v)[i]
    BY <1>0, <1>1
  <2>3. CASE i <= Len(x)
    <3>1. (x \o y)[i] = x[i]
      BY <1>0, <1>1, <2>3
    <3> QED  BY <1>0, <2>1, <2>2, <2>3, <3>1
  <2>4. CASE i > Len(x)
    <3>1. i - Len(x) \in 1..Len(w) /\ Len(x) + (i - Len(x)) = i
      BY <1>1, <1>2, <2>4
    <3> QED  BY <1>0, <1>1, <1>2, <2>1, <2>4, <3>1
  <2>5. i <= Len(x) \/ i > Len(x)
    BY <1>1
  <2> QED  BY <2>3, <2>4, <2>5
<1>5. u = x \o w
  BY <1>0, <1>3, <1>4, SeqEqual
<1>6. (x \o w) \o v = x \o (w \o v) /\ w \o v \in Seq(S)
  <2>1. (x \o w) \o v = x \o (w \o v)
    <3>1. \A a, b, c \in Seq(S) : (a \o b) \o c = a \o (b \o c)
      BY ConcatAssociative
    <3>2. w \in Seq(S)
      BY <1>2
    <3> QED  BY <1>0, <3>1, <3>2, Zenon
  <2>2. w \o v \in Seq(S)
    BY <1>0, <1>2, ConcatProperties, Zenon
  <2> QED  BY <2>1, <2>2, Zenon
<1>7. y = w \o v
  BY <1>0, <1>1, <1>5, <1>6, ConcatSimplifications
<1> QED  BY <1>2, <1>5, <1>7 DEF Goes, S

LEMMA NetAssoc ==
  \A x, y, z \in Seq(NetByte) : (x \o y) \o z = x \o (y \o z)
BY ConcatAssociative

(* The parts of a line that have come end the line, or the rest of the line
   before: then something is left over in front of the next lines y. *)
LineRead(T, U, lead, t, c, y) ==
  \E e \in Ends, r \in Seq(NetByte), after \in {<<>>, <<"LF">>} :
    /\ T = lead \o (Spoken(t, c) \o (e \o r))
    /\ r \o U = after \o y
    /\ r # <<>> => r[1] \notin White

LEMMA ReadOne ==
  ASSUME NEW T \in Seq(NetByte), NEW U \in Seq(NetByte), NEW lead \in {<<>>, <<"LF">>},
         NEW t \in Telnet, NEW c \in Commands, NEW eol \in Eols, NEW y \in Seq(NetByte),
         T \o U = lead \o (Wire(t, c, eol) \o y),
         T # <<>>, T[Len(T)] \in Eol, y # <<>> => y[1] \notin White
  PROVE  \/ T = lead /\ U = Wire(t, c, eol) \o y
         \/ LineRead(T, U, lead, t, c, y)
<1> DEFINE s == Spoken(t, c)
           Z == eol \o y
<1>1. s \in Seq(NetByte) /\ s # <<>> /\ (\A i \in 1..Len(s) : s[i] \notin Eol)
      /\ Wire(t, c, eol) = s \o eol
  BY SpokenTyped DEF NetByte
<1> HIDE DEF s
<1>2. /\ eol \in Seq(NetByte) /\ eol # <<>> /\ eol \in Ends
      /\ lead \in Seq(NetByte) /\ <<"LF">> \in Seq(NetByte) /\ <<>> \in Seq(NetByte)
      /\ Len(lead) <= 1 /\ Len(eol) \in {1, 2} /\ (Len(eol) = 2 => eol = <<"CR", "LF">>)
  <2>1. <<"LF">> \in Seq(NetByte) /\ <<>> \in Seq(NetByte) /\ Len(<<>>) = 0 /\ Len(<<"LF">>) = 1
    BY EndsTyped DEF Ends
  <2>2. lead \in Seq(NetByte) /\ Len(lead) <= 1
    <3>1. CASE lead = <<>>
      BY <2>1, <3>1
    <3>2. CASE lead = <<"LF">>
      BY <2>1, <3>2
    <3> QED  BY <3>1, <3>2
  <2> QED  BY <2>1, <2>2, EndsTyped
<1>3. Z \in Seq(NetByte) /\ s \o Z \in Seq(NetByte) /\ Wire(t, c, eol) \o y = s \o Z
  <2>1. Z \in Seq(NetByte)
    BY <1>2
  <2>2. s \o Z \in Seq(NetByte)
    <3> HIDE DEF Z
    <3> QED  BY <1>1, <2>1
  <2>3. (s \o eol) \o y = s \o (eol \o y)
    <3>1. s \in Seq(NetByte) /\ eol \in Seq(NetByte) /\ y \in Seq(NetByte)
      BY <1>1, <1>2
    <3> QED  BY <3>1, NetAssoc, ZenonT(60)
  <2> QED  BY <1>1, <2>1, <2>2, <2>3
<1> HIDE DEF Z
<1>4. T \o U = lead \o (s \o Z)
  BY <1>3
<1>5. CASE Len(T) <= Len(lead)
  <2>0. Same(T, U, lead, s \o Z)
    BY <1>4 DEF Same
  <2>3. PICK w \in Seq(NetByte) : Goes(w, T, U, lead, s \o Z)
    BY <1>2, <1>3, <1>5, <2>0, Overlap
  <2>1. lead = T \o w /\ U = w \o (s \o Z)
    BY <2>3 DEF Goes
  <2>2. Len(T) = Len(lead) /\ w = <<>>
    <3>1. Len(T) >= 1 /\ Len(lead) = Len(T) + Len(w) /\ Len(w) \in Nat /\ Len(T) \in Nat
      BY <2>1
    <3> QED  BY <1>2, <3>1, <2>1
  <2> QED  BY <1>3, <2>1, <2>2, ConcatEmptySeq
<1>6. CASE Len(T) > Len(lead)
  <2>0. PICK T1 \in Seq(NetByte) : Goes(T1, lead, s \o Z, T, U)
    <3>1. Len(lead) <= Len(T)
      BY <1>2, <1>6
    <3>2. Same(lead, s \o Z, T, U)
      BY <1>4 DEF Same
    <3> QED  BY <1>2, <1>3, <3>1, <3>2, Overlap
  <2>1. T = lead \o T1 /\ s \o Z = T1 \o U
    BY <2>0 DEF Goes
  <2>2. Len(T1) \in Nat /\ Len(T1) >= 1 /\ T1[Len(T1)] \in Eol
    <3>1. Len(T) = Len(lead) + Len(T1) /\ Len(T1) \in Nat /\ Len(lead) \in Nat
      BY <1>2, <2>1
    <3>2. Len(T1) >= 1
      BY <1>6, <3>1
    <3>3. T[Len(T)] = T1[Len(T1)]
      BY <1>2, <2>1, <3>1, <3>2
    <3> QED  BY <3>1, <3>2, <3>3
  <2>3. Len(s) < Len(T1)
    <3>1. SUFFICES ASSUME Len(T1) <= Len(s) PROVE FALSE
      BY <1>1, <2>2
    <3>4. Same(T1, U, s, Z)
      BY <2>1 DEF Same
    <3>5. PICK w \in Seq(NetByte) : Goes(w, T1, U, s, Z)
      BY <1>1, <1>3, <3>1, <3>4, Overlap
    <3>2. s = T1 \o w
      BY <3>5 DEF Goes
    <3>3. Len(T1) \in 1..Len(s) /\ s[Len(T1)] = T1[Len(T1)]
      BY <1>1, <2>2, <3>1, <3>2
    <3> QED  BY <1>1, <2>2, <3>3
  <2>9. PICK T2 \in Seq(NetByte) : Goes(T2, s, Z, T1, U)
    <3>1. Len(s) <= Len(T1)
      BY <1>1, <2>2, <2>3
    <3>2. Same(s, Z, T1, U)
      BY <2>1 DEF Same
    <3> QED  BY <1>1, <1>3, <3>1, <3>2, Overlap
  <2>4. T1 = s \o T2 /\ Z = T2 \o U
    BY <2>9 DEF Goes
  <2>5. Len(T2) >= 1 /\ Len(T2) \in Nat
    <3>2. Len(s \o T2) = Len(s) + Len(T2) /\ Len(T2) \in Nat /\ Len(s) \in Nat
      BY <1>1
    <3>1. Len(T1) = Len(s) + Len(T2) /\ Len(T2) \in Nat /\ Len(s) \in Nat
      BY <2>4, <3>2
    <3> QED  BY <2>3, <3>1
  <2>6. eol \o y = T2 \o U
    BY <2>4 DEF Z
  <2>7. CASE Len(eol) <= Len(T2)
    <3>5. Same(eol, y, T2, U)
      BY <2>6 DEF Same
    <3>6. PICK r \in Seq(NetByte) : Goes(r, eol, y, T2, U)
      BY <1>2, <2>7, <3>5, Overlap
    <3>1. T2 = eol \o r /\ y = r \o U
      BY <3>6 DEF Goes
    <3>2. r # <<>> => r[1] \notin White
      <4>1. SUFFICES ASSUME r # <<>> PROVE r[1] \notin White
        OBVIOUS
      <4>2. y[1] = r[1] /\ y # <<>>
        BY <3>1, <4>1
      <4> QED  BY <4>2
    <3>3. r \o U = <<>> \o y
      BY <3>1, ConcatEmptySeq
    <3>4. T = lead \o (s \o (eol \o r))
      BY <2>1, <2>4, <3>1
    <3> QED  BY <1>2, <3>2, <3>3, <3>4 DEF LineRead, s
  <2>8. CASE Len(T2) < Len(eol)
    <3>6. Len(eol) = 1 \/ Len(eol) = 2
      BY <1>2
    <3>7. Len(eol) = 2 /\ Len(T2) = 1
      <4>1. \A m \in {1, 2}, n \in Nat : n >= 1 /\ n < m => m = 2 /\ n = 1
        OBVIOUS
      <4>2. Len(eol) \in {1, 2}
        BY <3>6
      <4> QED  BY <2>5, <2>8, <4>1, <4>2, Zenon
    <3>1. Len(T2) = 1 /\ eol = <<"CR", "LF">>
      BY <1>2, <3>7
    <3>5. PICK w \in Seq(NetByte) : Goes(w, T2, U, eol, y)
      <4>1. Len(T2) <= Len(eol)
        BY <1>2, <2>5, <2>8
      <4>2. Same(T2, U, eol, y)
        BY <2>6 DEF Same
      <4> QED  BY <1>2, <4>1, <4>2, Overlap
    <3>2. eol = T2 \o w /\ U = w \o y
      BY <3>5 DEF Goes
    <3>3. T2 = <<"CR">> /\ w = <<"LF">>
      <4>2. Len(T2 \o w) = Len(T2) + Len(w) /\ Len(w) \in Nat
        OBVIOUS
      <4>3. Len(w) = 1
        BY <3>2, <3>7, <4>2
      <4>6. \A i \in 1..(Len(T2) + Len(w)) :
              (T2 \o w)[i] = IF i <= Len(T2) THEN T2[i] ELSE w[i - Len(T2)]
        BY ConcatProperties
      <4>4. (T2 \o w)[1] = T2[1] /\ (T2 \o w)[2] = w[1]
        <5>1. 1 \in 1..(Len(T2) + Len(w)) /\ 2 \in 1..(Len(T2) + Len(w))
              /\ 1 <= Len(T2) /\ ~(2 <= Len(T2)) /\ 2 - Len(T2) = 1
          <6>1. \A m, n : m = 1 /\ n = 1 => 1 \in 1..(m + n) /\ 2 \in 1..(m + n)
                  /\ 1 <= m /\ ~(2 <= m) /\ 2 - m = 1
            OBVIOUS
          <6> QED  BY <3>7, <4>3, <6>1, Zenon
        <5> QED  BY <4>6, <5>1, Zenon
      <4>5. eol[1] = "CR" /\ eol[2] = "LF"
        BY <3>1
      <4>1. T2[1] = "CR" /\ w[1] = "LF"
        BY <3>2, <4>4, <4>5
      <4> QED  BY <3>1, <4>1, <4>3
    <3>4. T = lead \o (s \o (<<"CR">> \o <<>>)) /\ <<>> \o U = <<"LF">> \o y
      <4>1. <<"CR">> \o <<>> = <<"CR">> /\ <<>> \o U = U
        BY <3>3, ConcatEmptySeq
      <4> QED  BY <2>1, <2>4, <3>2, <3>3, <4>1
    <3> QED  BY <1>2, <3>4 DEF LineRead, s, Ends
  <2> QED  BY <1>2, <2>5, <2>7, <2>8
<1> QED  BY <1>2, <1>5, <1>6

-----------------------------------------------------------------------------
(* ftpdata.input as a C string. *)

Memory == [1..(BufSize + 1) -> Byte]

(* The least number of a set is its Min. *)
LEMMA LeastIs ==
  ASSUME NEW S \in SUBSET Nat, NEW n \in S, \A m \in S : n <= m
  PROVE  Min(S) = n
<1>1. Min(S) \in S /\ \A m \in S : Min(S) =< m
  BY DEF Min
<1>2. Min(S) \in Nat /\ n \in Nat /\ Min(S) <= n /\ n <= Min(S)
  BY <1>1
<1>3. \A a, b \in Nat : a <= b /\ b <= a => a = b
  OBVIOUS
<1> QED  BY <1>2, <1>3, Zenon

LEMMA JoinIs ==
  \A S : \A x, y \in Seq(S) :
    /\ x \o y \in Seq(S)
    /\ Len(x \o y) = Len(x) + Len(y)
    /\ \A i \in 1..(Len(x) + Len(y)) :
         (x \o y)[i] = IF i <= Len(x) THEN x[i] ELSE y[i - Len(x)]
BY ConcatProperties

(* A text ends in front of the first NUL. *)
LEMMA TextOf ==
  ASSUME NEW M \in Memory, M[BufSize + 1] = "NUL"
  PROVE  /\ Strlen(M) \in 0..BufSize /\ M[Strlen(M) + 1] = "NUL"
         /\ Text(M) \in Seq(NetByte) /\ Len(Text(M)) = Strlen(M)
         /\ \A i \in 1..Strlen(M) : Text(M)[i] = M[i]
<1> DEFINE Z == {i \in 1..(BufSize + 1) : M[i] = "NUL"}
<1>0. BufSize \in Nat
  BY InputAssumption
<1>1. Z \in SUBSET Nat /\ BufSize + 1 \in Z
  BY <1>0
<1>2. PICK n \in Z : \A m \in Z : n <= m
  <2> HIDE DEF Z
  <2> QED  BY <1>1, LeastNumber
<1>3. Min(Z) = n
  <2> HIDE DEF Z
  <2> QED  BY <1>1, <1>2, LeastIs
<1>4. Strlen(M) = n - 1
  BY <1>3 DEF Strlen
<1>5. n \in 1..(BufSize + 1) /\ M[n] = "NUL"
  BY <1>2
<1>6. \A i \in 1..(n - 1) : M[i] \in NetByte
  <2> SUFFICES ASSUME NEW i \in 1..(n - 1) PROVE M[i] \in NetByte
    OBVIOUS
  <2>1. i \in 1..(BufSize + 1) /\ ~(n <= i)
    BY <1>0, <1>5
  <2>2. i \notin Z
    BY <1>2, <2>1
  <2>3. M[i] # "NUL" /\ M[i] \in Byte
    BY <2>1, <2>2 DEF Memory
  <2> QED  BY <2>3 DEF NetByte
<1>7. Text(M) = SubSeq(M, 1, n - 1)
  BY <1>4 DEF Text
<1>8. SubSeq(M, 1, n - 1) \in Seq(NetByte)
      /\ Len(SubSeq(M, 1, n - 1)) = n - 1
      /\ \A i \in 1..(n - 1) : SubSeq(M, 1, n - 1)[i] = M[i]
  BY <1>0, <1>5, <1>6, SubSeqProperties
<1> QED  BY <1>0, <1>4, <1>5, <1>7, <1>8

LEMMA TextIs ==
  ASSUME NEW M \in Memory, NEW w \in Seq(NetByte), Len(w) <= BufSize,
         \A i \in 1..Len(w) : M[i] = w[i], M[Len(w) + 1] = "NUL"
  PROVE  Text(M) = w
<1> DEFINE Z == {i \in 1..(BufSize + 1) : M[i] = "NUL"}
           n == Len(w)
<1>0. BufSize \in Nat /\ n \in Nat
  BY InputAssumption
<1>1. \A i \in 1..n : M[i] # "NUL"
  BY DEF NetByte
<1>2. n + 1 \in Z /\ \A m \in Z : n + 1 <= m
  BY <1>0, <1>1
<1>3. Min(Z) = n + 1
  <2>1. Z \in SUBSET Nat
    OBVIOUS
  <2> HIDE DEF Z
  <2> QED  BY <1>2, <2>1, LeastIs
<1>4. Strlen(M) = n
  BY <1>0, <1>3 DEF Strlen
<1>5. SubSeq(M, 1, n) \in Seq(NetByte) /\ Len(SubSeq(M, 1, n)) = n
      /\ \A i \in 1..n : SubSeq(M, 1, n)[i] = w[i]
  <2>1. \A i \in 1..n : M[i] \in NetByte
    OBVIOUS
  <2>2. /\ SubSeq(M, 1, n) \in Seq(NetByte)
        /\ Len(SubSeq(M, 1, n)) = IF 1 <= n THEN n - 1 + 1 ELSE 0
        /\ \A i \in 1..(n - 1 + 1) : SubSeq(M, 1, n)[i] = M[1 + i - 1]
    BY <1>0, <2>1, SubSeqProperties
  <2> QED  BY <1>0, <2>2
<1>6. SubSeq(M, 1, n) = w
  BY <1>5, SeqEqual
<1> QED  BY <1>4, <1>6 DEF Text

(* Stored bytes are there, and nothing else has changed. *)
LEMMA StoredIs ==
  ASSUME NEW M \in Memory, NEW n \in Nat, NEW s \in Seq(Byte), n + Len(s) <= BufSize + 1
  PROVE  /\ Stored(M, n, s) \in Memory
         /\ \A i \in 1..n : Stored(M, n, s)[i] = M[i]
         /\ \A i \in 1..Len(s) : Stored(M, n, s)[n + i] = s[i]
         /\ \A i \in (n + Len(s) + 1)..(BufSize + 1) : Stored(M, n, s)[i] = M[i]
<1> DEFINE N == BufSize + 1
           k == Len(s)
           a == SubSeq(M, 1, n)
           b == SubSeq(M, n + k + 1, N)
<1>0. BufSize \in Nat /\ k \in Nat /\ N \in Nat
  BY InputAssumption
<1>1. \A i \in 1..N : M[i] \in Byte
  BY DEF Memory
<1>2. a \in Seq(Byte) /\ Len(a) = n /\ \A i \in 1..n : a[i] = M[i]
  <2>1. \A i \in 1..n : i \in 1..N
    BY <1>0
  <2>2. /\ a \in Seq(Byte) /\ Len(a) = IF 1 <= n THEN n - 1 + 1 ELSE 0
        /\ \A i \in 1..(n - 1 + 1) : a[i] = M[1 + i - 1]
    BY <1>0, <1>1, <2>1, SubSeqProperties
  <2> QED  BY <2>2
<1>3. b \in Seq(Byte) /\ Len(b) = N - n - k /\ \A i \in 1..(N - n - k) : b[i] = M[n + k + i]
  <2>1. \A i \in (n + k + 1)..N : i \in 1..N
    BY <1>0
  <2>2. /\ b \in Seq(Byte)
        /\ Len(b) = IF n + k + 1 <= N THEN N - (n + k + 1) + 1 ELSE 0
        /\ \A i \in 1..(N - (n + k + 1) + 1) : b[i] = M[n + k + 1 + i - 1]
    BY <1>0, <1>1, <2>1, SubSeqProperties
  <2> QED  BY <1>0, <2>2
<1>4. Stored(M, n, s) = (a \o s) \o b
  BY DEF Stored
<1> DEFINE S == Stored(M, n, s)
<1> HIDE DEF a, b
<1>5. a \o s \in Seq(Byte) /\ Len(a \o s) = n + k
      /\ \A i \in 1..(n + k) : (a \o s)[i] = IF i <= n THEN a[i] ELSE s[i - n]
  BY <1>0, <1>2, ConcatProperties
<1>6. (a \o s) \o b \in Seq(Byte) /\ Len((a \o s) \o b) = N
      /\ \A i \in 1..N : ((a \o s) \o b)[i]
           = IF i <= n + k THEN (a \o s)[i] ELSE b[i - (n + k)]
  <2> DEFINE m == a \o s
  <2>1. m \in Seq(Byte) /\ Len(m) = n + k /\ b \in Seq(Byte)
    BY <1>3, <1>5
  <2> HIDE DEF m
  <2>2. m \o b \in Seq(Byte)
    BY <2>1
  <2>3. Len(m \o b) = Len(m) + Len(b)
    BY <2>1
  <2>4. \A i \in 1..(Len(m) + Len(b)) : (m \o b)[i] = IF i <= Len(m) THEN m[i] ELSE b[i - Len(m)]
    BY <2>1, ConcatProperties
  <2>5. Len(m) + Len(b) = N
    BY <1>0, <1>3, <2>1
  <2>6. \A i \in 1..N : (m \o b)[i] = IF i <= n + k THEN m[i] ELSE b[i - (n + k)]
    BY <2>1, <2>4, <2>5, Zenon
  <2>7. Len(m \o b) = N
    BY <2>3, <2>5, Zenon
  <2> QED  BY <2>2, <2>6, <2>7 DEF m
<1>7. S \in Seq(Byte) /\ Len(S) = N
      /\ \A i \in 1..N : S[i] = IF i <= n + k THEN (a \o s)[i] ELSE b[i - (n + k)]
  BY <1>4, <1>6
<1> HIDE DEF S
<1>8. S \in Memory
  BY <1>7 DEF Memory
<1>9. \A i \in 1..n : S[i] = M[i]
  BY <1>0, <1>2, <1>5, <1>7
<1>10. ASSUME NEW i \in 1..k PROVE S[n + i] = s[i]
  <2>1. n + i \in 1..N /\ n + i \in 1..(n + k) /\ ~(n + i <= n) /\ (n + i) - n = i /\ n + i <= n + k
    BY <1>0
  <2> QED  BY <1>5, <1>7, <2>1
<1>11. ASSUME NEW i \in (n + k + 1)..N PROVE S[i] = M[i]
  <2>1. i \in 1..N /\ ~(i <= n + k) /\ i - (n + k) \in 1..(N - n - k) /\ n + k + (i - (n + k)) = i
    BY <1>0
  <2> QED  BY <1>3, <1>7, <2>1
<1> QED  BY <1>8, <1>9, <1>10, <1>11 DEF S, N, k

(* A string that is stored with its NUL, or in front of one, behind the text. *)
LEMMA TextGrows ==
  ASSUME NEW M \in Memory, M[BufSize + 1] = "NUL", NEW w \in Seq(NetByte),
         Strlen(M) + Len(w) <= BufSize, NEW S,
         \/ S = Stored(M, Strlen(M), Append(w, "NUL"))
         \/ S = Stored(M, Strlen(M), w) /\ S[Strlen(M) + Len(w) + 1] = "NUL"
  PROVE  /\ S \in Memory /\ S[BufSize + 1] = "NUL"
         /\ Text(S) = Text(M) \o w
<1> DEFINE n == Strlen(M)
           k == Len(w)
<1>0. BufSize \in Nat /\ k \in Nat /\ n \in 0..BufSize /\ n \in Nat
      /\ w \in Seq(Byte) /\ "NUL" \in Byte
      /\ Text(M) \in Seq(NetByte) /\ Len(Text(M)) = n /\ (\A i \in 1..n : Text(M)[i] = M[i])
  <2>1. NetByte \subseteq Byte
    BY DEF NetByte
  <2>2. w \in Seq(Byte)
    BY <2>1, SeqMonotonic
  <2> QED  BY <2>2, InputAssumption, TextOf, Bytes
<1>1. /\ S \in Memory /\ S[n + k + 1] = "NUL" /\ S[BufSize + 1] = "NUL"
      /\ \A i \in 1..n : S[i] = M[i]
      /\ \A i \in 1..k : S[n + i] = w[i]
  <2>1. CASE S = Stored(M, n, Append(w, "NUL"))
    <3> DEFINE s == Append(w, "NUL")
    <3>1. s \in Seq(Byte) /\ Len(s) = k + 1 /\ s[k + 1] = "NUL" /\ \A i \in 1..k : s[i] = w[i]
      BY <1>0
    <3> HIDE DEF s
    <3>2. n + Len(s) <= BufSize + 1
      BY <1>0, <3>1
    <3>3. /\ S \in Memory
          /\ \A i \in 1..n : S[i] = M[i]
          /\ \A i \in 1..Len(s) : S[n + i] = s[i]
          /\ \A i \in (n + Len(s) + 1)..(BufSize + 1) : S[i] = M[i]
      BY <1>0, <2>1, <3>1, <3>2, StoredIs DEF s
    <3>4. k + 1 \in 1..Len(s) /\ n + (k + 1) = n + k + 1 /\ \A i \in 1..k : i \in 1..Len(s)
      BY <1>0, <3>1
    <3>5. S[n + k + 1] = "NUL" /\ \A i \in 1..k : S[n + i] = w[i]
      BY <3>1, <3>3, <3>4
    <3>6. S[BufSize + 1] = "NUL"
      <4>1. CASE n + k = BufSize
        BY <3>5, <4>1
      <4>2. CASE n + k < BufSize
        <5>1. BufSize + 1 \in (n + Len(s) + 1)..(BufSize + 1)
          BY <1>0, <3>1, <4>2
        <5> QED  BY <3>3, <5>1
      <4> QED  BY <1>0, <4>1, <4>2
    <3> QED  BY <3>3, <3>5, <3>6
  <2>2. CASE S = Stored(M, n, w) /\ S[n + k + 1] = "NUL"
    <3>3. /\ S \in Memory
          /\ \A i \in 1..n : S[i] = M[i]
          /\ \A i \in 1..k : S[n + i] = w[i]
          /\ \A i \in (n + k + 1)..(BufSize + 1) : S[i] = M[i]
      <4>1. n + k <= BufSize + 1
        BY <1>0
      <4> QED  BY <1>0, <2>2, <4>1, StoredIs
    <3>4. BufSize + 1 \in (n + k + 1)..(BufSize + 1)
      BY <1>0
    <3> QED  BY <2>2, <3>3, <3>4
  <2> QED  BY <2>1, <2>2
<1> DEFINE u == Text(M) \o w
<1>2. u \in Seq(NetByte) /\ Len(u) = n + k
      /\ \A i \in 1..(n + k) : u[i] = IF i <= n THEN Text(M)[i] ELSE w[i - n]
  <2>1. /\ Text(M) \o w \in Seq(NetByte)
        /\ Len(Text(M) \o w) = Len(Text(M)) + Len(w)
        /\ \A i \in 1..(Len(Text(M)) + Len(w)) :
             (Text(M) \o w)[i] = IF i <= Len(Text(M)) THEN Text(M)[i] ELSE w[i - Len(Text(M))]
    BY <1>0, JoinIs, Zenon
  <2> QED  BY <1>0, <2>1, Zenon
<1> HIDE DEF u
<1>3. ASSUME NEW i \in 1..(n + k) PROVE S[i] = u[i]
  <2>1. CASE i <= n
    <3>1. i \in 1..n
      BY <1>0, <2>1
    <3> QED  BY <1>0, <1>1, <1>2, <2>1, <3>1
  <2>2. CASE ~(i <= n)
    <3>1. i - n \in 1..k /\ n + (i - n) = i
      BY <1>0, <2>2
    <3> QED  BY <1>1, <1>2, <2>2, <3>1
  <2> QED  BY <2>1, <2>2
<1>4. Text(S) = u
  BY <1>0, <1>1, <1>2, <1>3, TextIs
<1> QED  BY <1>1, <1>4 DEF u

(* The rest of a text moves to the front. *)
LEMMA TextMoves ==
  ASSUME NEW M \in Memory, M[BufSize + 1] = "NUL", NEW r \in Seq(NetByte), Len(r) <= BufSize
  PROVE  /\ RestMoved(M, r) \in Memory /\ RestMoved(M, r)[BufSize + 1] = "NUL"
         /\ Text(RestMoved(M, r)) = r
<1> DEFINE S == RestMoved(M, r)
           s == Append(r, "NUL")
           k == Len(r)
<1>0. BufSize \in Nat /\ k \in Nat /\ "NUL" \in Byte /\ r \in Seq(Byte)
  <2>1. NetByte \subseteq Byte
    BY DEF NetByte
  <2>2. r \in Seq(Byte)
    BY <2>1, SeqMonotonic
  <2> QED  BY <2>2, InputAssumption, Bytes
<1>1. s \in Seq(Byte) /\ Len(s) = k + 1 /\ s[k + 1] = "NUL" /\ \A i \in 1..k : s[i] = r[i]
  BY <1>0
<1> HIDE DEF s
<1>2. S = Stored(M, 0, s)
  BY DEF RestMoved, s
<1> HIDE DEF S
<1>3. /\ S \in Memory
      /\ \A i \in 1..Len(s) : S[0 + i] = s[i]
      /\ \A i \in (0 + Len(s) + 1)..(BufSize + 1) : S[i] = M[i]
  <2>1. 0 \in Nat /\ 0 + Len(s) <= BufSize + 1
    BY <1>0, <1>1
  <2> QED  BY <1>1, <1>2, <2>1, StoredIs
<1>4. S[k + 1] = "NUL" /\ \A i \in 1..k : S[i] = r[i]
  <2>1. \A i \in 1..(k + 1) : i \in 1..Len(s) /\ 0 + i = i
    BY <1>0, <1>1
  <2>2. \A i \in 1..(k + 1) : S[i] = s[i]
    BY <1>3, <2>1
  <2>3. k + 1 \in 1..(k + 1) /\ \A i \in 1..k : i \in 1..(k + 1)
    BY <1>0
  <2> QED  BY <1>1, <2>2, <2>3
<1>5. S[BufSize + 1] = "NUL"
  <2>1. CASE k = BufSize
    BY <1>4, <2>1
  <2>2. CASE k < BufSize
    <3>1. BufSize + 1 \in (0 + Len(s) + 1)..(BufSize + 1)
      BY <1>0, <1>1, <2>2
    <3> QED  BY <1>3, <3>1
  <2> QED  BY <1>0, <2>1, <2>2
<1>6. Text(S) = r
  BY <1>0, <1>3, <1>4, TextIs
<1> QED  BY <1>3, <1>5, <1>6 DEF S

-----------------------------------------------------------------------------
(* The stream of a session: the commands that were said and not yet run. *)

Item == [verb : Seq(Byte), args : Seq(Byte), refused : Seq(Byte)]
Summary(t, c) == [verb |-> First4(c.verb), args |-> c.args, refused |-> Refused(t)]

FirstIs(x, y, item) ==
  \E t \in Telnet, c \in Commands, eol \in Eols :
    x = Wire(t, c, eol) \o y /\ item = Summary(t, c)

(* The bytes S are those of cmds from the kth on: tails[j] is what is left
   behind the jth.  A line feed of the command before may come first. *)
Split(S, cmds, k, lead, tails) ==
  /\ lead \in {<<>>, <<"LF">>}
  /\ tails \in [0..Len(cmds) -> Seq(NetByte)]
  /\ S = lead \o tails[k]
  /\ tails[Len(cmds)] = <<>>
  /\ \A j \in (k + 1)..Len(cmds) : FirstIs(tails[j - 1], tails[j], cmds[j])

Streams(S, cmds, k) == \E lead, tails : Split(S, cmds, k, lead, tails)

LEMMA LeadTyped ==
  \A lead \in {<<>>, <<"LF">>} : lead \in Seq(NetByte) /\ Len(lead) <= 1 /\ Len(lead) \in Nat
<1>1. <<"LF">> \in Seq(NetByte) /\ <<>> \in Seq(NetByte) /\ Len(<<>>) = 0 /\ Len(<<"LF">>) = 1
  BY EndsTyped DEF Ends
<1>2. <<"LF">> \in Seq(NetByte) /\ Len(<<"LF">>) <= 1 /\ Len(<<"LF">>) \in Nat
  BY <1>1
<1>3. <<>> \in Seq(NetByte) /\ Len(<<>>) <= 1 /\ Len(<<>>) \in Nat
  BY <1>1
<1> QED  BY <1>2, <1>3

(* A line of the peer is not empty, begins with no white space and ends with
   a line feed. *)
LEMMA SummaryTyped ==
  ASSUME NEW t \in Telnet, NEW c \in Commands
  PROVE  Summary(t, c) \in Item /\ Summary(t, c).verb # <<>>
BY CommandTyped, TelnetTyped DEF Summary, Item

LEMMA WireTyped ==
  ASSUME NEW t \in Telnet, NEW c \in Commands, NEW eol \in Eols
  PROVE  /\ Wire(t, c, eol) \in Seq(NetByte) /\ Wire(t, c, eol) # <<>>
         /\ Wire(t, c, eol)[1] \notin White
         /\ Len(Wire(t, c, eol)) \in Nat \ {0}
         /\ Wire(t, c, eol)[Len(Wire(t, c, eol))] = "LF"
<1> DEFINE s == Spoken(t, c)
<1>1. s \in Seq(NetByte) /\ s # <<>> /\ s[1] \notin White /\ Wire(t, c, eol) = s \o eol
  BY SpokenTyped DEF NetByte
<1>2. eol \in Seq(NetByte) /\ eol # <<>> /\ eol[Len(eol)] = "LF"
  BY EndsTyped
<1> HIDE DEF s
<1> DEFINE w == s \o eol
<1>3. w \in Seq(NetByte) /\ Len(w) = Len(s) + Len(eol) /\ Len(s) \in Nat \ {0}
      /\ Len(eol) \in Nat \ {0}
  BY <1>1, <1>2
<1>4. w[1] = s[1]
  BY <1>1, <1>2
<1>5. w[Len(w)] = eol[Len(eol)]
  <2>1. Len(s) + Len(eol) \in 1..(Len(s) + Len(eol)) /\ ~(Len(s) + Len(eol) <= Len(s))
        /\ (Len(s) + Len(eol)) - Len(s) = Len(eol)
    BY <1>3
  <2>2. \A i \in 1..(Len(s) + Len(eol)) : w[i] = IF i <= Len(s) THEN s[i] ELSE eol[i - Len(s)]
    BY <1>1, <1>2, ConcatProperties
  <2> HIDE DEF w
  <2> QED  BY <1>3, <2>1, <2>2
<1>6. w # <<>>
  BY <1>3
<1> HIDE DEF w
<1>7. w \in Seq(NetByte) /\ w # <<>> /\ w[1] \notin White /\ Len(w) \in Nat \ {0} /\ w[Len(w)] = "LF"
  BY <1>1, <1>2, <1>3, <1>4, <1>5, <1>6
<1> QED  BY <1>1, <1>7 DEF w

LEMMA Fronts ==
  ASSUME NEW x \in Seq(NetByte), x # <<>>, NEW y \in Seq(NetByte)
  PROVE  x \o y # <<>> /\ (x \o y)[1] = x[1]
OBVIOUS

(* Where a command begins in the stream, there is no white space. *)
LEMMA TailsOpen ==
  ASSUME NEW cmds \in Seq(Item), NEW k \in 0..Len(cmds), NEW S, NEW lead, NEW tails,
         Split(S, cmds, k, lead, tails)
  PROVE  \A j \in k..Len(cmds) : tails[j] # <<>> => tails[j][1] \notin White
<1> SUFFICES ASSUME NEW j \in k..Len(cmds), tails[j] # <<>>
             PROVE  tails[j][1] \notin White
  OBVIOUS
<1>1. Len(cmds) \in Nat /\ j # Len(cmds)
  BY DEF Split
<1>2. j + 1 \in (k + 1)..Len(cmds) /\ (j + 1) - 1 = j /\ j + 1 \in 0..Len(cmds)
  BY <1>1
<1>3. FirstIs(tails[j], tails[j + 1], cmds[j + 1]) /\ tails[j + 1] \in Seq(NetByte)
  BY <1>2 DEF Split
<1>4. PICK t \in Telnet, c \in Commands, eol \in Eols : tails[j] = Wire(t, c, eol) \o tails[j + 1]
  BY <1>3 DEF FirstIs
<1> QED  BY <1>3, <1>4, WireTyped, Fronts

(* What a run of the parser over a part of the stream does. *)
Skipped(T, U, cmds, k) ==
  /\ parse[T].verb = <<>> /\ parse[T].rest = <<>>
  /\ Streams(U, cmds, k)
Ran(T, U, cmds, k) ==
  /\ parse[T].verb # <<>> /\ parse[T].rest \in Seq(NetByte)
  /\ Len(parse[T].rest) <= Len(T)
  /\ k < Len(cmds)
  /\ [verb |-> parse[T].verb, args |-> parse[T].args, refused |-> parse[T].refused] = cmds[k + 1]
  /\ Streams(parse[T].rest \o U, cmds, k + 1)
  /\ k + 1 = Len(cmds) => parse[T].rest = <<>>

LEMMA RestLen ==
  ASSUME NEW x \in Seq(NetByte), NEW y \in Seq(NetByte), NEW e \in Seq(NetByte),
         NEW r \in Seq(NetByte)
  PROVE  Len(r) <= Len(x \o (y \o (e \o r)))
<1>1. e \o r \in Seq(NetByte) /\ Len(r) <= Len(e \o r) /\ Len(r) \in Nat
  OBVIOUS
<1> DEFINE u == e \o r
<1> HIDE DEF u
<1>2. u \in Seq(NetByte) => y \o u \in Seq(NetByte) /\ Len(u) <= Len(y \o u)
  OBVIOUS
<1> DEFINE v == y \o u
<1> HIDE DEF v
<1>3. v \in Seq(NetByte) => Len(v) <= Len(x \o v) /\ Len(v) \in Nat /\ Len(x \o v) \in Nat
  OBVIOUS
<1>4. u \in Seq(NetByte) /\ Len(r) <= Len(u) /\ Len(u) \in Nat
  BY <1>1 DEF u
<1>5. v \in Seq(NetByte) /\ Len(u) <= Len(v)
  BY <1>2, <1>4 DEF v
<1>6. Len(r) <= Len(x \o v)
  BY <1>1, <1>3, <1>4, <1>5
<1> QED  BY <1>6 DEF u, v

(* One call of the parser skips a line feed or takes the next command. *)
LEMMA RunOne ==
  ASSUME NEW T \in Seq(NetByte), NEW U \in Seq(NetByte), T # <<>>, T[Len(T)] \in Eol,
         NEW cmds \in Seq(Item), NEW k \in 0..Len(cmds), Streams(T \o U, cmds, k)
  PROVE  Skipped(T, U, cmds, k) \/ Ran(T, U, cmds, k)
<1>1. PICK lead, tails : Split(T \o U, cmds, k, lead, tails)
  BY DEF Streams
<1>2. /\ lead \in {<<>>, <<"LF">>} /\ tails \in [0..Len(cmds) -> Seq(NetByte)]
      /\ T \o U = lead \o tails[k] /\ tails[Len(cmds)] = <<>>
      /\ \A j \in (k + 1)..Len(cmds) : FirstIs(tails[j - 1], tails[j], cmds[j])
  BY <1>1 DEF Split
<1>3. Len(cmds) \in Nat /\ k \in Nat /\ tails[k] \in Seq(NetByte)
  <2>1. Len(cmds) \in Nat /\ k \in Nat
    OBVIOUS
  <2> QED  BY <1>2, <2>1
<1>4. ASSUME T = lead, U = tails[k] PROVE Skipped(T, U, cmds, k)
  <2>1. T = <<"LF">>
    BY <1>2, <1>4
  <2>2. parse[T].verb = <<>> /\ parse[T].rest = <<>>
    BY <2>1, ParseLead DEF NoParse
  <2>3. U = <<>> \o tails[k]
    BY <1>3, <1>4, ConcatEmptySeq
  <2>4. Split(U, cmds, k, <<>>, tails)
    BY <1>2, <2>3 DEF Split
  <2> QED  BY <2>2, <2>4 DEF Skipped, Streams
<1>5. CASE k = Len(cmds)
  <2>1. tails[k] = <<>>
    BY <1>2, <1>5
  <2>2. lead \in Seq(NetByte) /\ Len(lead) <= 1
    BY <1>2, LeadTyped
  <2>3. T \o U = lead
    BY <1>2, <2>1, <2>2, ConcatEmptySeq
  <2>4. Len(T) + Len(U) = Len(lead) /\ Len(T) \in Nat \ {0} /\ Len(U) \in Nat /\ Len(lead) \in Nat
    <3>1. Len(T \o U) = Len(T) + Len(U) /\ Len(T) \in Nat \ {0} /\ Len(U) \in Nat
      OBVIOUS
    <3> QED  BY <2>2, <2>3, <3>1
  <2>5. Len(U) = 0
    BY <2>2, <2>4
  <2>6. U = <<>>
    BY <2>5
  <2>7. T = lead
    BY <2>3, <2>6, ConcatEmptySeq
  <2> QED  BY <1>4, <2>1, <2>6, <2>7
<1>6. CASE k < Len(cmds)
  <2> DEFINE y == tails[k + 1]
  <2>1. k + 1 \in (k + 1)..Len(cmds) /\ (k + 1) - 1 = k /\ k + 1 \in 0..Len(cmds)
        /\ k + 1 \in k..Len(cmds)
    BY <1>3, <1>6
  <2>2. FirstIs(tails[k], y, cmds[k + 1]) /\ y \in Seq(NetByte)
    BY <1>2, <2>1
  <2>3. y # <<>> => y[1] \notin White
    BY <1>1, <2>1, TailsOpen
  <2> HIDE DEF y
  <2>4. PICK t \in Telnet, c \in Commands, eol \in Eols :
          tails[k] = Wire(t, c, eol) \o y /\ cmds[k + 1] = Summary(t, c)
    BY <2>2 DEF FirstIs
  <2>5. T \o U = lead \o (Wire(t, c, eol) \o y)
    BY <1>2, <2>4
  <2>6. \/ T = lead /\ U = Wire(t, c, eol) \o y
        \/ LineRead(T, U, lead, t, c, y)
    BY <1>2, <2>2, <2>3, <2>5, ReadOne
  <2>7. CASE T = lead /\ U = Wire(t, c, eol) \o y
    BY <1>4, <2>4, <2>7
  <2>8. CASE LineRead(T, U, lead, t, c, y)
    <3>1. PICK e \in Ends, r \in Seq(NetByte), after \in {<<>>, <<"LF">>} :
            /\ T = lead \o (Spoken(t, c) \o (e \o r))
            /\ r \o U = after \o y
            /\ r # <<>> => r[1] \notin White
      BY <2>8 DEF LineRead
    <3>2. r \in Seq(Byte)
      <4>1. NetByte \subseteq Byte
        BY DEF NetByte
      <4> QED  BY <4>1, SeqMonotonic
    <3>3. PICK mode \in Modes, back \in Modes :
            parse[T] = At(mode, back, First4(c.verb), c.args, Refused(t), r)
      <4>1. \E mode, back \in Modes :
              parse[lead \o (Spoken(t, c) \o (e \o r))]
                = At(mode, back, First4(c.verb), c.args, Refused(t), r)
        BY <1>2, <3>1, <3>2, ParseLine
      <4> QED  BY <3>1, <4>1, Zenon
    <3>4. /\ parse[T].verb = First4(c.verb) /\ parse[T].rest = r
          /\ [verb |-> parse[T].verb, args |-> parse[T].args, refused |-> parse[T].refused]
               = cmds[k + 1]
      BY <2>4, <3>3 DEF At, Summary
    <3>5. parse[T].verb # <<>>
      BY <3>4, CommandTyped
    <3>6. Len(r) <= Len(T)
      <4>1. Spoken(t, c) \in Seq(NetByte) /\ e \in Seq(NetByte)
        BY SpokenTyped, EndsTyped DEF NetByte
      <4>2. lead \in Seq(NetByte)
        BY <1>2, LeadTyped
      <4> QED  BY <3>1, <4>1, <4>2, RestLen
    <3>7. Split(r \o U, cmds, k + 1, after, tails)
      <4>1. \A j \in ((k + 1) + 1)..Len(cmds) : j \in (k + 1)..Len(cmds)
        BY <1>3
      <4>2. r \o U = after \o tails[k + 1]
        BY <3>1 DEF y
      <4> QED  BY <1>2, <3>1, <4>1, <4>2 DEF Split
    <3>8. k + 1 = Len(cmds) => r = <<>>
      <4> SUFFICES ASSUME k + 1 = Len(cmds), r # <<>> PROVE FALSE
        OBVIOUS
      <4>1. y = <<>>
        BY <1>2 DEF y
      <4>2. after \in Seq(NetByte)
        BY LeadTyped
      <4>3. r \o U = after
        BY <3>1, <4>1, <4>2, ConcatEmptySeq
      <4>4. after # <<>> /\ after[1] = r[1]
        BY <4>3, Fronts
      <4>5. after[1] = "LF" /\ "LF" \in White
        BY <4>4 DEF White, Eol
      <4> QED  BY <3>1, <4>4, <4>5
    <3>9. Ran(T, U, cmds, k)
      BY <1>6, <3>4, <3>5, <3>6, <3>7, <3>8 DEF Ran, Streams
    <3> QED  BY <3>9
  <2> QED  BY <2>6, <2>7, <2>8
<1> QED  BY <1>3, <1>5, <1>6

(* One more command at the end of the stream. *)
LEMMA SayOne ==
  ASSUME NEW T \in Seq(NetByte), NEW U \in Seq(NetByte), NEW cmds \in Seq(Item),
         NEW k \in 0..Len(cmds), Streams(T \o U, cmds, k),
         NEW t \in Telnet, NEW c \in Commands, NEW eol \in Eols
  PROVE  Streams(T \o (U \o Wire(t, c, eol)), Append(cmds, Summary(t, c)), k)
<1> DEFINE n == Len(cmds)
           W == Wire(t, c, eol)
           more == Append(cmds, Summary(t, c))
<1>1. PICK lead, tails : Split(T \o U, cmds, k, lead, tails)
  BY DEF Streams
<1>2. /\ lead \in {<<>>, <<"LF">>} /\ tails \in [0..n -> Seq(NetByte)]
      /\ T \o U = lead \o tails[k] /\ tails[n] = <<>>
      /\ \A j \in (k + 1)..n : FirstIs(tails[j - 1], tails[j], cmds[j])
  BY <1>1 DEF Split
<1>3. W \in Seq(NetByte) /\ n \in Nat /\ k \in Nat /\ k <= n /\ lead \in Seq(NetByte)
  <2>1. lead \in Seq(NetByte)
    BY <1>2, LeadTyped
  <2>2. n \in Nat /\ k \in Nat /\ k <= n
    OBVIOUS
  <2> QED  BY <2>1, <2>2, WireTyped
<1>4. Summary(t, c) \in Item
  BY SummaryTyped
<1>5. more \in Seq(Item) /\ Len(more) = n + 1 /\ more[n + 1] = Summary(t, c)
      /\ \A j \in 1..n : more[j] = cmds[j]
  <2> HIDE DEF n
  <2>1. \A x \in Item : /\ Append(cmds, x) \in Seq(Item) /\ Len(Append(cmds, x)) = n + 1
                        /\ Append(cmds, x)[n + 1] = x
                        /\ \A j \in 1..n : Append(cmds, x)[j] = cmds[j]
    BY DEF n
  <2> QED  BY <1>4, <2>1
<1> HIDE DEF W, more, n
<1> DEFINE on == [j \in 0..(n + 1) |-> IF j <= n THEN tails[j] \o W ELSE <<>>]
<1>6. /\ on \in [0..(n + 1) -> Seq(NetByte)]
      /\ (\A j \in 0..n : on[j] = tails[j] \o W) /\ on[n + 1] = <<>>
  <2>1. \A j \in 0..n : tails[j] \o W \in Seq(NetByte)
    BY <1>2, <1>3
  <2>2. \A j \in 0..(n + 1) : (IF j <= n THEN tails[j] \o W ELSE <<>>) \in Seq(NetByte)
    BY <1>3, <2>1
  <2>3. \A j \in 0..n : j \in 0..(n + 1) /\ j <= n
    BY <1>3
  <2>4. n + 1 \in 0..(n + 1) /\ ~(n + 1 <= n)
    BY <1>3
  <2> QED  BY <2>2, <2>3, <2>4
<1> HIDE DEF on
<1>7. T \o (U \o W) = lead \o on[k]
  <2>1. k \in 0..n /\ tails[k] \in Seq(NetByte)
    BY <1>2, <1>3
  <2>2. (T \o U) \o W = T \o (U \o W)
    BY <1>3, NetAssoc, Zenon
  <2>3. (lead \o tails[k]) \o W = lead \o (tails[k] \o W)
    BY <1>3, <2>1, NetAssoc, Zenon
  <2> QED  BY <1>2, <1>6, <2>1, <2>2, <2>3
<1>8. ASSUME NEW j \in (k + 1)..(n + 1) PROVE FirstIs(on[j - 1], on[j], more[j])
  <2>1. CASE j = n + 1
    <3>1. on[j - 1] = W /\ on[j] = <<>> /\ W \o <<>> = W
      <4>1. j - 1 = n /\ n \in 0..n
        BY <1>3, <2>1
      <4>2. <<>> \o W = W /\ W \o <<>> = W
        BY <1>3, ConcatEmptySeq
      <4> QED  BY <1>2, <1>6, <2>1, <4>1, <4>2
    <3>2. on[j - 1] = Wire(t, c, eol) \o on[j] /\ more[j] = Summary(t, c)
      BY <1>5, <2>1, <3>1 DEF W
    <3> QED  BY <3>2 DEF FirstIs
  <2>2. CASE j # n + 1
    <3>1. j \in (k + 1)..n /\ j \in 1..n /\ j \in 0..n /\ j - 1 \in 0..n
      BY <1>3, <2>2
    <3>2. PICK t1 \in Telnet, c1 \in Commands, eol1 \in Eols :
            tails[j - 1] = Wire(t1, c1, eol1) \o tails[j] /\ cmds[j] = Summary(t1, c1)
      BY <1>2, <3>1 DEF FirstIs
    <3>3. Wire(t1, c1, eol1) \in Seq(NetByte) /\ tails[j] \in Seq(NetByte)
      BY <1>2, <3>1, WireTyped
    <3>4. (Wire(t1, c1, eol1) \o tails[j]) \o W = Wire(t1, c1, eol1) \o (tails[j] \o W)
      <4>1. \A a, b \in Seq(NetByte) : (a \o b) \o W = a \o (b \o W)
        BY <1>3, NetAssoc
      <4> QED  BY <3>3, <4>1, Zenon
    <3>5. on[j - 1] = Wire(t1, c1, eol1) \o on[j] /\ more[j] = Summary(t1, c1)
      BY <1>5, <1>6, <3>1, <3>2, <3>4
    <3> QED  BY <3>5 DEF FirstIs
  <2> QED  BY <2>1, <2>2
<1>9. Split(T \o (U \o W), more, k, lead, on)
  BY <1>2, <1>5, <1>6, <1>7, <1>8 DEF Split
<1> QED  BY <1>9 DEF Streams, W, more

-----------------------------------------------------------------------------
(* The inductive invariant. *)

TypeInv ==
  /\ open \in BOOLEAN /\ sender \in {"patient", "hasty", "gone"}
  /\ input \in Memory /\ input[BufSize + 1] = "NUL"
  /\ net \in Seq(NetByte) /\ said \in Seq(Item) /\ done \in Seq(Item)

DoneInOrder ==
  Len(done) <= Len(said) /\ \A j \in 1..Len(done) : done[j] = said[j]

(* What is in input and under way are the commands that were not run yet. *)
StreamInv ==
  /\ TypeInv
  /\ DoneInOrder
  /\ open => Streams(Text(input) \o net, said, Len(done))

(* A new session has an empty text, and nothing was said in it. *)
LEMMA ZeroedText ==
  Zeroed \in Memory /\ Zeroed[BufSize + 1] = "NUL" /\ Text(Zeroed) = <<>>
<1>0. BufSize \in Nat /\ "NUL" \in Byte
  BY InputAssumption, Bytes
<1>1. Zeroed \in Memory /\ Zeroed[BufSize + 1] = "NUL" /\ Zeroed[1] = "NUL"
  BY <1>0 DEF Zeroed, Memory
<1>2. <<>> \in Seq(NetByte) /\ Len(<<>>) = 0
  OBVIOUS
<1>3. \A i \in 1..Len(<<>>) : Zeroed[i] = <<>>[i]
  BY <1>2
<1>4. Len(<<>>) <= BufSize /\ Zeroed[Len(<<>>) + 1] = "NUL"
  BY <1>0, <1>1, <1>2
<1>5. Text(Zeroed) = <<>>
  BY <1>1, <1>2, <1>3, <1>4, TextIs
<1> QED  BY <1>1, <1>5

LEMMA NothingSaid == Streams(<<>> \o <<>>, <<>>, 0)
<1> DEFINE tails == [j \in 0..0 |-> <<>>]
<1>1. Len(<<>>) = 0 /\ <<>> \in Seq(NetByte)
  OBVIOUS
<1>2. tails \in [0..0 -> Seq(NetByte)] /\ tails[0] = <<>>
  BY <1>1
<1> HIDE DEF tails
<1>3. Split(<<>> \o <<>>, <<>>, 0, <<>>, tails)
  BY <1>1, <1>2 DEF Split
<1> QED  BY <1>3 DEF Streams

LEMMA StreamInit == Init => StreamInv
<1> SUFFICES ASSUME Init PROVE StreamInv
  OBVIOUS
<1>1. TypeInv
  <2>1. <<>> \in Seq(NetByte) /\ <<>> \in Seq(Item)
    OBVIOUS
  <2> QED  BY <2>1, ZeroedText DEF Init, TypeInv
<1>2. DoneInOrder
  BY DEF Init, DoneInOrder
<1> QED  BY <1>1, <1>2 DEF StreamInv, Init

(* The first n bytes under way and the others. *)
LEMMA Cut ==
  ASSUME NEW w \in Seq(NetByte), NEW n \in 0..Len(w)
  PROVE  /\ SubSeq(w, 1, n) \in Seq(NetByte) /\ SubSeq(w, n + 1, Len(w)) \in Seq(NetByte)
         /\ Len(SubSeq(w, 1, n)) = n /\ Len(SubSeq(w, n + 1, Len(w))) = Len(w) - n
         /\ w = SubSeq(w, 1, n) \o SubSeq(w, n + 1, Len(w))
         /\ n > 0 => SubSeq(w, 1, n)[n] = w[n]
<1>1. Len(w) \in Nat /\ n \in Nat
  OBVIOUS
<1>2. SubSeq(w, 1, n) \in Seq(NetByte) /\ SubSeq(w, n + 1, Len(w)) \in Seq(NetByte)
      /\ Len(SubSeq(w, 1, n)) = n /\ Len(SubSeq(w, n + 1, Len(w))) = Len(w) - n
      /\ (n > 0 => SubSeq(w, 1, n)[n] = w[n])
  BY <1>1
<1>3. SubSeq(w, 1, n) \o SubSeq(w, n + 1, Len(w)) = SubSeq(w, 1, Len(w))
  <2>1. 1 \in 1..(Len(w) + 1) /\ n \in (1 - 1)..Len(w) /\ Len(w) \in n..Len(w)
    BY <1>1
  <2> QED  BY <2>1, ConcatAdjacentSubSeq
<1>4. SubSeq(w, 1, Len(w)) = w
  BY SubSeqFull
<1> QED  BY <1>2, <1>3, <1>4

(* The bytes that a call has received at its nth. *)
LEMMA Taken ==
  ASSUME StreamInv, NEW n \in Nat \ {0}, n <= Len(net), n <= Room
  PROVE  /\ Room \in Nat /\ Strlen(input) + n <= BufSize /\ n \in 0..Len(net)
         /\ Strlen(input) \in Nat
         /\ Text(input) \in Seq(NetByte) /\ Len(Text(input)) = Strlen(input)
<1>1. Strlen(input) \in 0..BufSize /\ Text(input) \in Seq(NetByte)
      /\ Len(Text(input)) = Strlen(input)
  BY TextOf DEF StreamInv, TypeInv
<1>2. BufSize \in Nat /\ net \in Seq(NetByte) /\ Len(net) \in Nat
  BY InputAssumption DEF StreamInv, TypeInv
<1>3. Room = BufSize - Strlen(input)
  BY DEF Room
<1> QED  BY <1>1, <1>2, <1>3

(* One line is run: T is the text with it, U what is still under way. *)
LineTaken(T, U) ==
  /\ T \o U = Text(input) \o net
  /\ input' \in Memory /\ input'[BufSize + 1] = "NUL"
  /\ net' = U
  /\ Text(input') = parse[T].rest
  /\ \/ Skipped(T, U, said, Len(done)) /\ done' = done
     \/ Ran(T, U, said, Len(done)) /\ done' = Append(done, said[Len(done) + 1])

(* A call that ends with a line end takes a beginning of the stream; the rest
   of the text moves to the front. *)
LEMMA ReadLineTakes ==
  ASSUME StreamInv, ReadLine
  PROVE  \E T, U \in Seq(NetByte) : LineTaken(T, U)
<1>1. PICK n \in 1..Min({Room, Len(net)}) :
        /\ EndsLine(net[n])
        /\ net' = SubSeq(net, n + 1, Len(net))
        /\ RunLine(Stored(input, Strlen(input), Append(SubSeq(net, 1, n), "NUL")))
  BY DEF ReadLine
<1>0. net \in Seq(NetByte) /\ input \in Memory /\ input[BufSize + 1] = "NUL"
      /\ said \in Seq(Item) /\ done \in Seq(Item) /\ Len(done) \in 0..Len(said)
      /\ Len(net) \in Nat /\ BufSize \in Nat
  BY InputAssumption DEF StreamInv, TypeInv, DoneInOrder
<1>2. n \in Nat \ {0} /\ n <= Len(net) /\ n <= Room
  <2>1. Room \in Int
    <3>1. Strlen(input) \in 0..BufSize
      BY <1>0, TextOf
    <3> QED  BY <1>0, <3>1 DEF Room
  <2>2. Min({Room, Len(net)}) = IF Room <= Len(net) THEN Room ELSE Len(net)
    BY <1>0, <2>1, MinOfTwo
  <2> QED  BY <1>0, <1>1, <2>1, <2>2
<1>3. /\ Strlen(input) + n <= BufSize /\ n \in 0..Len(net) /\ Strlen(input) \in Nat
      /\ Text(input) \in Seq(NetByte) /\ Len(Text(input)) = Strlen(input)
  BY <1>2, Taken
<1> DEFINE w == SubSeq(net, 1, n)
           U == SubSeq(net, n + 1, Len(net))
           T == Text(input) \o w
           M == Stored(input, Strlen(input), Append(w, "NUL"))
<1>4. w \in Seq(NetByte) /\ U \in Seq(NetByte) /\ Len(w) = n /\ net = w \o U /\ w[n] = net[n]
  BY <1>0, <1>2, <1>3, Cut
<1>5. net' = U /\ RunLine(M)
  BY <1>1
<1> HIDE DEF w, U
<1>6. M \in Memory /\ M[BufSize + 1] = "NUL" /\ Text(M) = T
  BY <1>0, <1>3, <1>4, TextGrows
<1>7. T \in Seq(NetByte) /\ Len(T) = Strlen(input) + n /\ T \o U = Text(input) \o net
  <2>1. (Text(input) \o w) \o U = Text(input) \o (w \o U)
    BY <1>3, <1>4, NetAssoc, Zenon
  <2>2. Text(input) \o w \in Seq(NetByte) /\ Len(Text(input) \o w) = Len(Text(input)) + Len(w)
    BY <1>3, <1>4, JoinIs, Zenon
  <2> QED  BY <1>3, <1>4, <2>1, <2>2
<1>8. T # <<>> /\ T[Len(T)] \in Eol
  <2>1. net[n] \in Eol
    BY <1>1 DEF EndsLine
  <2>2. \A i \in 1..(Len(Text(input)) + Len(w)) :
          T[i] = IF i <= Len(Text(input)) THEN Text(input)[i] ELSE w[i - Len(Text(input))]
    BY <1>3, <1>4, ConcatProperties
  <2> HIDE DEF T
  <2>3. Strlen(input) + n \in 1..(Len(Text(input)) + Len(w))
        /\ ~(Strlen(input) + n <= Len(Text(input)))
        /\ (Strlen(input) + n) - Len(Text(input)) = n
    BY <1>2, <1>3, <1>4
  <2>4. T[Len(T)] = w[n]
    BY <1>7, <2>2, <2>3
  <2>5. T # <<>>
    BY <1>2, <1>3, <1>7
  <2> QED  BY <1>4, <2>1, <2>4, <2>5
<1> DEFINE p == parse[T]
<1>9. /\ input' = RestMoved(M, p.rest)
      /\ done' = IF p.verb = <<>> THEN done
                 ELSE Append(done, [verb |-> p.verb, args |-> p.args, refused |-> p.refused])
  BY <1>5, <1>6 DEF RunLine
<1>10. Streams(T \o U, said, Len(done))
  BY <1>7 DEF StreamInv, ReadLine
<1> HIDE DEF T, M
<1>11. Skipped(T, U, said, Len(done)) \/ Ran(T, U, said, Len(done))
  BY <1>0, <1>4, <1>7, <1>8, <1>10, RunOne
<1>12. p.rest \in Seq(NetByte) /\ Len(p.rest) <= BufSize
  <2>1. CASE Skipped(T, U, said, Len(done))
    BY <1>0, <2>1 DEF Skipped
  <2>2. CASE Ran(T, U, said, Len(done))
    <3>1. p.rest \in Seq(NetByte) /\ Len(p.rest) <= Len(T)
      BY <2>2 DEF Ran
    <3>2. Len(p.rest) \in Nat
      BY <3>1
    <3> QED  BY <1>0, <1>3, <1>7, <3>1, <3>2
  <2> QED  BY <1>11, <2>1, <2>2
<1>13. input' \in Memory /\ input'[BufSize + 1] = "NUL" /\ Text(input') = p.rest
  BY <1>6, <1>9, <1>12, TextMoves
<1>14. \/ Skipped(T, U, said, Len(done)) /\ done' = done
       \/ Ran(T, U, said, Len(done)) /\ done' = Append(done, said[Len(done) + 1])
  <2>1. CASE Skipped(T, U, said, Len(done))
    BY <1>9, <2>1 DEF Skipped
  <2>2. CASE Ran(T, U, said, Len(done))
    BY <1>9, <2>2 DEF Ran
  <2> QED  BY <1>11, <2>1, <2>2
<1>15. LineTaken(T, U)
  BY <1>5, <1>7, <1>13, <1>14 DEF LineTaken
<1> QED  BY <1>4, <1>7, <1>15

LEMMA StreamReadLine == StreamInv /\ ReadLine => StreamInv'
<1> SUFFICES ASSUME StreamInv, ReadLine PROVE StreamInv'
  OBVIOUS
<1>1. PICK T \in Seq(NetByte), U \in Seq(NetByte) : LineTaken(T, U)
  BY ReadLineTakes
<1>2. /\ input' \in Memory /\ input'[BufSize + 1] = "NUL" /\ net' = U
      /\ Text(input') = parse[T].rest
  BY <1>1 DEF LineTaken
<1>3. said \in Seq(Item) /\ done \in Seq(Item) /\ Len(done) \in Nat /\ Len(said) \in Nat
      /\ Len(done) <= Len(said) /\ (\A j \in 1..Len(done) : done[j] = said[j])
      /\ open \in BOOLEAN /\ sender \in {"patient", "hasty", "gone"}
  BY DEF StreamInv, TypeInv, DoneInOrder
<1>4. open' = open /\ sender' = sender /\ said' = said
  BY DEF ReadLine
<1>5. CASE Skipped(T, U, said, Len(done)) /\ done' = done
  <2>1. Text(input') = <<>> /\ Streams(U, said, Len(done))
    BY <1>2, <1>5 DEF Skipped
  <2>2. Text(input') \o net' = U
    BY <1>2, <2>1, ConcatEmptySeq
  <2>3. Streams(Text(input') \o net', said', Len(done'))
    BY <1>4, <1>5, <2>1, <2>2
  <2> QED  BY <1>2, <1>3, <1>4, <1>5, <2>3 DEF StreamInv, TypeInv, DoneInOrder
<1>6. CASE Ran(T, U, said, Len(done)) /\ done' = Append(done, said[Len(done) + 1])
  <2> DEFINE k == Len(done)
  <2>1. k < Len(said) /\ Streams(parse[T].rest \o U, said, k + 1)
    BY <1>6 DEF Ran
  <2>2. k + 1 \in 1..Len(said) /\ said[k + 1] \in Item
    BY <1>3, <2>1
  <2>3. \A x \in Item : /\ Append(done, x) \in Seq(Item) /\ Len(Append(done, x)) = k + 1
                        /\ Append(done, x)[k + 1] = x
                        /\ \A j \in 1..k : Append(done, x)[j] = done[j]
    BY <1>3
  <2>4. /\ done' \in Seq(Item) /\ Len(done') = k + 1
        /\ done'[k + 1] = said[k + 1] /\ \A j \in 1..k : done'[j] = done[j]
    BY <1>6, <2>2, <2>3
  <2>5. \A j \in 1..(k + 1) : done'[j] = said[j]
    <3>1. \A j \in 1..(k + 1) : j \in 1..k \/ j = k + 1
      BY <1>3
    <3> QED  BY <1>3, <2>4, <3>1
  <2>6. Streams(Text(input') \o net', said', Len(done'))
    BY <1>2, <1>4, <2>1, <2>4
  <2> QED  BY <1>2, <1>3, <1>4, <2>1, <2>2, <2>4, <2>5, <2>6 DEF StreamInv, TypeInv, DoneInOrder
<1> QED  BY <1>1, <1>5, <1>6 DEF LineTaken

(* A piece ends in front of a NUL: the text grows by it. *)
LEMMA ReadPieceTakes ==
  ASSUME Stale = FALSE, StreamInv, ReadPiece
  PROVE  \E n \in 1..Len(net) :
           /\ net[n] \notin Eol
           /\ net' = SubSeq(net, n + 1, Len(net))
           /\ input' \in Memory /\ input'[BufSize + 1] = "NUL"
           /\ Text(input') = Text(input) \o SubSeq(net, 1, n)
<1>1. PICK n \in 1..Min({Room - 1, Len(net)}) :
        /\ ~EndsLine(net[n])
        /\ Received(n)[Strlen(input) + n + 1] = "NUL"
        /\ net' = SubSeq(net, n + 1, Len(net))
        /\ input' = Received(n)
  BY DEF ReadPiece
<1>0. net \in Seq(NetByte) /\ input \in Memory /\ input[BufSize + 1] = "NUL"
      /\ Len(net) \in Nat /\ BufSize \in Nat
  BY InputAssumption DEF StreamInv, TypeInv
<1>2. n \in Nat \ {0} /\ n <= Len(net) /\ n <= Room
  <2>1. Room \in Int
    <3>1. Strlen(input) \in 0..BufSize
      BY <1>0, TextOf
    <3> QED  BY <1>0, <3>1 DEF Room
  <2>2. Min({Room - 1, Len(net)}) = IF Room - 1 <= Len(net) THEN Room - 1 ELSE Len(net)
    BY <1>0, <2>1, MinOfTwo
  <2> QED  BY <1>0, <1>1, <2>1, <2>2
<1>3. /\ Strlen(input) + n <= BufSize /\ n \in 0..Len(net) /\ Strlen(input) \in Nat
      /\ Text(input) \in Seq(NetByte) /\ Len(Text(input)) = Strlen(input)
  BY <1>2, Taken
<1> DEFINE w == SubSeq(net, 1, n)
<1>4. w \in Seq(NetByte) /\ Len(w) = n
  BY <1>0, <1>3, Cut
<1>5. input' = Stored(input, Strlen(input), w) /\ input'[Strlen(input) + n + 1] = "NUL"
  BY <1>1 DEF Received
<1> HIDE DEF w
<1>6. input' \in Memory /\ input'[BufSize + 1] = "NUL" /\ Text(input') = Text(input) \o w
  BY <1>0, <1>3, <1>4, <1>5, TextGrows
<1>7. n \in 1..Len(net) /\ net[n] \notin Eol
  BY <1>0, <1>1, <1>2 DEF EndsLine
<1> QED  BY <1>1, <1>6, <1>7 DEF w

LEMMA StreamReadPiece ==
  ASSUME Stale = FALSE, StreamInv, ReadPiece
  PROVE  StreamInv'
<1>1. PICK n \in 1..Len(net) :
        /\ net' = SubSeq(net, n + 1, Len(net))
        /\ input' \in Memory /\ input'[BufSize + 1] = "NUL"
        /\ Text(input') = Text(input) \o SubSeq(net, 1, n)
  BY ReadPieceTakes
<1>2. net \in Seq(NetByte) /\ n \in 0..Len(net) /\ Text(input) \in Seq(NetByte)
  BY TextOf DEF StreamInv, TypeInv
<1> DEFINE w == SubSeq(net, 1, n)
           U == SubSeq(net, n + 1, Len(net))
<1>3. w \in Seq(NetByte) /\ U \in Seq(NetByte) /\ net = w \o U
  BY <1>2, Cut
<1>4. net' = U /\ Text(input') = Text(input) \o w
  BY <1>1
<1> HIDE DEF w, U
<1>5. (Text(input) \o w) \o U = Text(input) \o (w \o U)
  BY <1>2, <1>3, NetAssoc, Zenon
<1>6. Text(input') \o net' = Text(input) \o net
  BY <1>3, <1>4, <1>5
<1>7. open' = open /\ sender' = sender /\ said' = said /\ done' = done
  BY DEF ReadPiece
<1> QED  BY <1>1, <1>3, <1>4, <1>6, <1>7 DEF StreamInv, TypeInv, DoneInOrder

(* All other steps add to the end of the stream, or leave it alone. *)
LEMMA StreamOthers ==
  ASSUME StreamInv, Next \/ UNCHANGED vars
  PROVE  ReadLine \/ ReadPiece \/ StreamInv'
<1> USE DEF StreamInv, TypeInv, DoneInOrder
<1>1. CASE ReadFails
  <2>1. <<>> \in Seq(NetByte)
    OBVIOUS
  <2> QED  BY <1>1, <2>1 DEF ReadFails, FreeFtp
<1>2. CASE NothingToRead \/ UNCHANGED vars
  BY <1>2 DEF NothingToRead, vars
<1>3. CASE Say
  <2>1. PICK t \in Telnet, c \in Commands, eol \in {<<"CR", "LF">>, <<"LF">>} :
          /\ net' = net \o Wire(t, c, eol)
          /\ said' = Append(said, [verb |-> SubSeq(c.verb, 1, Min({4, Len(c.verb)})),
                                   args |-> c.args, refused |-> Refused(t)])
    BY <1>3 DEF Say
  <2>2. eol \in Eols /\ said' = Append(said, Summary(t, c))
    BY <2>1 DEF Eols, Summary, First4
  <2>3. Text(input) \in Seq(NetByte) /\ net \in Seq(NetByte) /\ said \in Seq(Item)
        /\ Len(done) \in 0..Len(said) /\ open
    BY <1>3, TextOf DEF Say
  <2>4. Streams(Text(input) \o (net \o Wire(t, c, eol)), Append(said, Summary(t, c)), Len(done))
    BY <2>2, <2>3, SayOne
  <2>5. /\ Append(said, Summary(t, c)) \in Seq(Item)
        /\ Len(Append(said, Summary(t, c))) = Len(said) + 1
        /\ \A j \in 1..Len(said) : Append(said, Summary(t, c))[j] = said[j]
    <3>1. \A x \in Item : /\ Append(said, x) \in Seq(Item) /\ Len(Append(said, x)) = Len(said) + 1
                          /\ \A j \in 1..Len(said) : Append(said, x)[j] = said[j]
      BY <2>3
    <3> QED  BY <3>1, SummaryTyped
  <2>6. net \o Wire(t, c, eol) \in Seq(NetByte)
    BY <2>2, <2>3, WireTyped
  <2>7. open' = open /\ input' = input /\ sender' = sender /\ done' = done
    BY <1>3 DEF Say
  <2>8. Streams(Text(input') \o net', said', Len(done'))
    BY <2>1, <2>2, <2>4, <2>7
  <2>9. TypeInv'
    BY <2>1, <2>2, <2>5, <2>6, <2>7
  <2>10. DoneInOrder'
    <3>1. Len(said) \in Nat /\ Len(done) \in Nat /\ Len(done) <= Len(said)
          /\ \A j \in 1..Len(done) : j \in 1..Len(said) /\ done[j] = said[j]
      BY <2>3
    <3> QED  BY <2>2, <2>5, <2>7, <3>1
  <2> QED  BY <2>8, <2>9, <2>10
<1>4. CASE Close
  BY <1>4 DEF Close
<1>5. CASE NewFtp
  <2>1. open' = TRUE /\ input' = Zeroed /\ net' = <<>> /\ said' = <<>> /\ done' = <<>>
        /\ sender' \in {"patient", "hasty"}
    BY <1>5 DEF NewFtp
  <2>2. <<>> \in Seq(NetByte) /\ <<>> \in Seq(Item) /\ Len(<<>>) = 0
    OBVIOUS
  <2>3. Streams(Text(input') \o net', said', Len(done'))
    BY <2>1, <2>2, ZeroedText, NothingSaid
  <2>4. TypeInv'
    BY <2>1, <2>2, ZeroedText
  <2>5. DoneInOrder'
    BY <2>1, <2>2
  <2> QED  BY <2>3, <2>4, <2>5
<1> QED  BY <1>1, <1>2, <1>3, <1>4, <1>5 DEF Next, Read

(* The invariant holds in every state. *)
LEMMA StreamStep ==
  ASSUME Stale = FALSE, StreamInv, [Next]_vars
  PROVE  StreamInv'
BY StreamOthers, StreamReadLine, StreamReadPiece

LEMMA StreamAlways ==
  ASSUME Stale = FALSE
  PROVE  Spec => []StreamInv
<1>1. StreamInv /\ [Next]_vars => StreamInv'
  BY StreamStep
<1> QED  BY <1>1, StreamInit, PTL DEF Spec

LEMMA StreamImplies == StreamInv => TypeOK /\ CommandsInOrder
<1> SUFFICES ASSUME StreamInv PROVE TypeOK /\ CommandsInOrder
  OBVIOUS
<1>1. TypeInv /\ DoneInOrder
  BY DEF StreamInv
<1>2. TypeOK
  <2>1. NetByte \subseteq Byte
    BY DEF NetByte
  <2>2. net \in Seq(Byte)
    BY <1>1, <2>1, SeqMonotonic DEF TypeInv
  <2> QED  BY <1>1, <2>2 DEF TypeInv, DoneInOrder, TypeOK, Memory
<1>3. CommandsInOrder
  <2> DEFINE k == Len(done)
  <2>1. done \in Seq(Item) /\ said \in Seq(Item) /\ k \in Nat /\ Len(said) \in Nat
        /\ k <= Len(said) /\ \A j \in 1..k : done[j] = said[j]
    BY <1>1 DEF TypeInv, DoneInOrder
  <2>2. SubSeq(done, 1, k) = done
    BY <2>1, SubSeqFull
  <2>3. SubSeq(said, 1, k) \in Seq(Item) /\ Len(SubSeq(said, 1, k)) = k
        /\ \A j \in 1..k : SubSeq(said, 1, k)[j] = said[j]
    BY <2>1
  <2>4. done = SubSeq(said, 1, k)
    <3> HIDE DEF k
    <3>1. \A j \in 1..k : done[j] = SubSeq(said, 1, k)[j]
      BY <2>1, <2>3
    <3>2. Len(done) = k
      BY DEF k
    <3> QED  BY <2>1, <2>3, <3>1, <3>2, SeqEqual
  <2> QED  BY <2>1, <2>2, <2>4 DEF CommandsInOrder, IsPrefix
<1> QED  BY <1>2, <1>3

(* Type correctness, with what keeps input[] a C string: its last byte stays
   NUL whatever is stored (ftpd.c 1006-1020), and no more commands are run than
   were said.  It holds for every size of the buffer, every set of commands and
   every way in which recv() cuts the stream, while no piece ends in front of an
   old byte of the buffer. *)
THEOREM InputTyped ==
  ASSUME Stale = FALSE
  PROVE  Spec => []TypeOK
<1>1. StreamInv => TypeOK
  BY StreamImplies
<1> QED  BY <1>1, StreamAlways, PTL

(* The commands that are run are the first ones that were said, each once and
   with its own arguments and refused options, however recv() cuts the stream
   (ftpd.c 1004-1093), while no piece ends in front of an old byte. *)
THEOREM RunInOrder ==
  ASSUME Stale = FALSE
  PROVE  Spec => []CommandsInOrder
<1>1. StreamInv => CommandsInOrder
  BY StreamImplies
<1> QED  BY <1>1, StreamAlways, PTL

-----------------------------------------------------------------------------
(* A peer that waits for its answers. *)

(* The lines of the peers fit in input. *)
LinesFit ==
  \A t \in Telnet, c \in Commands, eol \in Eols : Len(Wire(t, c, eol)) < BufSize

(* It has at most one command under way, and the end of its line is on the
   way while the beginning is in input. *)
PatientInv ==
  sender = "patient" =>
    /\ open
    /\ Len(said) <= Len(done) + 1
    /\ Text(input) # <<>> => net # <<>>

(* All that it has sent and was not read fits in input, and ends a line. *)
LEMMA PatientRoom ==
  ASSUME StreamInv, PatientInv, LinesFit, sender = "patient",
         NEW P, P = Text(input) \o net
  PROVE  /\ P \in Seq(NetByte) /\ Len(P) <= BufSize
         /\ P # <<>> => P[Len(P)] = "LF"
<1>0. /\ said \in Seq(Item) /\ Len(said) \in Nat /\ Len(done) \in Nat
      /\ Len(done) <= Len(said) /\ Len(said) <= Len(done) + 1
      /\ BufSize \in Nat \ {0} /\ Streams(P, said, Len(done))
  BY InputAssumption DEF StreamInv, TypeInv, DoneInOrder, PatientInv
<1> DEFINE k == Len(done)
<1>1. PICK lead, tails : Split(P, said, k, lead, tails)
  BY <1>0 DEF Streams
<1>2. /\ lead \in {<<>>, <<"LF">>} /\ tails \in [0..Len(said) -> Seq(NetByte)]
      /\ P = lead \o tails[k] /\ tails[Len(said)] = <<>>
      /\ \A j \in (k + 1)..Len(said) : FirstIs(tails[j - 1], tails[j], said[j])
  BY <1>1 DEF Split
<1>3. lead \in Seq(NetByte) /\ Len(lead) <= 1 /\ Len(lead) \in Nat
  BY <1>2, LeadTyped
<1>4. CASE k = Len(said)
  <2>1. P = lead
    BY <1>2, <1>3, <1>4, ConcatEmptySeq
  <2>2. P # <<>> => P[Len(P)] = "LF"
    BY <1>2, <2>1
  <2> QED  BY <1>0, <1>3, <2>1, <2>2
<1>5. CASE k # Len(said)
  <2>1. k + 1 = Len(said) /\ k + 1 \in (k + 1)..Len(said) /\ (k + 1) - 1 = k
    BY <1>0, <1>5
  <2>2. FirstIs(tails[k], tails[k + 1], said[k + 1]) /\ tails[k + 1] = <<>>
    BY <1>2, <2>1
  <2>3. PICK t \in Telnet, c \in Commands, eol \in Eols : tails[k] = Wire(t, c, eol) \o <<>>
    BY <2>2 DEF FirstIs
  <2> DEFINE W == Wire(t, c, eol)
  <2>4. W \in Seq(NetByte) /\ Len(W) \in Nat \ {0} /\ W[Len(W)] = "LF" /\ Len(W) < BufSize
    BY WireTyped DEF LinesFit
  <2> HIDE DEF W
  <2>5. P = lead \o W
    BY <1>2, <2>3, <2>4, ConcatEmptySeq DEF W
  <2>6. /\ lead \o W \in Seq(NetByte) /\ Len(lead \o W) = Len(lead) + Len(W)
        /\ \A i \in 1..(Len(lead) + Len(W)) :
             (lead \o W)[i] = IF i <= Len(lead) THEN lead[i] ELSE W[i - Len(lead)]
    BY <1>3, <2>4, JoinIs, Zenon
  <2>7. Len(lead) + Len(W) \in 1..(Len(lead) + Len(W)) /\ ~(Len(lead) + Len(W) <= Len(lead))
        /\ (Len(lead) + Len(W)) - Len(lead) = Len(W)
    BY <1>3, <2>4
  <2>8. P[Len(P)] = "LF"
    BY <2>4, <2>5, <2>6, <2>7
  <2>9. Len(P) <= BufSize
    BY <1>0, <1>3, <2>4, <2>5, <2>6
  <2> QED  BY <2>5, <2>6, <2>8, <2>9
<1> QED  BY <1>4, <1>5

(* A patient peer is not hung up on. *)
LEMMA PatientNotFailed ==
  ASSUME StreamInv, PatientInv, LinesFit, sender = "patient"
  PROVE  ~ReadFails
<1> SUFFICES ASSUME ReadFails PROVE FALSE
  OBVIOUS
<1> DEFINE P == Text(input) \o net
           n == Strlen(input)
<1>1. P \in Seq(NetByte) /\ Len(P) <= BufSize /\ (P # <<>> => P[Len(P)] = "LF")
  BY PatientRoom
<1>2. net \in Seq(NetByte) /\ Len(net) \in Nat /\ BufSize \in Nat \ {0}
      /\ Text(input) \in Seq(NetByte) /\ Len(Text(input)) = n /\ n \in 0..BufSize
  BY TextOf, InputAssumption DEF StreamInv, TypeInv
<1> HIDE DEF n
<1>3. Len(P) = n + Len(net)
      /\ \A i \in 1..(n + Len(net)) : P[i] = IF i <= n THEN Text(input)[i] ELSE net[i - n]
  <2>1. /\ Len(P) = Len(Text(input)) + Len(net)
        /\ \A i \in 1..(Len(Text(input)) + Len(net)) :
             P[i] = IF i <= Len(Text(input)) THEN Text(input)[i] ELSE net[i - Len(Text(input))]
    BY <1>2, JoinIs, Zenon
  <2> QED  BY <1>2, <2>1, Zenon
<1> HIDE DEF P
<1>4. Room = BufSize - n
  BY DEF Room, n
<1>5. CASE Room = 0
  <2>1. n = BufSize
    BY <1>2, <1>4, <1>5
  <2>2. Text(input) # <<>>
    BY <1>2, <2>1
  <2>3. net # <<>>
    BY <2>2 DEF PatientInv
  <2>4. Len(net) > 0
    BY <1>2, <2>3
  <2> QED  BY <1>1, <1>2, <1>3, <2>1, <2>4
<1>6. CASE TooLong /\ Room # 0
  <2>1. Room <= Len(net) /\ net[Room] \notin Eol
    BY <1>6 DEF TooLong, EndsLine
  <2>2. Room = Len(net) /\ n + Len(net) = BufSize /\ Len(net) > 0
    <3>1. n + Len(net) <= BufSize
      BY <1>1, <1>3
    <3>2. \A a, b \in Nat, c \in Nat, r \in Int :
            r = c - a /\ a + b <= c /\ r <= b /\ r # 0 /\ a <= c => r = b /\ a + b = c /\ b > 0
      OBVIOUS
    <3>3. n \in Nat /\ n <= BufSize /\ BufSize \in Nat /\ Room \in Int
      BY <1>2, <1>4
    <3>4. Room <= Len(net) /\ Room # 0
      BY <1>6, <2>1
    <3> QED  BY <1>2, <1>4, <3>1, <3>2, <3>3, <3>4, Zenon
  <2>3. n + Len(net) \in 1..(n + Len(net)) /\ ~(n + Len(net) <= n) /\ (n + Len(net)) - n = Len(net)
    BY <1>2, <2>2
  <2>4. P[Len(P)] = net[Len(net)]
    BY <1>3, <2>3
  <2>5. P # <<>>
    BY <1>1, <1>2, <1>3, <2>2
  <2>6. net[Room] = "LF"
    BY <1>1, <2>2, <2>4, <2>5
  <2> QED  BY <2>1, <2>6 DEF Eol
<1> QED  BY <1>5, <1>6 DEF ReadFails

LEMMA PatientReadLine ==
  ASSUME StreamInv, PatientInv, ReadLine
  PROVE  PatientInv'
<1> SUFFICES ASSUME sender' = "patient"
             PROVE  /\ open'
                    /\ Len(said') <= Len(done') + 1
                    /\ Text(input') # <<>> => net' # <<>>
  BY DEF PatientInv
<1>1. open' = open /\ sender' = sender /\ said' = said
  BY DEF ReadLine
<1>2. /\ done \in Seq(Item) /\ Len(said) \in Nat /\ Len(done) \in Nat
      /\ said \in Seq(Item) /\ Len(said) <= Len(done) + 1 /\ open
  BY <1>1 DEF StreamInv, TypeInv, PatientInv
<1>3. PICK T \in Seq(NetByte), U \in Seq(NetByte) : LineTaken(T, U)
  BY ReadLineTakes
<1>4. CASE Skipped(T, U, said, Len(done)) /\ done' = done
  BY <1>1, <1>2, <1>3, <1>4 DEF LineTaken, Skipped
<1>5. CASE Ran(T, U, said, Len(done)) /\ done' = Append(done, said[Len(done) + 1])
  <2>1. Len(done) < Len(said) /\ (Len(done) + 1 = Len(said) => parse[T].rest = <<>>)
    BY <1>5 DEF Ran
  <2>2. parse[T].rest = <<>>
    BY <1>2, <2>1
  <2>3. Text(input') = <<>>
    BY <1>3, <2>2 DEF LineTaken
  <2>4. said[Len(done) + 1] \in Item
    BY <1>2, <2>1
  <2>5. Len(done') = Len(done) + 1
    BY <1>2, <1>5, <2>4
  <2> QED  BY <1>1, <1>2, <2>3, <2>5
<1> QED  BY <1>3, <1>4, <1>5 DEF LineTaken

LEMMA PatientReadPiece ==
  ASSUME Stale = FALSE, StreamInv, PatientInv, LinesFit, ReadPiece
  PROVE  PatientInv'
<1>1. open' = open /\ sender' = sender /\ said' = said /\ done' = done
  BY DEF ReadPiece
<1> SUFFICES ASSUME sender = "patient", net' = <<>> PROVE FALSE
  BY <1>1 DEF PatientInv
<1>2. PICK n \in 1..Len(net) : net[n] \notin Eol /\ net' = SubSeq(net, n + 1, Len(net))
  BY ReadPieceTakes
<1>3. net \in Seq(NetByte) /\ n \in 0..Len(net) /\ Text(input) \in Seq(NetByte)
      /\ Len(net) \in Nat /\ Len(Text(input)) \in Nat
  BY <1>2, TextOf DEF StreamInv, TypeInv
<1>4. n = Len(net)
  <2>1. Len(net') = Len(net) - n
    BY <1>2, <1>3, Cut
  <2> QED  BY <1>3, <2>1
<1> DEFINE P == Text(input) \o net
<1>5. P # <<>> => P[Len(P)] = "LF"
  BY PatientRoom
<1>6. /\ Len(P) = Len(Text(input)) + Len(net)
      /\ \A i \in 1..(Len(Text(input)) + Len(net)) :
           P[i] = IF i <= Len(Text(input)) THEN Text(input)[i] ELSE net[i - Len(Text(input))]
  BY <1>3, JoinIs, Zenon
<1>7. /\ Len(Text(input)) + Len(net) \in 1..(Len(Text(input)) + Len(net))
      /\ ~(Len(Text(input)) + Len(net) <= Len(Text(input)))
      /\ (Len(Text(input)) + Len(net)) - Len(Text(input)) = Len(net)
  BY <1>3, <1>4
<1> HIDE DEF P
<1>8. P[Len(P)] = net[Len(net)]
  BY <1>6, <1>7
<1>9. P # <<>>
  BY <1>3, <1>4, <1>6
<1> QED  BY <1>2, <1>4, <1>5, <1>8, <1>9 DEF Eol

LEMMA PatientOthers ==
  ASSUME StreamInv, PatientInv, LinesFit, Next \/ UNCHANGED vars
  PROVE  ReadLine \/ ReadPiece \/ PatientInv'
<1> USE DEF PatientInv
<1>1. CASE ReadFails
  <2>1. sender # "patient"
    BY <1>1, PatientNotFailed
  <2> QED  BY <1>1, <2>1 DEF ReadFails, FreeFtp
<1>2. CASE NothingToRead \/ UNCHANGED vars
  BY <1>2 DEF NothingToRead, vars
<1>3. CASE Say
  <2>1. PICK t \in Telnet, c \in Commands, eol \in {<<"CR", "LF">>, <<"LF">>} :
          /\ net' = net \o Wire(t, c, eol)
          /\ said' = Append(said, [verb |-> SubSeq(c.verb, 1, Min({4, Len(c.verb)})),
                                   args |-> c.args, refused |-> Refused(t)])
    BY <1>3 DEF Say
  <2>2. eol \in Eols /\ said' = Append(said, Summary(t, c))
    BY <2>1 DEF Eols, Summary, First4
  <2>3. net \in Seq(NetByte) /\ said \in Seq(Item) /\ Len(done) \in Nat /\ Len(said) \in Nat
    BY DEF StreamInv, TypeInv
  <2>4. net' # <<>>
    <3> DEFINE W == Wire(t, c, eol)
    <3>1. W \in Seq(NetByte) /\ W # <<>>
      BY <2>2, WireTyped
    <3> HIDE DEF W
    <3>2. net \o W # <<>>
      BY <2>3, <3>1, ConcatEqualIffEmpty
    <3> QED  BY <2>1, <3>2 DEF W
  <2>5. Len(said') = Len(said) + 1
    <3>1. \A x \in Item : Len(Append(said, x)) = Len(said) + 1
      BY <2>3
    <3> QED  BY <2>2, <3>1, SummaryTyped
  <2>6. /\ open' = open /\ input' = input /\ sender' = sender /\ done' = done /\ open
        /\ sender = "patient" => Len(done) = Len(said)
    BY <1>3 DEF Say
  <2> QED  BY <2>3, <2>4, <2>5, <2>6
<1>4. CASE Close
  BY <1>4 DEF Close
<1>5. CASE NewFtp
  <2>1. open' = TRUE /\ input' = Zeroed /\ said' = <<>> /\ done' = <<>>
    BY <1>5 DEF NewFtp
  <2>2. Len(<<>>) <= Len(<<>>) + 1
    OBVIOUS
  <2> QED  BY <2>1, <2>2, ZeroedText
<1> QED  BY <1>1, <1>2, <1>3, <1>4, <1>5 DEF Next, Read

LEMMA PatientAlways ==
  ASSUME Stale = FALSE, LinesFit
  PROVE  Spec => []PatientInv
<1>1. Init => PatientInv
  BY DEF Init, PatientInv
<1>2. StreamInv /\ PatientInv /\ [Next]_vars => PatientInv'
  BY PatientReadLine, PatientReadPiece, PatientOthers
<1> QED  BY <1>1, <1>2, StreamAlways, PTL DEF Spec

(* A peer that waits for each answer, and whose lines are shorter than the
   buffer, is never hung up on for what an earlier call left there (ftpd.c 1011). *)
THEOREM PatientKept ==
  ASSUME Stale = FALSE, LinesFit
  PROVE  Spec => []PatientPeerStays
<1>1. PatientInv => PatientPeerStays
  BY DEF PatientInv, PatientPeerStays
<1> QED  BY <1>1, PatientAlways, PTL

(* Nothing stays in input of a peer whose commands were all run, and something of
   the one that was not is on the way. *)
LEMMA PatientHeardImplied ==
  ASSUME StreamInv, PatientInv, LinesFit
  PROVE  PatientPeerHeard
<1> SUFFICES ASSUME sender = "patient" PROVE PatientPeerHeard
  BY DEF PatientPeerHeard
<1> DEFINE k == Len(done)
           T == Text(input)
           P == T \o net
<1>1. /\ T \in Seq(NetByte) /\ net \in Seq(NetByte) /\ said \in Seq(Item) /\ k \in 0..Len(said)
      /\ Len(said) \in Nat /\ T # <<>> => net # <<>>
      /\ Streams(P, said, k)
  BY TextOf DEF StreamInv, TypeInv, DoneInOrder, PatientInv
<1>2. PICK lead, tails : Split(P, said, k, lead, tails)
  BY <1>1 DEF Streams
<1>3. /\ lead \in Seq(NetByte) /\ Len(lead) <= 1 /\ tails \in [0..Len(said) -> Seq(NetByte)]
      /\ P = lead \o tails[k] /\ tails[Len(said)] = <<>>
  BY <1>2, LeadTyped DEF Split
<1>4. Len(P) = Len(T) + Len(net) /\ Len(T) \in Nat /\ Len(net) \in Nat
  BY <1>1, ConcatProperties
<1> HIDE DEF P, T
<1>5. CASE k = Len(said)
  <2>1. P = lead
    BY <1>3, <1>5, ConcatEmptySeq
  <2>2. Len(T) + Len(net) <= 1
    BY <1>3, <1>4, <2>1
  <2>3. T = <<>>
    BY <1>1, <1>4, <2>2
  <2> QED  BY <1>5, <2>3 DEF PatientPeerHeard, T
<1>6. CASE k # Len(said)
  <2>1. k + 1 \in (k + 1)..Len(said) /\ (k + 1) - 1 = k /\ k \in 0..Len(said) /\ k + 1 \in 0..Len(said)
    BY <1>1, <1>6
  <2>2. FirstIs(tails[k], tails[k + 1], said[k + 1])
    BY <1>2, <2>1 DEF Split
  <2>3. PICK t \in Telnet, c \in Commands, eol \in Eols : tails[k] = Wire(t, c, eol) \o tails[k + 1]
    BY <2>2 DEF FirstIs
  <2> DEFINE W == Wire(t, c, eol)
  <2>4. W \in Seq(NetByte) /\ Len(W) \in Nat \ {0}
    BY WireTyped
  <2> HIDE DEF W
  <2>5. tails[k] \in Seq(NetByte) /\ tails[k + 1] \in Seq(NetByte)
    BY <1>3, <2>1
  <2>6. Len(tails[k]) = Len(W) + Len(tails[k + 1])
    BY <2>3, <2>4, <2>5, ConcatProperties DEF W
  <2>7. Len(P) = Len(lead) + Len(tails[k])
    BY <1>3, <2>5, ConcatProperties
  <2>8. T # <<>> \/ net # <<>>
    <3>1. Len(P) > 0
      BY <1>3, <2>4, <2>5, <2>6, <2>7
    <3>2. Len(T) > 0 \/ Len(net) > 0
      BY <1>4, <3>1
    <3> QED  BY <1>1, <3>2
  <2> QED  BY <1>1, <1>6, <2>8 DEF PatientPeerHeard
<1> QED  BY <1>5, <1>6

(* The server and a peer that waits for each answer never wait for each other: the
   peer's line is not left in input, and what it still has to come is under way
   (ftpd.c 1004-1020, 1085-1092), for lines shorter than the buffer. *)
THEOREM PatientHeard ==
  ASSUME Stale = FALSE, LinesFit
  PROVE  Spec => []PatientPeerHeard
<1>1. StreamInv /\ PatientInv => PatientPeerHeard
  BY PatientHeardImplied
<1> QED  BY <1>1, PatientAlways, StreamAlways, PTL

=============================================================================
