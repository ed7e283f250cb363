------------------------- MODULE Replies_proofs -------------------------
(***************************************************************************)
(* Proofs about the reply queue: for every set of command codes, banner    *)
(* length and bound, provided FEAT is not sent over held text.  What is    *)
(* said of the peer holds as long as send() took every line whole (~torn); *)
(* what is said of the queue holds always.                                 *)
(*                                                                         *)
(* Why the strengthening IInv is needed: that the peer is never left       *)
(* inside a multi-line reply follows only from what is still queued, so    *)
(* the invariant says that each opening line in the queue, and the reply   *)
(* that the peer is inside, has its closing line in the queue (Bracketed,  *)
(* HasCloser), and that placeholders are a suffix of the queue             *)
(* (HeldAtTail), so that none of them can stand before such a line.        *)
(*                                                                         *)
(* Counting the replies needs more (CountInv): what is due to the peer is  *)
(* the number of closing lines queued, and the next closing line behind an *)
(* opening one, or behind what the peer is inside, is its own.  Without    *)
(* the second part one reply could swallow the end of another.             *)
(***************************************************************************)
EXTENDS Replies, SequenceTheorems, FiniteSetTheorems, TLAPS

HeldAtTail(q) ==
  \A i, j \in 1..Len(q) : i < j /\ q[i].code = Hold => q[j].code = Hold

(* The line "c " that closes a reply opened at or before position k. *)
HasCloser(q, k, c) == \E j \in 1..Len(q) : j > k /\ q[j] = Final(c)

Bracketed(q) ==
  \A i \in 1..Len(q) :
    q[i].more /\ q[i].code # Hold => HasCloser(q, i, q[i].code)

WellFormed(q) == q \in Seq(Line) /\ HeldAtTail(q) /\ Bracketed(q)

(* What output() may do to the queue: p still closes whatever q closed, and
   still begins with a numbered line if q did. *)
Keeps(q, p) ==
  /\ \A c : c # Hold /\ HasCloser(q, 0, c) => HasCloser(p, 0, c)
  /\ Sendable(q) => Sendable(p)

IInv ==
  /\ TypeOK
  /\ WellFormed(queue)
  /\ ~torn /\ reading # Idle => HasCloser(queue, 0, reading)
  /\ QuitGetsWritten

-----------------------------------------------------------------------------
(* Lemmas about the operators that model output() *)

LEMMA CodesAreReal == Hold \notin Codes /\ Idle \notin Codes /\ NoCode \notin Codes
BY RepliesAssumption DEF Codes, ServerCodes, Hold, Idle, NoCode

LEMMA RepeatProperties ==
  ASSUME NEW line \in Line, NEW n \in Nat
  PROVE  /\ Repeat(line, n) \in Seq(Line)
         /\ Len(Repeat(line, n)) = n
         /\ \A i \in 1..n : Repeat(line, n)[i] = line
BY DEF Repeat

LEMMA ClaimProperties ==
  ASSUME NEW q \in Seq(Line), NEW c \in Codes
  PROVE  /\ Claim(q, c) \in Seq(Line)
         /\ Len(Claim(q, c)) = Len(q)
         /\ \A i \in 1..Len(q) :
              /\ q[i].code # Hold => Claim(q, c)[i] = q[i]
              /\ q[i].code = Hold => Claim(q, c)[i] = Opening(c)
              /\ Claim(q, c)[i].code # Hold
<1>1. Len(q) \in Nat /\ \A i \in 1..Len(q) : q[i] \in Line
  OBVIOUS
<1>2. Opening(c) \in Line /\ Opening(c).code = c
  BY DEF Opening, Line
<1>3. c # Hold
  BY CodesAreReal
<1> QED  BY <1>1, <1>2, <1>3 DEF Claim

(* Appending finals of code c to a queue whose placeholders c has claimed. *)
LEMMA NumberedWellFormed ==
  ASSUME NEW q, WellFormed(q), NEW c \in Codes, NEW n \in Nat \ {0}
  PROVE  LET p == Claim(q, c) \o Repeat(Final(c), n)
         IN  WellFormed(p) /\ Keeps(q, p) /\ Sendable(p)
<1> DEFINE r == Claim(q, c)
           t == Repeat(Final(c), n)
           p == r \o t
<1>1. q \in Seq(Line) /\ Len(q) \in Nat
  BY DEF WellFormed
<1>2. Final(c) \in Line /\ Final(c).code = c /\ Final(c).more = FALSE /\ c # Hold
  BY CodesAreReal DEF Final, Line
<1>3. /\ r \in Seq(Line) /\ Len(r) = Len(q)
      /\ \A i \in 1..Len(q) :
           /\ q[i].code # Hold => r[i] = q[i]
           /\ q[i].code = Hold => r[i] = Opening(c)
           /\ r[i].code # Hold
  BY <1>1, ClaimProperties
<1>4. t \in Seq(Line) /\ Len(t) = n /\ \A i \in 1..n : t[i] = Final(c)
  BY <1>2, RepeatProperties
<1> HIDE DEF r, t
<1>5. /\ p \in Seq(Line) /\ Len(p) = Len(q) + n
      /\ \A i \in 1..Len(q) : p[i] = r[i]
      /\ \A i \in (Len(q) + 1)..(Len(q) + n) : p[i] = Final(c)
  <2>1. /\ p \in Seq(Line) /\ Len(p) = Len(r) + Len(t)
        /\ \A i \in 1..(Len(r) + Len(t)) :
             p[i] = IF i <= Len(r) THEN r[i] ELSE t[i - Len(r)]
    BY <1>3, <1>4, ConcatProperties, ZenonT(30)
  <2>2. /\ Len(p) = Len(q) + n
        /\ \A i \in 1..Len(q) : i <= Len(r) /\ i \in 1..(Len(r) + Len(t))
    BY <2>1, <1>1, <1>3, <1>4
  <2>3. \A i \in (Len(q) + 1)..(Len(q) + n) :
          i \in 1..(Len(r) + Len(t)) /\ ~(i <= Len(r)) /\ i - Len(r) \in 1..n
    BY <1>1, <1>3, <1>4
  <2> QED  BY <2>1, <2>2, <2>3, <1>4
<1> HIDE DEF p
<1>6. \A i \in 1..Len(p) : p[i].code # Hold
  <2>1. \A i \in 1..Len(q) : p[i].code # Hold
    BY <1>3, <1>5
  <2>2. \A i \in (Len(q) + 1)..(Len(q) + n) : p[i].code # Hold
    BY <1>2, <1>5
  <2>3. \A i \in 1..Len(p) : i \in 1..Len(q) \/ i \in (Len(q) + 1)..(Len(q) + n)
    BY <1>1, <1>5
  <2> QED  BY <2>1, <2>2, <2>3
<1>7. HeldAtTail(p)
  BY <1>6 DEF HeldAtTail
<1>8. p[Len(p)] = Final(c) /\ Len(p) \in 1..Len(p) /\ Len(p) > Len(q)
  BY <1>1, <1>5
<1>9. ASSUME NEW k \in Nat, NEW d, d # Hold, HasCloser(q, k, d)
      PROVE  HasCloser(p, k, d)
  <2>1. PICK j \in 1..Len(q) : j > k /\ q[j] = Final(d)
    BY <1>9 DEF HasCloser
  <2>2. q[j].code # Hold
    BY <2>1, <1>9 DEF Final
  <2>3. p[j] = q[j] /\ j \in 1..Len(p)
    BY <2>2, <1>1, <1>3, <1>5
  <2> QED  BY <2>1, <2>3 DEF HasCloser
<1>10. Bracketed(p)
  <2> SUFFICES ASSUME NEW i \in 1..Len(p), p[i].more, p[i].code # Hold
               PROVE  HasCloser(p, i, p[i].code)
    BY DEF Bracketed
  <2>1. i \in 1..Len(q)
    BY <1>1, <1>2, <1>5
  <2>2. CASE q[i].code = Hold
    <3>1. p[i].code = c
      BY <2>1, <2>2, <1>3, <1>5 DEF Opening
    <3>2. i < Len(p)
      BY <2>1, <1>1, <1>8
    <3> QED  BY <3>1, <3>2, <1>8 DEF HasCloser
  <2>3. CASE q[i].code # Hold
    <3>1. p[i] = q[i]
      BY <2>1, <2>3, <1>3, <1>5
    <3>2. HasCloser(q, i, q[i].code)
      BY <2>1, <2>3, <3>1 DEF WellFormed, Bracketed
    <3> QED  BY <3>1, <3>2, <2>1, <2>3, <1>9
  <2> QED  BY <2>2, <2>3
<1>11. Keeps(q, p) /\ Sendable(p)
  <2>1. \A d : d # Hold /\ HasCloser(q, 0, d) => HasCloser(p, 0, d)
    BY <1>9
  <2>2. Sendable(p)
    BY <1>6, <1>8, <1>5 DEF Sendable
  <2> QED  BY <2>1, <2>2 DEF Keeps
<1>12. WellFormed(p)
  BY <1>5, <1>7, <1>10 DEF WellFormed
<1> QED  BY <1>11, <1>12 DEF p, r, t

(* A single numbered line is the case n = 1. *)
LEMMA NumberedProperties ==
  ASSUME NEW q, WellFormed(q), NEW c \in Codes
  PROVE  /\ WellFormed(Numbered(q, c))
         /\ Keeps(q, Numbered(q, c))
         /\ Sendable(Numbered(q, c))
<1>1. Claim(q, c) \in Seq(Line) /\ Final(c) \in Line
  BY ClaimProperties DEF WellFormed, Final, Line
<1>2. Repeat(Final(c), 1) = <<Final(c)>>
  BY DEF Repeat
<1>3. Numbered(q, c) = Claim(q, c) \o Repeat(Final(c), 1)
  BY <1>1, <1>2, AppendIsConcat DEF Numbered
<1> QED  BY <1>3, NumberedWellFormed

(* Text that is held goes to the end of the queue, under the placeholder. *)
LEMMA HeldTextProperties ==
  ASSUME NEW q, WellFormed(q), NEW isQuiet \in BOOLEAN, NEW n \in Nat
  PROVE  WellFormed(HeldText(q, isQuiet, n)) /\ Keeps(q, HeldText(q, isQuiet, n))
<1>1. CASE isQuiet
  BY <1>1 DEF HeldText, Keeps
<1>2. CASE ~isQuiet
  <2> DEFINE t == Repeat(Opening(Hold), n)
             p == q \o t
  <2>1. q \in Seq(Line) /\ Len(q) \in Nat
    BY DEF WellFormed
  <2>2. Opening(Hold) \in Line /\ Opening(Hold).code = Hold
    BY DEF Opening, Line
  <2>3. t \in Seq(Line) /\ Len(t) = n /\ \A i \in 1..n : t[i] = Opening(Hold)
    BY <2>2, RepeatProperties
  <2> HIDE DEF t
  <2>4. /\ p \in Seq(Line) /\ Len(p) = Len(q) + n
        /\ \A i \in 1..Len(q) : p[i] = q[i]
        /\ \A i \in (Len(q) + 1)..(Len(q) + n) : p[i] = Opening(Hold)
    <3>1. /\ p \in Seq(Line) /\ Len(p) = Len(q) + Len(t)
          /\ \A i \in 1..(Len(q) + Len(t)) :
               p[i] = IF i <= Len(q) THEN q[i] ELSE t[i - Len(q)]
      BY <2>1, <2>3, ConcatProperties, ZenonT(30)
    <3> QED  BY <3>1, <2>1, <2>3
  <2> HIDE DEF p
  <2>5. HeldAtTail(p)
    BY <2>1, <2>2, <2>4 DEF WellFormed, HeldAtTail
  <2>6. \A k \in Nat : \A d : HasCloser(q, k, d) => HasCloser(p, k, d)
    BY <2>1, <2>4 DEF HasCloser
  <2>7. Bracketed(p)
    <3> SUFFICES ASSUME NEW i \in 1..Len(p), p[i].more, p[i].code # Hold
                 PROVE  HasCloser(p, i, p[i].code)
      BY DEF Bracketed
    <3>1. i \in 1..Len(q) /\ p[i] = q[i]
      BY <2>1, <2>2, <2>4
    <3>2. HasCloser(q, i, p[i].code)
      BY <3>1 DEF WellFormed, Bracketed
    <3> QED  BY <3>1, <3>2, <2>6
  <2>8. Sendable(q) => Sendable(p)
    <3> SUFFICES ASSUME Sendable(q) PROVE Sendable(p)
      OBVIOUS
    <3>1. 1 \in 1..Len(q) /\ q[1].code # Hold
      BY <2>1 DEF Sendable
    <3>2. p[1] = q[1] /\ Len(p) >= 1
      BY <3>1, <2>1, <2>4
    <3> QED  BY <3>1, <3>2, <2>4 DEF Sendable
  <2>9. HeldText(q, isQuiet, n) = p
    BY <1>2 DEF HeldText, p, t
  <2> QED  BY <2>4, <2>5, <2>6, <2>7, <2>8, <2>9 DEF WellFormed, Keeps
<1> QED  BY <1>1, <1>2

(* A banner and the numbered line that ends it. *)
LEMMA TextProperties ==
  ASSUME NEW q, WellFormed(q), NEW isQuiet \in BOOLEAN, NEW n \in Nat, NEW c \in Codes
  PROVE  LET p == Numbered(HeldText(q, isQuiet, n), c)
         IN  WellFormed(p) /\ Keeps(q, p) /\ Sendable(p)
<1> DEFINE h == HeldText(q, isQuiet, n)
<1>1. WellFormed(h) /\ Keeps(q, h)
  BY HeldTextProperties
<1> HIDE DEF h
<1>2. WellFormed(Numbered(h, c)) /\ Keeps(h, Numbered(h, c)) /\ Sendable(Numbered(h, c))
  BY <1>1, NumberedProperties
<1>3. Keeps(q, Numbered(h, c))
  BY <1>1, <1>2 DEF Keeps
<1> QED  BY <1>2, <1>3 DEF h

(* Two numbered replies in a row. *)
LEMMA TwiceProperties ==
  ASSUME NEW q, WellFormed(q), NEW c \in Codes, NEW d \in Codes
  PROVE  LET p == Numbered(Numbered(q, c), d)
         IN  WellFormed(p) /\ Keeps(q, p) /\ Sendable(p)
<1> DEFINE h == Numbered(q, c)
<1>1. WellFormed(h) /\ Keeps(q, h)
  BY NumberedProperties
<1> HIDE DEF h
<1>2. WellFormed(Numbered(h, d)) /\ Keeps(h, Numbered(h, d)) /\ Sendable(Numbered(h, d))
  BY <1>1, NumberedProperties
<1>3. Keeps(q, Numbered(h, d))
  BY <1>1, <1>2 DEF Keeps
<1> QED  BY <1>2, <1>3 DEF h

(* The raw lines of FEAT are safe behind a queue that holds no placeholder. *)
LEMMA RawProperties ==
  ASSUME NEW q, WellFormed(q), \A i \in DOMAIN q : q[i].code # Hold
  PROVE  LET p == Raw(q, <<Opening(211), Final(NoCode), Final(211)>>)
         IN  WellFormed(p) /\ Keeps(q, p) /\ Sendable(p)
<1> DEFINE t == <<Opening(211), Final(NoCode), Final(211)>>
           p == q \o t
<1>1. q \in Seq(Line) /\ Len(q) \in Nat
  BY DEF WellFormed
<1>0. \A i \in 1..Len(q) : q[i].code # Hold
  BY <1>1
<1>2. /\ Opening(211) \in Line /\ Opening(211).code = 211
      /\ Final(NoCode) \in Line /\ ~Final(NoCode).more /\ Final(NoCode).code = NoCode
      /\ Final(211) \in Line /\ ~Final(211).more /\ Final(211).code = 211
  BY DEF Opening, Final, Line, Codes, ServerCodes
<1>3. /\ t \in Seq(Line) /\ Len(t) = 3
      /\ t[1] = Opening(211) /\ t[2] = Final(NoCode) /\ t[3] = Final(211)
  BY <1>2
<1> HIDE DEF t
<1>4. /\ p \in Seq(Line) /\ Len(p) = Len(q) + 3
      /\ \A i \in 1..Len(q) : p[i] = q[i]
      /\ p[Len(q) + 1] = Opening(211) /\ p[Len(q) + 2] = Final(NoCode)
      /\ p[Len(q) + 3] = Final(211)
  <2>1. /\ p \in Seq(Line) /\ Len(p) = Len(q) + Len(t)
        /\ \A i \in 1..(Len(q) + Len(t)) :
             p[i] = IF i <= Len(q) THEN q[i] ELSE t[i - Len(q)]
    <3>1. q \in Seq(Line) /\ t \in Seq(Line)
      BY <1>1, <1>3
    <3> QED  BY <3>1, ConcatProperties, ZenonT(30)
  <2> QED  BY <2>1, <1>1, <1>3
<1> HIDE DEF p
<1>5. \A i \in 1..Len(p) :
        i \in 1..Len(q) \/ i = Len(q) + 1 \/ i = Len(q) + 2 \/ i = Len(q) + 3
  BY <1>1, <1>4
<1>6. \A i \in 1..Len(p) : p[i].code # Hold
  BY <1>0, <1>1, <1>2, <1>4, <1>5 DEF Hold, NoCode
<1>7. HeldAtTail(p)
  BY <1>6 DEF HeldAtTail
<1>8. \A k \in Nat : \A d : HasCloser(q, k, d) => HasCloser(p, k, d)
  BY <1>1, <1>4 DEF HasCloser
<1>9. Bracketed(p)
  <2> SUFFICES ASSUME NEW i \in 1..Len(p), p[i].more
               PROVE  HasCloser(p, i, p[i].code)
    BY DEF Bracketed
  <2>1. CASE i \in 1..Len(q)
    <3>1. p[i] = q[i] /\ q[i].code # Hold
      BY <2>1, <1>0, <1>1, <1>4
    <3>2. HasCloser(q, i, p[i].code)
      BY <2>1, <3>1 DEF WellFormed, Bracketed
    <3> QED  BY <3>1, <3>2, <2>1, <1>8
  <2>2. CASE i = Len(q) + 1
    <3>1. p[i].code = 211 /\ Len(q) + 3 \in 1..Len(p) /\ Len(q) + 3 > i
      BY <2>2, <1>1, <1>2, <1>4
    <3> QED  BY <3>1, <1>4 DEF HasCloser
  <2>3. i # Len(q) + 2 /\ i # Len(q) + 3
    BY <1>2, <1>4
  <2> QED  BY <2>1, <2>2, <2>3, <1>5
<1>10. Sendable(p)
  BY <1>1, <1>4, <1>6 DEF Sendable
<1>11. WellFormed(p) /\ Keeps(q, p)
  BY <1>4, <1>7, <1>8, <1>9, <1>10 DEF WellFormed, Keeps
<1> QED  BY <1>10, <1>11 DEF p, t, Raw

(* Taking the first line off the queue. *)
LEMMA TailProperties ==
  ASSUME NEW q, WellFormed(q), Sendable(q)
  PROVE  /\ WellFormed(Tail(q))
         /\ q[1] \in Line /\ q[1].code # Hold
         /\ q[1].more => HasCloser(Tail(q), 0, q[1].code)
         /\ \A c : HasCloser(q, 0, c) /\ q[1] # Final(c) => HasCloser(Tail(q), 0, c)
<1> DEFINE p == Tail(q)
<1>1. /\ q \in Seq(Line) /\ Len(q) \in Nat /\ Len(q) >= 1
      /\ 1 \in 1..Len(q) /\ q[1].code # Hold /\ q[1] \in Line
  BY DEF WellFormed, Sendable
<1>2. /\ p \in Seq(Line) /\ Len(p) = Len(q) - 1
      /\ \A i \in 1..Len(p) : p[i] = q[i + 1] /\ i + 1 \in 1..Len(q)
  BY <1>1 DEF Sendable
<1> HIDE DEF p
<1>3. \A k \in Nat : \A c : HasCloser(q, k + 1, c) => HasCloser(p, k, c)
  <2> SUFFICES ASSUME NEW k \in Nat, NEW c, HasCloser(q, k + 1, c)
               PROVE  HasCloser(p, k, c)
    OBVIOUS
  <2>1. PICK j \in 1..Len(q) : j > k + 1 /\ q[j] = Final(c)
    BY DEF HasCloser
  <2>2. j - 1 \in 1..Len(p) /\ j - 1 > k /\ (j - 1) + 1 = j
    BY <2>1, <1>1, <1>2
  <2>3. p[j - 1] = q[j]
    BY <2>2, <1>2
  <2> QED  BY <2>1, <2>2, <2>3 DEF HasCloser
<1>4. HeldAtTail(p)
  <2> SUFFICES ASSUME NEW i \in 1..Len(p), NEW j \in 1..Len(p), i < j, p[i].code = Hold
               PROVE  p[j].code = Hold
    BY DEF HeldAtTail
  <2>1. p[i] = q[i + 1] /\ p[j] = q[j + 1] /\ i + 1 < j + 1
    BY <1>2
  <2>2. i + 1 \in 1..Len(q) /\ j + 1 \in 1..Len(q)
    BY <1>2
  <2> QED  BY <2>1, <2>2 DEF WellFormed, HeldAtTail
<1>5. Bracketed(p)
  <2> SUFFICES ASSUME NEW i \in 1..Len(p), p[i].more, p[i].code # Hold
               PROVE  HasCloser(p, i, p[i].code)
    BY DEF Bracketed
  <2>1. p[i] = q[i + 1] /\ i + 1 \in 1..Len(q) /\ i \in Nat
    BY <1>2
  <2>2. HasCloser(q, i + 1, p[i].code)
    BY <2>1 DEF WellFormed, Bracketed
  <2> QED  BY <2>1, <2>2, <1>3
<1>6. q[1].more => HasCloser(p, 0, q[1].code)
  <2> SUFFICES ASSUME q[1].more PROVE HasCloser(p, 0, q[1].code)
    OBVIOUS
  <2>1. HasCloser(q, 0 + 1, q[1].code)
    BY <1>1 DEF WellFormed, Bracketed
  <2> QED  BY <2>1, <1>3
<1>7. ASSUME NEW c, HasCloser(q, 0, c), q[1] # Final(c)
      PROVE  HasCloser(p, 0, c)
  <2>1. PICK j \in 1..Len(q) : j > 0 /\ q[j] = Final(c)
    BY <1>7 DEF HasCloser
  <2>2. j > 0 + 1
    BY <2>1, <1>7, <1>1
  <2>3. HasCloser(q, 0 + 1, c)
    BY <2>1, <2>2 DEF HasCloser
  <2> QED  BY <2>3, <1>3
<1>8. WellFormed(p)
  BY <1>2, <1>4, <1>5 DEF WellFormed
<1> QED  BY <1>1, <1>6, <1>7, <1>8 DEF p

-----------------------------------------------------------------------------
(* The inductive invariant *)

LEMMA InitIInv == Init => IInv
<1> SUFFICES ASSUME Init PROVE IInv
  OBVIOUS
<1>1. queue = <<>> /\ Len(queue) = 0
  BY DEF Init
<1>2. TypeOK
  <2>1. /\ alive \in BOOLEAN /\ quiet \in BOOLEAN /\ quit \in BOOLEAN
        /\ sending \in BOOLEAN /\ torn \in BOOLEAN
    BY Zenon DEF Init
  <2>2. /\ queue \in Seq(Line) /\ reading \in {Idle} /\ due \in Int /\ ~sending
        /\ cut = <<>> /\ cut \in Seq(Line) /\ Len(cut) <= 1
    BY DEF Init
  <2> QED  BY <1>1, <2>1, <2>2 DEF TypeOK
<1>3. WellFormed(queue)
  BY <1>1 DEF WellFormed, HeldAtTail, Bracketed
<1> QED  BY <1>2, <1>3 DEF Init, IInv, QuitGetsWritten

(* Any handler: it adds to the queue and never touches the peer's state. *)
LEMMA HandlerStep ==
  ASSUME IInv, CanRun,
         WellFormed(queue'), Keeps(queue, queue'),
         quiet' \in BOOLEAN, quit' \in BOOLEAN, due' \in Int,
         quit' => quit \/ Sendable(queue'),
         UNCHANGED <<alive, sending, reading, wire>>
  PROVE  IInv'
<1>1. TypeOK'
  BY DEF IInv, TypeOK, WellFormed, CanRun, wire
<1>2. (~torn /\ reading # Idle => HasCloser(queue, 0, reading))'
  <2>1. reading # Idle => reading # Hold
    BY CodesAreReal DEF IInv, TypeOK
  <2> QED  BY <2>1 DEF IInv, Keeps, wire
<1>3. QuitGetsWritten'
  BY DEF IInv, QuitGetsWritten, Keeps, CanRun
<1> QED  BY <1>1, <1>2, <1>3 DEF IInv

(* What the peer makes of the end of a line is a line, and the line itself as
   long as none was torn. *)
LEMMA JoinedLines ==
  ASSUME TypeOK, NEW line \in Line, line.code # Hold, NEW got \in Joined(line)
  PROVE  got \in Line /\ got.code # Hold /\ (~torn => got = line)
<1>1. \A c \in Codes : Final(c) \in Line /\ Final(c).code # Hold
  BY CodesAreReal DEF Final, Line
<1>2. CASE cut = <<>>
  BY <1>2 DEF Joined
<1>3. CASE cut # <<>>
  <2>1. torn /\ cut[1] \in Line /\ cut[1].code # Hold
    BY <1>3 DEF TypeOK
  <2> QED  BY <2>1, <1>1, <1>3 DEF Joined
<1> QED  BY <1>2, <1>3

LEMMA NextIInv ==
  ASSUME FeatOverHeld = FALSE, IInv, [Next]_vars
  PROVE  IInv'
<1> USE RepliesAssumption
<1>1. WellFormed(queue) /\ TypeOK
  BY DEF IInv
<1>2. /\ {211, 220, 221, 226, 230, 250, 421, 501, 550} \subseteq Codes
      /\ CommandCodes \subseteq Codes
  BY DEF Codes, ServerCodes
<1>3. quiet \in BOOLEAN /\ quit \in BOOLEAN /\ due \in Int
  BY <1>1 DEF TypeOK
<1>4. \A n \in 0..MaxBanner : n \in Nat
  OBVIOUS
<1>5. CASE NewFtp
  <2>1. PICK n \in Nat : queue' = Numbered(HeldText(<<>>, FALSE, n), 220)
    BY <1>4, <1>5 DEF NewFtp
  <2>2. WellFormed(<<>>)
    BY DEF WellFormed, HeldAtTail, Bracketed
  <2>3. FALSE \in BOOLEAN /\ 220 \in Codes
    BY <1>2
  <2>4. WellFormed(Numbered(HeldText(<<>>, FALSE, n), 220))
    <3>1. WellFormed(HeldText(<<>>, FALSE, n))
      BY <2>2, <2>3, HeldTextProperties
    <3> QED  BY <2>3, <3>1, NumberedProperties
  <2>5. WellFormed(queue')
    BY <2>1, <2>4
  <2>6. /\ alive' \in BOOLEAN /\ quiet' \in BOOLEAN /\ quit' \in BOOLEAN
        /\ sending' \in BOOLEAN /\ torn' \in BOOLEAN
    BY <1>5, Zenon DEF NewFtp
  <2>7. /\ alive' /\ ~sending' /\ ~quit' /\ reading' = Idle /\ due' = 1
        /\ cut' = <<>> /\ cut' \in Seq(Line) /\ Len(cut') <= 1 /\ torn' = FALSE
    BY <1>5 DEF NewFtp
  <2>8. TypeOK'
    BY <2>5, <2>6, <2>7 DEF TypeOK, WellFormed
  <2> QED  BY <2>5, <2>7, <2>8 DEF IInv, QuitGetsWritten
<1>6. CASE PlainCommand
  <2>1. PICK c \in Codes : Says(Numbered(queue, c), 1)
    BY <1>2, <1>6 DEF PlainCommand
  <2>2. WellFormed(queue') /\ Keeps(queue, queue')
    BY <2>1, <1>1, NumberedProperties DEF Says
  <2> QED  BY <2>1, <2>2, <1>3, <1>6, HandlerStep DEF PlainCommand, Says
<1>7. CASE TextCommand
  <2>1. PICK n \in Nat : Says(Numbered(HeldText(queue, quiet, n), 250), 1)
    BY <1>4, <1>7 DEF TextCommand
  <2>2. WellFormed(queue') /\ Keeps(queue, queue')
    BY <2>1, <1>1, <1>2, <1>3, TextProperties DEF Says
  <2> QED  BY <2>1, <2>2, <1>3, <1>7, HandlerStep DEF TextCommand, Says
<1>8. CASE PassCommand
  <2>1. PICK dash \in BOOLEAN, n \in Nat :
          quiet' = dash /\ Says(Numbered(HeldText(queue, dash, n), 230), 1)
    BY <1>4, <1>8 DEF PassCommand
  <2>2. WellFormed(queue') /\ Keeps(queue, queue')
    BY <2>1, <1>1, <1>2, TextProperties DEF Says
  <2> QED  BY <2>1, <2>2, <1>3, <1>8, HandlerStep DEF PassCommand, Says
<1>9. CASE QuitCommand
  <2>1. PICK n \in Nat : Says(Numbered(HeldText(queue, quiet, n), 221), 1)
    BY <1>4, <1>9 DEF QuitCommand
  <2>2. WellFormed(queue') /\ Keeps(queue, queue') /\ Sendable(queue')
    BY <2>1, <1>1, <1>2, <1>3, TextProperties DEF Says
  <2> QED  BY <2>1, <2>2, <1>3, <1>9, HandlerStep DEF QuitCommand, Says
<1>10. CASE AborCommand
  <2>1. PICK c \in Codes : Says(Numbered(Numbered(queue, 226), c), 2)
    BY <1>2, <1>10 DEF AborCommand
  <2>2. WellFormed(queue') /\ Keeps(queue, queue')
    BY <2>1, <1>1, <1>2, TwiceProperties DEF Says
  <2> QED  BY <2>1, <2>2, <1>3, <1>10, HandlerStep DEF AborCommand, Says
<1>11. CASE ReinCommand
  <2>1. WellFormed(queue') /\ Keeps(queue, queue')
    BY <1>1, <1>2, <1>11, NumberedProperties DEF ReinCommand, Says
  <2>2. quiet' \in BOOLEAN /\ quit' \in BOOLEAN
    BY <1>11, Zenon DEF ReinCommand
  <2> QED  BY <2>1, <2>2, <1>3, <1>11, HandlerStep DEF ReinCommand, Says
<1>12. CASE FeatCommand
  <2>1. \A i \in DOMAIN queue : queue[i].code # Hold
    BY <1>12 DEF FeatCommand
  <2>2. WellFormed(queue') /\ Keeps(queue, queue')
    BY <2>1, <1>1, <1>12, RawProperties DEF FeatCommand, Says
  <2> QED  BY <2>2, <1>3, <1>12, HandlerStep DEF FeatCommand, Says
<1>13. CASE StatCommand
  <2>1. StatLines \in Nat \ {0}
    BY DEF StatLines
  <2>2. WellFormed(queue') /\ Keeps(queue, queue')
    BY <2>1, <1>1, <1>2, <1>13, NumberedWellFormed DEF StatCommand, Says
  <2>3. due' \in Int
    BY <1>3, <1>13 DEF StatCommand, Says, StatLines
  <2> QED  BY <2>2, <2>3, <1>3, <1>13, HandlerStep DEF StatCommand, Says
<1>14. CASE TwiceAnswered
  <2>1. PICK c \in Codes, d \in Codes :
          Says(Numbered(Numbered(queue, c), d), IF OnePerCommand THEN 1 ELSE 2)
    BY <1>2, <1>14 DEF TwiceAnswered
  <2>2. WellFormed(queue') /\ Keeps(queue, queue')
    BY <2>1, <1>1, TwiceProperties DEF Says
  <2> QED  BY <2>1, <2>2, <1>3, <1>14, HandlerStep DEF TwiceAnswered, Says
<1>15. CASE TransferEnds
  <2>1. WellFormed(queue') /\ Keeps(queue, queue')
    BY <1>1, <1>2, <1>15, NumberedProperties DEF TransferEnds, Says
  <2> QED  BY <2>1, <1>3, <1>15, HandlerStep DEF TransferEnds, Says
<1>16. CASE ConsoleMessage
  <2>1. WellFormed(queue') /\ Keeps(queue, queue')
    BY <1>1, <1>3, <1>16, HeldTextProperties DEF ConsoleMessage, Says
  <2> QED  BY <2>1, <1>3, <1>16, HandlerStep DEF ConsoleMessage, Says
<1>17. CASE Kick
  <2>1. WellFormed(queue') /\ Keeps(queue, queue') /\ Sendable(queue')
    BY <1>1, <1>2, <1>17, NumberedProperties DEF Kick, Says
  <2> QED  BY <2>1, <1>3, <1>17, HandlerStep DEF Kick, Says
<1>18. CASE WriteToControl
  BY <1>18 DEF WriteToControl, IInv, TypeOK, QuitGetsWritten, wire
<1>19. CASE SendLine
  <2> DEFINE line == queue[1]
  <2>1. /\ WellFormed(Tail(queue))
        /\ line \in Line /\ line.code # Hold
        /\ line.more => HasCloser(Tail(queue), 0, line.code)
        /\ \A c : HasCloser(queue, 0, c) /\ line # Final(c) => HasCloser(Tail(queue), 0, c)
    BY <1>1, <1>19, TailProperties DEF SendLine
  <2>2. queue' = Tail(queue) /\ cut' = <<>> /\ torn' = torn
    BY <1>19 DEF SendLine
  <2>3. PICK got \in Joined(line) : Receive(got)
    BY <1>1, <1>19 DEF SendLine, TypeOK, Sendable
  <2>4. got \in Line /\ got.code # Hold /\ (~torn => got = line)
    BY <2>1, <2>3, <1>1, JoinedLines
  <2> HIDE DEF line
  <2>5. reading' \in Codes \cup {Idle} /\ due' \in Int
    BY <2>3, <2>4, <1>1 DEF Receive, TypeOK, Line
  <2>6. ~torn' /\ reading' # Idle => HasCloser(queue', 0, reading')
    BY <2>1, <2>2, <2>3, <2>4 DEF Receive, IInv
  <2>7. TypeOK'
    BY <2>1, <2>2, <2>5, <1>1, <1>19 DEF SendLine, TypeOK, WellFormed
  <2>8. QuitGetsWritten'
    BY <1>19 DEF SendLine, QuitGetsWritten
  <2> QED  BY <2>1, <2>2, <2>6, <2>7, <2>8 DEF IInv
<1>24. CASE SendPart
  <2>1. WellFormed(Tail(queue)) /\ queue[1] \in Line /\ queue[1].code # Hold
    BY <1>1, <1>24, TailProperties DEF SendPart
  <2>2. queue' = Tail(queue) /\ torn' = TRUE /\ due' = 0
    BY <1>24 DEF SendPart
  <2>3. PICK line \in {queue[1], Final(NoCode)} : cut' = IF cut = <<>> THEN <<line>> ELSE cut
    BY <1>1, <1>24 DEF SendPart, TypeOK, Sendable
  <2>4. line \in Line /\ line.code # Hold
    <3>1. Final(NoCode) \in Line /\ Final(NoCode).code # Hold
      BY DEF Final, Line, Hold, NoCode
    <3> QED  BY <2>1, <2>3, <3>1
  <2>5. cut' \in Seq(Line) /\ Len(cut') <= 1 /\ cut'[1].code # Hold
    <3>1. CASE cut = <<>>
      BY <3>1, <2>3, <2>4
    <3>2. CASE cut # <<>>
      BY <3>2, <2>3, <1>1 DEF TypeOK
    <3> QED  BY <3>1, <3>2
  <2>6. TypeOK'
    BY <2>1, <2>2, <2>5, <1>1, <1>24 DEF SendPart, TypeOK, WellFormed
  <2>7. QuitGetsWritten'
    BY <1>24 DEF SendPart, QuitGetsWritten
  <2> QED  BY <2>1, <2>2, <2>6, <2>7 DEF IInv
<1>20. CASE FreeFtp
  <2>1. queue' = <<>> /\ WellFormed(<<>>)
    BY <1>20 DEF FreeFtp, WellFormed, HeldAtTail, Bracketed
  <2>2. /\ alive' \in BOOLEAN /\ quiet' \in BOOLEAN /\ quit' \in BOOLEAN
        /\ sending' \in BOOLEAN /\ torn' \in BOOLEAN
    BY <1>20, Zenon DEF FreeFtp
  <2>3. /\ ~sending' /\ ~quit' /\ reading' = Idle /\ due' = 0
        /\ cut' = <<>> /\ cut' \in Seq(Line) /\ Len(cut') <= 1 /\ torn' = FALSE
    BY <1>20 DEF FreeFtp
  <2>4. TypeOK'
    BY <2>1, <2>2, <2>3 DEF TypeOK, WellFormed
  <2> QED  BY <2>1, <2>3, <2>4 DEF IInv, QuitGetsWritten
<1>21. CASE WriteDone
  <2>1. CASE quit
    BY <2>1, <1>20, <1>21 DEF WriteDone
  <2>2. CASE ~quit
    <3>1. sending' \in BOOLEAN /\ ~quit'
      BY <2>2, <1>3, <1>21, Zenon DEF WriteDone
    <3>2. /\ UNCHANGED <<alive, queue, quiet, reading, due, cut, torn>>
          /\ quit' = quit /\ ~sending'
      BY <2>2, <1>21 DEF WriteDone, wire
    <3> QED  BY <3>1, <3>2 DEF IInv, TypeOK, QuitGetsWritten
  <2> QED  BY <2>1, <2>2
<1>22. CASE ConnectionLost
  BY <1>20, <1>22 DEF ConnectionLost
<1>23. CASE UNCHANGED vars
  BY <1>23 DEF vars, wire, IInv, TypeOK, QuitGetsWritten
<1> QED  BY <1>5, <1>6, <1>7, <1>8, <1>9, <1>10, <1>11, <1>12, <1>13, <1>14, <1>15,
            <1>16, <1>17, <1>18, <1>19, <1>24, <1>21, <1>22, <1>23 DEF Next, Command

LEMMA Invariance ==
  ASSUME FeatOverHeld = FALSE
  PROVE  Spec => []IInv
<1>1. Init => IInv
  BY InitIInv
<1>2. IInv /\ [Next]_vars => IInv'
  BY NextIInv
<1> QED  BY <1>1, <1>2, PTL DEF Spec

-----------------------------------------------------------------------------
(* What a reader should know of *)

(* The variables keep their types, and a freed session has no output left. *)
THEOREM TypeCorrect ==
  ASSUME FeatOverHeld = FALSE
  PROVE  Spec => []TypeOK
<1>1. IInv => TypeOK
  BY DEF IInv
<1> QED  BY <1>1, Invariance, PTL

(* A placeholder at the head of the queue means that nothing but placeholders
   is queued: held text blocks no reply. *)
THEOREM HeldTextBlocksNothing ==
  ASSUME FeatOverHeld = FALSE
  PROVE  Spec => []NoBlockedReply
<1>1. IInv => NoBlockedReply
  <2> SUFFICES ASSUME IInv, queue # <<>>, queue[1].code = Hold, NEW i \in DOMAIN queue
               PROVE  queue[i].code = Hold
    BY DEF NoBlockedReply
  <2>1. queue \in Seq(Line) /\ HeldAtTail(queue)
    BY DEF IInv, WellFormed
  <2>2. 1 \in 1..Len(queue) /\ i \in 1..Len(queue)
    BY <2>1
  <2> QED  BY <2>1, <2>2 DEF HeldAtTail
<1> QED  BY <1>1, Invariance, PTL

(* As long as send() took every line whole: whenever nothing sendable is queued
   the peer is between two replies. *)
THEOREM MultiLineRepliesClose ==
  ASSUME FeatOverHeld = FALSE
  PROVE  Spec => []RepliesAreClosed
<1>1. IInv => RepliesAreClosed
  <2> SUFFICES ASSUME IInv, ~torn, ~Sendable(queue), reading # Idle PROVE FALSE
    BY DEF RepliesAreClosed, RepliesClose
  <2>1. queue \in Seq(Line) /\ HeldAtTail(queue) /\ reading # Hold
    BY CodesAreReal DEF IInv, TypeOK, WellFormed
  <2>2. PICK j \in 1..Len(queue) : queue[j] = Final(reading)
    BY DEF IInv, HasCloser
  <2>3. queue # <<>> /\ 1 \in 1..Len(queue)
    BY <2>1, <2>2
  <2>4. queue[1].code = Hold
    BY <2>3 DEF Sendable
  <2>5. queue[j].code = Hold
    BY <2>1, <2>3, <2>4 DEF HeldAtTail
  <2>6. queue[j].code = reading
    BY <2>2 DEF Final
  <2> QED  BY <2>1, <2>5, <2>6
<1> QED  BY <1>1, Invariance, PTL

(* A session that is to quit has a line for which the loop will be woken. *)
THEOREM QuittingSessionsAreWoken ==
  ASSUME FeatOverHeld = FALSE
  PROVE  Spec => []QuitGetsWritten
<1>1. IInv => QuitGetsWritten
  BY DEF IInv
<1> QED  BY <1>1, Invariance, PTL

-----------------------------------------------------------------------------
(* Counting the replies *)

(* The lines that end a reply, and how many of them are queued. *)
Closers(q) == {i \in 1..Len(q) : ~q[i].more /\ q[i].code # NoCode}
Pending(q) == Cardinality(Closers(q))

HoldOpens(q) == \A i \in 1..Len(q) : q[i].code = Hold => q[i].more

(* The first reply that ends in q ends with the line "c ". *)
FirstCloses(q, c) ==
  \A j \in Closers(q) : (\A k \in Closers(q) : k >= j) => q[j] = Final(c)

(* What ends a reply opened in q at i is the next line that ends one. *)
ClosedNext(q, i) ==
  \A j \in Closers(q) :
    i < j /\ (\A k \in Closers(q) : k <= i \/ k >= j) => q[j] = Final(q[i].code)
NextCloses(q) ==
  \A i \in 1..Len(q) :
    q[i].more /\ q[i].code \notin {Hold, NoCode} => ClosedNext(q, i)

Ordered(q) == HoldOpens(q) /\ NextCloses(q)

(* p owes n replies more than q, after those that q owes. *)
Owes(q, p, n) ==
  /\ Ordered(p)
  /\ Pending(p) = Pending(q) + n
  /\ \A c : c \notin {Hold, NoCode} /\ HasCloser(q, 0, c) /\ FirstCloses(q, c) => FirstCloses(p, c)

CountInv ==
  /\ Ordered(queue)
  /\ ~torn => due = Pending(queue) /\ (reading # Idle => FirstCloses(queue, reading))

LEMMA ClosersFinite ==
  ASSUME NEW q \in Seq(Line)
  PROVE  /\ IsFiniteSet(Closers(q)) /\ Pending(q) \in Nat
         /\ Closers(q) \subseteq 1..Len(q) /\ Len(q) \in Nat
<1>1. Len(q) \in Nat /\ Closers(q) \subseteq 1..Len(q)
  BY DEF Closers
<1>2. IsFiniteSet(1..Len(q))
  BY <1>1, FS_Interval
<1>3. IsFiniteSet(Closers(q))
  BY <1>1, <1>2, FS_Subset
<1> QED  BY <1>1, <1>3, FS_CardinalityType DEF Pending

LEMMA FinalIsCloser ==
  ASSUME NEW q, NEW c, c # NoCode, NEW j \in 1..Len(q), q[j] = Final(c)
  PROVE  j \in Closers(q)
BY DEF Closers, Final

(* p is q with lines behind it, and with its placeholders only renamed; N is
   where the new lines end replies. *)
GrownBy(q, p, N) ==
  /\ p \in Seq(Line) /\ Len(p) >= Len(q)
  /\ \A i \in 1..Len(q) : q[i].code # Hold => p[i] = q[i]
  /\ \A i \in 1..Len(q) : q[i].code = Hold => p[i].more
  /\ N \subseteq (Len(q) + 1)..Len(p)
  /\ \A i \in (Len(q) + 1)..Len(p) : i \in Closers(p) <=> i \in N

LEMMA GrownQueue ==
  ASSUME NEW q, NEW p, NEW N, WellFormed(q), Ordered(q), GrownBy(q, p, N)
  PROVE  /\ Closers(p) = Closers(q) \cup N
         /\ Pending(p) = Pending(q) + Cardinality(N)
         /\ \A i \in 1..Len(q) :
              q[i].more /\ q[i].code \notin {Hold, NoCode} => ClosedNext(p, i)
         /\ \A c : c \notin {Hold, NoCode} /\ HasCloser(q, 0, c) /\ FirstCloses(q, c) => FirstCloses(p, c)
<1>0. /\ p \in Seq(Line) /\ Len(p) >= Len(q)
      /\ \A i \in 1..Len(q) : q[i].code # Hold => p[i] = q[i]
      /\ \A i \in 1..Len(q) : q[i].code = Hold => p[i].more
      /\ N \subseteq (Len(q) + 1)..Len(p)
      /\ \A i \in (Len(q) + 1)..Len(p) : i \in Closers(p) <=> i \in N
  BY DEF GrownBy
<1>1. /\ q \in Seq(Line) /\ Len(q) \in Nat /\ Len(p) \in Nat
      /\ IsFiniteSet(Closers(q)) /\ Closers(q) \subseteq 1..Len(q) /\ Pending(q) \in Nat
  BY <1>0, ClosersFinite DEF WellFormed
<1>2. \A i \in 1..Len(q) : i \in Closers(p) <=> i \in Closers(q)
  BY <1>0, <1>1 DEF Closers, Ordered, HoldOpens
<1>3. Closers(p) \subseteq 1..Len(p) /\ Closers(q) \subseteq 1..Len(q)
  BY <1>0, <1>1 DEF Closers
<1>4. \A i \in 1..Len(p) : i \in 1..Len(q) \/ i \in (Len(q) + 1)..Len(p)
  BY <1>0, <1>1
<1>5. 1..Len(q) \subseteq 1..Len(p) /\ (Len(q) + 1)..Len(p) \subseteq 1..Len(p)
  BY <1>0, <1>1
<1>6. Closers(p) = Closers(q) \cup N
  BY <1>0, <1>2, <1>3, <1>4, <1>5
<1>7. Closers(q) \cap N = {}
  BY <1>0, <1>1, <1>3
<1>8. IsFiniteSet(N) /\ Cardinality(N) \in Nat
  <2>1. IsFiniteSet((Len(q) + 1)..Len(p))
    BY <1>1, FS_Interval
  <2>2. IsFiniteSet(N)
    BY <1>0, <2>1, FS_Subset
  <2> QED  BY <2>2, FS_CardinalityType
<1>9. Pending(p) = Pending(q) + Cardinality(N)
  <2>1. Cardinality(Closers(q) \cup N)
          = Cardinality(Closers(q)) + Cardinality(N) - Cardinality(Closers(q) \cap N)
    BY <1>1, <1>8, FS_Union
  <2>2. Cardinality({}) = 0
    BY FS_EmptySet
  <2>3. Cardinality(Closers(q) \cup N) = Pending(q) + Cardinality(N) - 0
    BY <1>7, <2>1, <2>2 DEF Pending
  <2> QED  BY <1>1, <1>6, <1>8, <2>3 DEF Pending
<1>10. \A j \in Closers(q) : p[j] = q[j] /\ j \in Nat /\ j <= Len(q)
  BY <1>0, <1>1, <1>3 DEF Closers, Ordered, HoldOpens
<1>11. \A j \in N : j > Len(q)
  BY <1>0, <1>1
<1>12. ASSUME NEW i \in 1..Len(q), q[i].more, q[i].code \notin {Hold, NoCode}
       PROVE  ClosedNext(p, i)
  <2> SUFFICES ASSUME NEW j \in Closers(p), i < j, \A k \in Closers(p) : k <= i \/ k >= j
               PROVE  p[j] = Final(p[i].code)
    BY DEF ClosedNext
  <2>1. p[i] = q[i] /\ ClosedNext(q, i)
    BY <1>0, <1>12 DEF Ordered, NextCloses
  <2>2. HasCloser(q, i, q[i].code)
    BY <1>12 DEF WellFormed, Bracketed
  <2>3. PICK m \in 1..Len(q) : m > i /\ q[m] = Final(q[i].code)
    BY <2>2 DEF HasCloser
  <2>4. m \in Closers(q)
    BY <2>3, <1>12, FinalIsCloser
  <2>5. j <= m
    BY <2>3, <2>4, <1>6, <1>1
  <2>6. j \notin N
    <3>1. j <= Len(q) /\ j \in Int
      BY <2>5, <1>1, <1>3
    <3> QED  BY <3>1, <1>11, <1>1
  <2>7. j \in Closers(q)
    BY <2>6, <1>6
  <2>8. \A k \in Closers(q) : k <= i \/ k >= j
    BY <1>6
  <2>9. q[j] = Final(q[i].code)
    BY <2>1, <2>7, <2>8 DEF ClosedNext
  <2> QED  BY <2>1, <2>7, <2>9, <1>10
<1>13. ASSUME NEW c, c \notin {Hold, NoCode}, HasCloser(q, 0, c), FirstCloses(q, c)
       PROVE  FirstCloses(p, c)
  <2> SUFFICES ASSUME NEW j \in Closers(p), \A k \in Closers(p) : k >= j
               PROVE  p[j] = Final(c)
    BY DEF FirstCloses
  <2>1. PICK m \in 1..Len(q) : q[m] = Final(c)
    BY <1>13 DEF HasCloser
  <2>2. m \in Closers(q)
    BY <2>1, <1>13, FinalIsCloser
  <2>3. j <= Len(q) /\ j \in Int
    BY <2>2, <1>6, <1>1, <1>3
  <2>4. j \in Closers(q)
    BY <2>3, <1>6, <1>11, <1>1
  <2>5. \A k \in Closers(q) : k >= j
    BY <1>6
  <2>6. q[j] = Final(c)
    BY <1>13, <2>4, <2>5 DEF FirstCloses
  <2> QED  BY <2>4, <2>6, <1>10
<1> QED  BY <1>6, <1>9, <1>12, <1>13

(* n closing lines of code c, which also claim the placeholders. *)
LEMMA NumberedOwes ==
  ASSUME NEW q, WellFormed(q), Ordered(q), NEW c \in Codes, NEW n \in Nat \ {0}
  PROVE  Owes(q, Claim(q, c) \o Repeat(Final(c), n), n)
<1> DEFINE r == Claim(q, c)
           t == Repeat(Final(c), n)
           p == r \o t
           N == (Len(q) + 1)..(Len(q) + n)
<1>1. q \in Seq(Line) /\ Len(q) \in Nat
  BY DEF WellFormed
<1>2. Final(c) \in Line /\ Final(c).code = c /\ ~Final(c).more /\ c # Hold /\ c # NoCode
  BY CodesAreReal DEF Final, Line
<1>3. /\ r \in Seq(Line) /\ Len(r) = Len(q)
      /\ \A i \in 1..Len(q) :
           /\ q[i].code # Hold => r[i] = q[i]
           /\ q[i].code = Hold => r[i] = Opening(c)
           /\ r[i].code # Hold
  BY <1>1, ClaimProperties
<1>4. t \in Seq(Line) /\ Len(t) = n /\ \A i \in 1..n : t[i] = Final(c)
  BY <1>2, RepeatProperties
<1> HIDE DEF r, t
<1>5. /\ p \in Seq(Line) /\ Len(p) = Len(q) + n
      /\ \A i \in 1..Len(q) : p[i] = r[i]
      /\ \A i \in N : p[i] = Final(c)
  <2>1. /\ p \in Seq(Line) /\ Len(p) = Len(r) + Len(t)
        /\ \A i \in 1..(Len(r) + Len(t)) :
             p[i] = IF i <= Len(r) THEN r[i] ELSE t[i - Len(r)]
    BY <1>3, <1>4, ConcatProperties, ZenonT(30)
  <2>2. /\ Len(p) = Len(q) + n
        /\ \A i \in 1..Len(q) : i <= Len(r) /\ i \in 1..(Len(r) + Len(t))
    BY <2>1, <1>1, <1>3, <1>4
  <2>3. \A i \in N : i \in 1..(Len(r) + Len(t)) /\ ~(i <= Len(r)) /\ i - Len(r) \in 1..n
    BY <1>1, <1>3, <1>4
  <2> QED  BY <2>1, <2>2, <2>3, <1>4
<1> HIDE DEF p
<1>6. Cardinality(N) = n
  <2>1. Len(q) + 1 \in Int /\ Len(q) + n \in Int
        /\ ~(Len(q) + 1 > Len(q) + n) /\ (Len(q) + n) - (Len(q) + 1) + 1 = n
    BY <1>1
  <2>2. Cardinality(N) = IF Len(q) + 1 > Len(q) + n THEN 0 ELSE (Len(q) + n) - (Len(q) + 1) + 1
    BY <2>1, FS_Interval
  <2> QED  BY <2>1, <2>2
<1>7. N = (Len(q) + 1)..Len(p) /\ N \subseteq 1..Len(p) /\ Len(p) >= Len(q)
  BY <1>1, <1>5
<1>8. \A i \in N : i \in Closers(p)
  BY <1>2, <1>5, <1>7 DEF Closers
<1>9. /\ \A i \in 1..Len(q) : q[i].code # Hold => p[i] = q[i]
      /\ \A i \in 1..Len(q) : q[i].code = Hold => p[i] = Opening(c)
      /\ Opening(c).more /\ Opening(c).code = c
  BY <1>3, <1>5 DEF Opening
<1>10. /\ Closers(p) = Closers(q) \cup N
       /\ Pending(p) = Pending(q) + n
       /\ \A i \in 1..Len(q) :
            q[i].more /\ q[i].code \notin {Hold, NoCode} => ClosedNext(p, i)
       /\ \A d : d \notin {Hold, NoCode} /\ HasCloser(q, 0, d) /\ FirstCloses(q, d) => FirstCloses(p, d)
  <2> HIDE DEF N
  <2>1. N \in SUBSET ((Len(q) + 1)..Len(p))
    BY <1>7
  <2>2. \A i \in (Len(q) + 1)..Len(p) : i \in Closers(p) <=> i \in N
    BY <1>7, <1>8
  <2>3. \A i \in 1..Len(q) : q[i].code = Hold => p[i].more
    BY <1>9
  <2>4. GrownBy(q, p, N)
    BY <1>5, <1>7, <1>9, <2>1, <2>2, <2>3 DEF GrownBy
  <2> QED  BY <1>6, <2>4, GrownQueue
<1>11. \A i \in 1..Len(p) : i \in 1..Len(q) \/ i \in N
  BY <1>1, <1>5
<1>12. HoldOpens(p)
  BY <1>2, <1>3, <1>5, <1>11 DEF HoldOpens
<1>13. NextCloses(p)
  <2> SUFFICES ASSUME NEW i \in 1..Len(p), p[i].more, p[i].code \notin {Hold, NoCode}
               PROVE  ClosedNext(p, i)
    BY DEF NextCloses
  <2>1. i \in 1..Len(q)
    BY <1>2, <1>5, <1>11
  <2>2. CASE q[i].code # Hold
    BY <2>1, <2>2, <1>9, <1>10
  <2>3. CASE q[i].code = Hold
    <3>1. \A j \in 1..Len(q) : i < j => j \notin Closers(q)
      BY <2>1, <2>3 DEF WellFormed, HeldAtTail, Ordered, HoldOpens, Closers
    <3>2. \A j \in Closers(p) : i < j => j \in N
      <4>1. Closers(q) \subseteq 1..Len(q)
        BY DEF Closers
      <4> QED  BY <3>1, <4>1, <1>10
    <3> QED  BY <2>1, <2>3, <3>2, <1>5, <1>9 DEF ClosedNext
  <2> QED  BY <2>2, <2>3
<1>14. Owes(q, p, n)
  BY <1>10, <1>12, <1>13 DEF Owes, Ordered
<1> QED  BY <1>14 DEF p, r, t

LEMMA NumberedOwesOne ==
  ASSUME NEW q, WellFormed(q), Ordered(q), NEW c \in Codes
  PROVE  Owes(q, Numbered(q, c), 1)
<1>1. Claim(q, c) \in Seq(Line) /\ Final(c) \in Line
  BY ClaimProperties DEF WellFormed, Final, Line
<1>2. Repeat(Final(c), 1) = <<Final(c)>>
  BY DEF Repeat
<1>3. Numbered(q, c) = Claim(q, c) \o Repeat(Final(c), 1)
  BY <1>1, <1>2, AppendIsConcat DEF Numbered
<1> QED  BY <1>3, NumberedOwes

(* Held text opens a reply that is not due yet. *)
LEMMA HeldTextOwes ==
  ASSUME NEW q, WellFormed(q), Ordered(q), NEW isQuiet \in BOOLEAN, NEW n \in Nat
  PROVE  Owes(q, HeldText(q, isQuiet, n), 0)
<1>0. q \in Seq(Line) /\ Len(q) \in Nat /\ Pending(q) \in Nat
  BY ClosersFinite DEF WellFormed
<1>1. CASE isQuiet
  BY <1>0, <1>1 DEF HeldText, Owes
<1>2. CASE ~isQuiet
  <2> DEFINE t == Repeat(Opening(Hold), n)
             p == q \o t
  <2>2. Opening(Hold) \in Line /\ Opening(Hold).code = Hold /\ Opening(Hold).more
    BY DEF Opening, Line
  <2>3. t \in Seq(Line) /\ Len(t) = n /\ \A i \in 1..n : t[i] = Opening(Hold)
    BY <2>2, RepeatProperties
  <2> HIDE DEF t
  <2>4. /\ p \in Seq(Line) /\ Len(p) = Len(q) + n
        /\ \A i \in 1..Len(q) : p[i] = q[i]
        /\ \A i \in (Len(q) + 1)..Len(p) : p[i] = Opening(Hold)
    <3>1. /\ p \in Seq(Line) /\ Len(p) = Len(q) + Len(t)
          /\ \A i \in 1..(Len(q) + Len(t)) :
               p[i] = IF i <= Len(q) THEN q[i] ELSE t[i - Len(q)]
      BY <1>0, <2>3, ConcatProperties, ZenonT(30)
    <3>2. \A i \in (Len(q) + 1)..(Len(q) + n) :
            i \in 1..(Len(q) + Len(t)) /\ ~(i <= Len(q)) /\ i - Len(q) \in 1..n
      BY <1>0, <2>3
    <3>3. \A i \in 1..Len(q) : i <= Len(q) /\ i \in 1..(Len(q) + Len(t))
      BY <1>0, <2>3
    <3> QED  BY <3>1, <3>2, <3>3, <2>3
  <2> HIDE DEF p
  <2>5. \A i \in (Len(q) + 1)..Len(p) : i \notin Closers(p)
    BY <2>2, <2>4 DEF Closers
  <2>6. \A i \in 1..Len(q) : q[i].code = Hold => p[i].more
    BY <2>4 DEF Ordered, HoldOpens
  <2>7. {} \in SUBSET ((Len(q) + 1)..Len(p)) /\ Len(p) >= Len(q)
    BY <1>0, <2>4
  <2>13. GrownBy(q, p, {})
    BY <2>4, <2>5, <2>6, <2>7 DEF GrownBy
  <2>8. /\ Pending(p) = Pending(q) + Cardinality({})
        /\ \A i \in 1..Len(q) :
             q[i].more /\ q[i].code \notin {Hold, NoCode} => ClosedNext(p, i)
        /\ \A d : d \notin {Hold, NoCode} /\ HasCloser(q, 0, d) /\ FirstCloses(q, d) => FirstCloses(p, d)
    BY <2>13, GrownQueue
  <2>9. Pending(p) = Pending(q) + 0
    BY <2>8, FS_EmptySet
  <2>10. \A i \in 1..Len(p) : i \in 1..Len(q) \/ i \in (Len(q) + 1)..Len(p)
    BY <1>0, <2>4
  <2>11. Ordered(p)
    BY <2>2, <2>4, <2>6, <2>8, <2>10 DEF Ordered, HoldOpens, NextCloses
  <2>12. HeldText(q, isQuiet, n) = p
    BY <1>2 DEF HeldText, p, t
  <2> QED  BY <2>8, <2>9, <2>11, <2>12 DEF Owes
<1> QED  BY <1>1, <1>2

(* One reply behind another. *)
LEMMA OwesAdds ==
  ASSUME NEW q, NEW h, NEW p, NEW m \in Nat, NEW n \in Nat,
         WellFormed(q), Keeps(q, h), Owes(q, h, m), Owes(h, p, n)
  PROVE  Owes(q, p, m + n)
<1>1. Pending(q) \in Nat
  BY ClosersFinite DEF WellFormed
<1>2. Pending(p) = Pending(q) + (m + n)
  BY <1>1 DEF Owes
<1>3. ASSUME NEW c, c \notin {Hold, NoCode}, HasCloser(q, 0, c), FirstCloses(q, c)
      PROVE  FirstCloses(p, c)
  <2>1. HasCloser(h, 0, c) \/ c = Hold
    BY <1>3 DEF Keeps
  <2> QED  BY <1>3, <2>1 DEF Owes
<1> QED  BY <1>2, <1>3 DEF Owes

LEMMA TextOwes ==
  ASSUME NEW q, WellFormed(q), Ordered(q), NEW isQuiet \in BOOLEAN, NEW n \in Nat, NEW c \in Codes
  PROVE  Owes(q, Numbered(HeldText(q, isQuiet, n), c), 1)
<1> DEFINE h == HeldText(q, isQuiet, n)
<1>1. WellFormed(h) /\ Keeps(q, h) /\ Owes(q, h, 0)
  BY HeldTextProperties, HeldTextOwes
<1> HIDE DEF h
<1>2. Owes(h, Numbered(h, c), 1)
  BY <1>1, NumberedOwesOne DEF Owes
<1>3. Owes(q, Numbered(h, c), 0 + 1)
  BY <1>1, <1>2, OwesAdds
<1> QED  BY <1>3 DEF h

LEMMA TwiceOwes ==
  ASSUME NEW q, WellFormed(q), Ordered(q), NEW c \in Codes, NEW d \in Codes
  PROVE  Owes(q, Numbered(Numbered(q, c), d), 2)
<1> DEFINE h == Numbered(q, c)
<1>1. WellFormed(h) /\ Keeps(q, h) /\ Owes(q, h, 1)
  BY NumberedProperties, NumberedOwesOne
<1> HIDE DEF h
<1>2. Owes(h, Numbered(h, d), 1)
  BY <1>1, NumberedOwesOne DEF Owes
<1>3. Owes(q, Numbered(h, d), 1 + 1)
  BY <1>1, <1>2, OwesAdds
<1> QED  BY <1>3 DEF h

(* FEAT's raw lines are one reply: the line without a code ends none. *)
LEMMA RawOwes ==
  ASSUME NEW q, WellFormed(q), Ordered(q), \A i \in DOMAIN q : q[i].code # Hold
  PROVE  Owes(q, Raw(q, <<Opening(211), Final(NoCode), Final(211)>>), 1)
<1> DEFINE t == <<Opening(211), Final(NoCode), Final(211)>>
           p == q \o t
<1>1. q \in Seq(Line) /\ Len(q) \in Nat
  BY DEF WellFormed
<1>2. /\ Opening(211) \in Line /\ Opening(211).code = 211 /\ Opening(211).more
      /\ Final(NoCode) \in Line /\ ~Final(NoCode).more /\ Final(NoCode).code = NoCode
      /\ Final(211) \in Line /\ ~Final(211).more /\ Final(211).code = 211
  BY DEF Opening, Final, Line, Codes, ServerCodes
<1>3. t \in Seq(Line) /\ Len(t) = 3
  BY <1>2
<1>4. /\ p \in Seq(Line) /\ Len(p) = Len(q) + 3
      /\ \A i \in 1..Len(q) : p[i] = q[i]
      /\ p[Len(q) + 1] = Opening(211)
      /\ p[Len(q) + 2] = Final(NoCode)
      /\ p[Len(q) + 3] = Final(211)
  BY <1>1, <1>3
<1> HIDE DEF p
<1>5. \A i \in 1..Len(p) :
        i \in 1..Len(q) \/ i = Len(q) + 1 \/ i = Len(q) + 2 \/ i = Len(q) + 3
  BY <1>1, <1>4
<1> DEFINE last == Len(q) + 3
<1>6. /\ last \in 1..Len(p) /\ Len(q) + 1 \in 1..Len(p) /\ Len(q) + 2 \in 1..Len(p)
      /\ last \in (Len(q) + 1)..Len(p) /\ Len(p) >= Len(q)
  BY <1>1, <1>4
<1>7. /\ last \in Closers(p)
      /\ Len(q) + 1 \notin Closers(p) /\ Len(q) + 2 \notin Closers(p)
  BY <1>2, <1>4, <1>6 DEF Closers, NoCode
<1>8. \A i \in (Len(q) + 1)..Len(p) : i \in Closers(p) <=> i \in {last}
  <2>1. \A i \in (Len(q) + 1)..Len(p) : i = Len(q) + 1 \/ i = Len(q) + 2 \/ i = last
    BY <1>1, <1>4
  <2>2. Len(q) + 1 # last /\ Len(q) + 2 # last
    BY <1>1
  <2> QED  BY <1>7, <2>1, <2>2
<1>9. GrownBy(q, p, {last})
  <2>1. \A i \in 1..Len(q) : q[i].code # Hold
    BY <1>1
  <2> QED  BY <1>4, <1>6, <1>8, <2>1 DEF GrownBy
<1>10. /\ Closers(p) = Closers(q) \cup {last}
       /\ Pending(p) = Pending(q) + Cardinality({last})
       /\ \A i \in 1..Len(q) :
            q[i].more /\ q[i].code \notin {Hold, NoCode} => ClosedNext(p, i)
       /\ \A d : d \notin {Hold, NoCode} /\ HasCloser(q, 0, d) /\ FirstCloses(q, d)
                   => FirstCloses(p, d)
  <2> HIDE DEF last
  <2> QED  BY <1>9, GrownQueue
<1>11. Pending(p) = Pending(q) + 1
  BY <1>10, FS_Singleton
<1>12. HoldOpens(p)
  BY <1>2, <1>4, <1>5 DEF HoldOpens, Ordered, Hold, NoCode
<1>13. NextCloses(p)
  <2> SUFFICES ASSUME NEW i \in 1..Len(p), p[i].more, p[i].code \notin {Hold, NoCode}
               PROVE  ClosedNext(p, i)
    BY DEF NextCloses
  <2>1. CASE i \in 1..Len(q)
    BY <2>1, <1>4, <1>10
  <2>2. CASE i = Len(q) + 1
    <3>1. \A j \in Closers(q) : ~(i < j)
      BY <2>2, <1>1 DEF Closers
    <3>2. \A j \in Closers(p) : i < j => j = last
      BY <3>1, <1>10
    <3>3. p[last] = Final(p[i].code)
      BY <2>2, <1>2, <1>4
    <3> QED  BY <3>2, <3>3 DEF ClosedNext
  <2>3. i # Len(q) + 2 /\ i # last
    BY <1>2, <1>4
  <2> QED  BY <2>1, <2>2, <2>3, <1>5
<1>14. Owes(q, p, 1)
  BY <1>10, <1>11, <1>12, <1>13 DEF Owes, Ordered
<1> QED  BY <1>14 DEF p, t, Raw

(* Taking the first line off the queue: one reply less if the line ends it. *)
LEMMA TailOwes ==
  ASSUME NEW q, WellFormed(q), Ordered(q), q # <<>>
  PROVE  LET p == Tail(q)
         IN  /\ Ordered(p)
             /\ 1 \in Closers(q) => Pending(p) = Pending(q) - 1
             /\ 1 \notin Closers(q) => Pending(p) = Pending(q)
             /\ 1 \notin Closers(q) => \A c : FirstCloses(q, c) => FirstCloses(p, c)
             /\ q[1].more /\ q[1].code \notin {Hold, NoCode} => FirstCloses(p, q[1].code)
<1> DEFINE p == Tail(q)
           S == Closers(q) \ {1}
<1>1. /\ q \in Seq(Line) /\ Len(q) \in Nat /\ Len(q) >= 1 /\ 1 \in 1..Len(q)
      /\ IsFiniteSet(Closers(q)) /\ Pending(q) \in Nat /\ Closers(q) \subseteq 1..Len(q)
  <2>1. q \in Seq(Line)
    BY DEF WellFormed
  <2> QED  BY <2>1, ClosersFinite
<1>2. /\ p \in Seq(Line) /\ Len(p) = Len(q) - 1
      /\ \A i \in 1..Len(p) : p[i] = q[i + 1] /\ i + 1 \in 1..Len(q)
  BY <1>1
<1> HIDE DEF p
<1>3. \A i \in 1..Len(p) : i \in Closers(p) <=> i + 1 \in S
  BY <1>1, <1>2 DEF Closers
<1>4. Closers(p) \subseteq 1..Len(p) /\ S \subseteq 1..Len(q)
  BY <1>1 DEF Closers
<1>5. \A j \in S : j - 1 \in Closers(p) /\ (j - 1) + 1 = j
  <2> SUFFICES ASSUME NEW j \in S PROVE j - 1 \in Closers(p) /\ (j - 1) + 1 = j
    OBVIOUS
  <2>1. j - 1 \in 1..Len(p) /\ (j - 1) + 1 = j
    BY <1>1, <1>2, <1>4
  <2> QED  BY <2>1, <1>3
<1>6. \A i \in Closers(p) : i + 1 \in S
  BY <1>3, <1>4
<1>7. IsFiniteSet(S) /\ Cardinality(S) = IF 1 \in Closers(q) THEN Pending(q) - 1 ELSE Pending(q)
  BY <1>1, FS_RemoveElement DEF Pending
<1>8. Pending(p) = Cardinality(S)
  <2> DEFINE f == [i \in Closers(p) |-> i + 1]
  <2>1. f \in [Closers(p) -> S]
    BY <1>6
  <2>2. \A i, j \in Closers(p) : f[i] = f[j] => i = j
    BY <1>4
  <2>3. \A j \in S : \E i \in Closers(p) : f[i] = j
    BY <1>5
  <2> HIDE DEF f
  <2>4. f \in Bijection(Closers(p), S)
    BY <2>1, <2>2, <2>3 DEF Bijection, Injection, Surjection, IsInjective
  <2>5. IsFiniteSet(Closers(p))
    BY <1>2, ClosersFinite
  <2>6. ExistsBijection(Closers(p), S)
    BY <2>4 DEF ExistsBijection
  <2> QED  BY <2>5, <2>6, FS_Bijection DEF Pending
<1>9. HoldOpens(p)
  BY <1>2 DEF Ordered, HoldOpens
<1>10. ASSUME NEW i \in 1..Len(q), ClosedNext(q, i), NEW j \in Closers(p), i < j + 1,
              \A k \in Closers(p) : k + 1 <= i \/ k >= j
       PROVE  p[j] = Final(q[i].code)
  <2>1. j + 1 \in Closers(q) /\ j \in 1..Len(p)
    BY <1>4, <1>6
  <2>2. ASSUME NEW k \in Closers(q) PROVE k <= i \/ k >= j + 1
    <3>1. CASE k = 1
      BY <3>1, <1>1
    <3>2. CASE k # 1
      <4>1. k - 1 \in Closers(p) /\ (k - 1) + 1 = k /\ k \in Int
        BY <3>2, <1>5, <1>1
      <4>2. (k - 1) + 1 <= i \/ k - 1 >= j
        BY <4>1, <1>10
      <4> QED  BY <4>1, <4>2, <2>1, <1>2
    <3> QED  BY <3>1, <3>2
  <2>3. q[j + 1] = Final(q[i].code)
    BY <2>1, <2>2, <1>10 DEF ClosedNext
  <2> QED  BY <2>1, <2>3, <1>2
<1>11. NextCloses(p)
  <2> SUFFICES ASSUME NEW i \in 1..Len(p), p[i].more, p[i].code \notin {Hold, NoCode},
                      NEW j \in Closers(p), i < j, \A k \in Closers(p) : k <= i \/ k >= j
               PROVE  p[j] = Final(p[i].code)
    BY DEF NextCloses, ClosedNext
  <2>1. p[i] = q[i + 1] /\ i + 1 \in 1..Len(q) /\ j \in 1..Len(p)
    BY <1>2, <1>4
  <2>2. ClosedNext(q, i + 1)
    BY <2>1 DEF Ordered, NextCloses
  <2>3. i + 1 < j + 1
    BY <2>1, <1>2
  <2>4. \A k \in Closers(p) : k + 1 <= i + 1 \/ k >= j
    BY <1>2, <1>4
  <2> QED  BY <2>1, <2>2, <2>3, <2>4, <1>10
<1>12. ASSUME 1 \notin Closers(q), NEW c, FirstCloses(q, c)
       PROVE  FirstCloses(p, c)
  <2> SUFFICES ASSUME NEW j \in Closers(p), \A k \in Closers(p) : k >= j
               PROVE  p[j] = Final(c)
    BY DEF FirstCloses
  <2>1. j + 1 \in Closers(q) /\ j \in 1..Len(p)
    BY <1>4, <1>6
  <2>2. ASSUME NEW k \in Closers(q) PROVE k >= j + 1
    <3>1. k - 1 \in Closers(p) /\ k \in Int
      BY <1>5, <1>1, <1>12
    <3> QED  BY <3>1, <2>1, <1>2
  <2>3. q[j + 1] = Final(c)
    BY <2>1, <2>2, <1>12 DEF FirstCloses
  <2> QED  BY <2>1, <2>3, <1>2
<1>13. ASSUME q[1].more, q[1].code \notin {Hold, NoCode}
       PROVE  FirstCloses(p, q[1].code)
  <2> SUFFICES ASSUME NEW j \in Closers(p), \A k \in Closers(p) : k >= j
               PROVE  p[j] = Final(q[1].code)
    BY DEF FirstCloses
  <2>1. ClosedNext(q, 1)
    BY <1>1, <1>13 DEF Ordered, NextCloses
  <2>2. 1 < j + 1
    BY <1>2, <1>4
  <2> QED  BY <2>1, <2>2, <1>1, <1>10
<1>14. Ordered(p)
  BY <1>9, <1>11 DEF Ordered
<1> QED  BY <1>7, <1>8, <1>12, <1>13, <1>14 DEF p

LEMMA HandlerCounts ==
  ASSUME IInv, CountInv, NEW p, NEW n \in Nat, Owes(queue, p, n), Says(p, n)
  PROVE  CountInv'
<1>1. queue' = p /\ reading' = reading /\ torn' = torn /\ (~torn => due' = due + n)
  BY DEF Says, wire
<1>2. ~torn => due' = Pending(p)
  BY <1>1 DEF CountInv, Owes
<1>3. ~torn /\ reading # Idle => FirstCloses(p, reading)
  <2>1. reading # Idle => reading \notin {Hold, NoCode}
    BY CodesAreReal DEF IInv, TypeOK
  <2> QED  BY <2>1 DEF IInv, CountInv, Owes
<1> QED  BY <1>1, <1>2, <1>3 DEF CountInv, Owes

LEMMA EmptyOrdered ==
  Ordered(<<>>) /\ Pending(<<>>) = 0 /\ WellFormed(<<>>)
<1>1. Len(<<>>) = 0
  OBVIOUS
<1>2. Closers(<<>>) = {}
  BY <1>1 DEF Closers
<1>3. Ordered(<<>>)
  BY <1>1 DEF Ordered, HoldOpens, NextCloses
<1>4. WellFormed(<<>>)
  BY <1>1 DEF WellFormed, HeldAtTail, Bracketed
<1> QED  BY <1>2, <1>3, <1>4, FS_EmptySet DEF Pending

(* The greeting, on a queue that is empty. *)
LEMMA GreetingOwes ==
  ASSUME NEW n \in Nat, NEW c \in Codes
  PROVE  LET p == Numbered(HeldText(<<>>, FALSE, n), c)
         IN  Pending(p) = 1 /\ Ordered(p)
<1> DEFINE h == HeldText(<<>>, FALSE, n)
<1>1. FALSE \in BOOLEAN /\ Ordered(<<>>) /\ Pending(<<>>) = 0 /\ WellFormed(<<>>)
  BY EmptyOrdered
<1>2. WellFormed(h)
  BY <1>1, HeldTextProperties
<1>3. Owes(<<>>, h, 0)
  BY <1>1, HeldTextOwes
<1>4. Ordered(h) /\ Pending(h) = Pending(<<>>) + 0
  BY <1>3 DEF Owes
<1> HIDE DEF h
<1>5. Pending(h) = 0
  BY <1>1, <1>4
<1>6. Owes(h, Numbered(h, c), 1)
  BY <1>2, <1>4, NumberedOwesOne
<1>7. Ordered(Numbered(h, c)) /\ Pending(Numbered(h, c)) = Pending(h) + 1
  BY <1>6 DEF Owes
<1>8. Pending(Numbered(h, c)) = 1
  BY <1>5, <1>7
<1> QED  BY <1>7, <1>8 DEF h

LEMMA NextCountInv ==
  ASSUME FeatOverHeld = FALSE, OnePerCommand = FALSE, IInv, CountInv, [Next]_vars
  PROVE  CountInv'
<1> USE RepliesAssumption
<1>1. WellFormed(queue) /\ TypeOK /\ Ordered(queue)
  BY DEF IInv, CountInv
<1>0. reading \notin {Hold, NoCode}
  BY <1>1, CodesAreReal DEF TypeOK, Idle, Hold, NoCode
<1>2. /\ {211, 220, 221, 226, 230, 250, 421, 501, 550} \subseteq Codes
      /\ CommandCodes \subseteq Codes
  BY DEF Codes, ServerCodes
<1>3. quiet \in BOOLEAN /\ \A n \in 0..MaxBanner : n \in Nat
  BY <1>1 DEF TypeOK
<1>4. CASE NewFtp
  <2>1. PICK n \in Nat : queue' = Numbered(HeldText(<<>>, FALSE, n), 220)
    BY <1>3, <1>4 DEF NewFtp
  <2>2. FALSE \in BOOLEAN /\ 220 \in Codes
    BY <1>2
  <2>4. Pending(queue') = 1 /\ Ordered(queue')
    BY <2>1, <2>2, GreetingOwes
  <2>5. reading' = Idle /\ due' = 1
    BY <1>4 DEF NewFtp
  <2> QED  BY <2>4, <2>5 DEF CountInv
<1>5. CASE PlainCommand
  <2>1. PICK c \in Codes : Says(Numbered(queue, c), 1)
    BY <1>2, <1>5 DEF PlainCommand
  <2> QED  BY <2>1, <1>1, NumberedOwesOne, HandlerCounts
<1>6. CASE TextCommand
  <2>1. PICK n \in Nat : Says(Numbered(HeldText(queue, quiet, n), 250), 1)
    BY <1>3, <1>6 DEF TextCommand
  <2> QED  BY <2>1, <1>1, <1>2, <1>3, TextOwes, HandlerCounts
<1>7. CASE PassCommand
  <2>1. PICK dash \in BOOLEAN, n \in Nat : Says(Numbered(HeldText(queue, dash, n), 230), 1)
    BY <1>3, <1>7 DEF PassCommand
  <2> QED  BY <2>1, <1>1, <1>2, TextOwes, HandlerCounts
<1>8. CASE QuitCommand
  <2>1. PICK n \in Nat : Says(Numbered(HeldText(queue, quiet, n), 221), 1)
    BY <1>3, <1>8 DEF QuitCommand
  <2> QED  BY <2>1, <1>1, <1>2, <1>3, TextOwes, HandlerCounts
<1>9. CASE AborCommand
  <2>1. PICK c \in Codes : Says(Numbered(Numbered(queue, 226), c), 2)
    BY <1>2, <1>9 DEF AborCommand
  <2> QED  BY <2>1, <1>1, <1>2, TwiceOwes, HandlerCounts
<1>10. CASE ReinCommand
  BY <1>1, <1>2, <1>10, NumberedOwesOne, HandlerCounts DEF ReinCommand
<1>11. CASE FeatCommand
  <2>1. \A i \in DOMAIN queue : queue[i].code # Hold
    BY <1>11 DEF FeatCommand
  <2>2. Says(Raw(queue, <<Opening(211), Final(NoCode), Final(211)>>), 1)
    BY <1>11 DEF FeatCommand
  <2>3. Owes(queue, Raw(queue, <<Opening(211), Final(NoCode), Final(211)>>), 1)
    BY <1>1, <2>1, RawOwes
  <2> QED  BY <2>2, <2>3, HandlerCounts
<1>12. CASE StatCommand
  <2>1. StatLines \in Nat \ {0} /\ StatLines \in Nat
    BY DEF StatLines
  <2>2. Says(Claim(queue, 211) \o Repeat(Final(211), StatLines), StatLines)
    BY <1>12 DEF StatCommand
  <2>3. Owes(queue, Claim(queue, 211) \o Repeat(Final(211), StatLines), StatLines)
    BY <2>1, <1>1, <1>2, NumberedOwes
  <2> QED  BY <2>1, <2>2, <2>3, HandlerCounts
<1>13. CASE TwiceAnswered
  <2>1. PICK c \in Codes, d \in Codes : Says(Numbered(Numbered(queue, c), d), 2)
    BY <1>2, <1>13 DEF TwiceAnswered
  <2> QED  BY <2>1, <1>1, TwiceOwes, HandlerCounts
<1>14. CASE TransferEnds
  BY <1>1, <1>2, <1>14, NumberedOwesOne, HandlerCounts DEF TransferEnds
<1>15. CASE ConsoleMessage
  <2>1. Says(HeldText(queue, quiet, 2), 0)
    BY <1>15 DEF ConsoleMessage
  <2> QED  BY <2>1, <1>1, <1>3, HeldTextOwes, HandlerCounts
<1>16. CASE Kick
  BY <1>1, <1>2, <1>16, NumberedOwesOne, HandlerCounts DEF Kick
<1>17. CASE WriteToControl
  BY <1>17 DEF WriteToControl, CountInv, wire
<1>18. CASE SendLine
  <2> DEFINE line == queue[1]
  <2>1. queue' = Tail(queue) /\ torn' = torn /\ queue # <<>> /\ line \in Line /\ line.code # Hold
    <3>1. Sendable(queue) /\ queue' = Tail(queue) /\ torn' = torn
      BY <1>18 DEF SendLine
    <3>2. queue # <<>> /\ queue \in Seq(Line)
      BY <3>1, <1>1 DEF Sendable, TypeOK
    <3> QED  BY <3>1, <3>2, <1>1, TailProperties
  <2>2. /\ Ordered(queue')
        /\ 1 \in Closers(queue) => Pending(queue') = Pending(queue) - 1
        /\ 1 \notin Closers(queue) => Pending(queue') = Pending(queue)
        /\ 1 \notin Closers(queue) => \A c : FirstCloses(queue, c) => FirstCloses(queue', c)
        /\ line.more /\ line.code \notin {Hold, NoCode} => FirstCloses(queue', line.code)
    BY <1>1, <2>1, TailOwes
  <2>3. 1 \in Closers(queue) <=> ~line.more /\ line.code # NoCode
    BY <1>1, <2>1 DEF Closers, TypeOK
  <2>4. CASE torn
    BY <2>1, <2>2, <2>4 DEF CountInv
  <2>5. CASE ~torn
    <3>1. Receive(line) /\ due = Pending(queue) /\ (reading # Idle => FirstCloses(queue, reading))
      <4>1. PICK got \in Joined(line) : Receive(got)
        BY <1>1, <2>1, <1>18 DEF SendLine, TypeOK
      <4>2. got = line
        BY <4>1, <2>1, <2>5, <1>1, JoinedLines
      <4> QED  BY <4>1, <4>2, <2>5 DEF CountInv
    <3>2. CASE reading = Idle
      <4>1. CASE line.code = NoCode
        BY <2>1, <2>2, <2>3, <2>5, <3>1, <3>2, <4>1 DEF Receive, CountInv
      <4>2. CASE line.code # NoCode /\ line.more
        BY <2>1, <2>2, <2>3, <2>5, <3>1, <3>2, <4>2 DEF Receive, CountInv
      <4>3. CASE line.code # NoCode /\ ~line.more
        BY <2>1, <2>2, <2>3, <2>5, <3>1, <3>2, <4>3 DEF Receive, CountInv
      <4> QED  BY <4>1, <4>2, <4>3
    <3>3. CASE reading # Idle
      <4>1. CASE 1 \in Closers(queue)
        <5>1. \A k \in Closers(queue) : k >= 1
          BY <1>1 DEF Closers, WellFormed
        <5>2. line = Final(reading)
          BY <4>1, <5>1, <3>1, <3>3 DEF FirstCloses
        <5> QED  BY <4>1, <5>2, <2>1, <2>2, <2>5, <3>1, <3>3 DEF Receive, CountInv
      <4>2. CASE 1 \notin Closers(queue)
        <5>1. line # Final(reading)
          BY <4>2, <2>3, <1>0 DEF Final
        <5>2. reading' = reading /\ due' = due
          BY <5>1, <3>1, <3>3 DEF Receive
        <5> QED  BY <4>2, <5>2, <2>1, <2>2, <2>5, <3>1, <1>0 DEF CountInv
      <4> QED  BY <4>1, <4>2
    <3> QED  BY <3>2, <3>3
  <2> QED  BY <2>4, <2>5
<1>23. CASE SendPart
  <2>1. queue' = Tail(queue) /\ torn' = TRUE /\ queue # <<>>
    BY <1>23 DEF SendPart, Sendable
  <2> QED  BY <2>1, <1>1, TailOwes DEF CountInv
<1>19. CASE FreeFtp
  BY <1>19, EmptyOrdered DEF FreeFtp, CountInv
<1>20. CASE WriteDone
  <2>1. FreeFtp \/ UNCHANGED <<queue, reading, due, torn>>
    BY <1>20 DEF WriteDone, wire
  <2> QED  BY <2>1, <1>19 DEF CountInv
<1>21. CASE ConnectionLost
  BY <1>19, <1>21 DEF ConnectionLost
<1>22. CASE UNCHANGED vars
  BY <1>22 DEF vars, wire, CountInv
<1> QED  BY <1>4, <1>5, <1>6, <1>7, <1>8, <1>9, <1>10, <1>11, <1>12, <1>13, <1>14, <1>15,
            <1>16, <1>17, <1>18, <1>20, <1>21, <1>22, <1>23 DEF Next, Command

LEMMA CountInvariance ==
  ASSUME FeatOverHeld = FALSE, OnePerCommand = FALSE
  PROVE  Spec => []CountInv
<1>1. Init => CountInv
  BY EmptyOrdered DEF Init, CountInv
<1>2. IInv /\ CountInv /\ [Next]_vars => CountInv'
  BY NextCountInv
<1> QED  BY <1>1, <1>2, Invariance, PTL DEF Spec

(* As long as send() took every line whole: whenever nothing sendable is
   queued, the peer has got as many replies as the handlers queued for it.  A
   line of one reply is never taken for the end of another, and no end of a
   reply is lost inside another. *)
THEOREM RepliesAreCounted ==
  ASSUME FeatOverHeld = FALSE, OnePerCommand = FALSE
  PROVE  Spec => []RepliesMatchCommands
<1>1. IInv /\ CountInv => RepliesMatchCommands
  <2> SUFFICES ASSUME IInv, CountInv, ~torn, ~Sendable(queue) PROVE due = 0
    BY DEF RepliesMatchCommands
  <2>1. queue \in Seq(Line) /\ HeldAtTail(queue) /\ HoldOpens(queue) /\ due = Pending(queue)
    BY DEF IInv, WellFormed, CountInv, Ordered
  <2>2. \A i \in 1..Len(queue) : queue[i].code = Hold
    <3> SUFFICES ASSUME NEW i \in 1..Len(queue) PROVE queue[i].code = Hold
      OBVIOUS
    <3>1. 1 \in 1..Len(queue) /\ queue # <<>> /\ (i = 1 \/ 1 < i)
      BY <2>1
    <3>2. queue[1].code = Hold
      BY <3>1 DEF Sendable
    <3> QED  BY <2>1, <3>1, <3>2 DEF HeldAtTail
  <2>3. Closers(queue) = {}
    BY <2>1, <2>2 DEF Closers, HoldOpens
  <2> QED  BY <2>1, <2>3, FS_EmptySet DEF Pending
<1> QED  BY <1>1, Invariance, CountInvariance, PTL
========================================================================
