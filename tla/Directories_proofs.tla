------------------------ MODULE Directories_proofs ------------------------
(***************************************************************************)
(* Directories, rights and files under a changing list of accounts and     *)
(* aliases, for every number of sessions, every list, every argument and   *)
(* every tree.                                                             *)
(*                                                                         *)
(* Lookup is defined by recursion over the list; NatRecursion unfolds it.  *)
(* Two invariants carry the rest: SessionInv says where the pointers of a  *)
(* session may lead and when its three records of the directory agree;     *)
(* TreeInv that everything is in a directory, without which a rename could *)
(* take away something whose directory stays.                              *)
(***************************************************************************)
EXTENDS Directories, NatRecursion, SequenceTheorems

(* What paths and places are made of. *)
Words == Names \cup Volumes \cup {"current_dir", "nowhere", ".."}

-----------------------------------------------------------------------------
(* Beginnings and ends of sequences *)

(* Only some least number of the set can be its first. *)
LEMMA FirstIsLeast ==
  ASSUME NEW S \in SUBSET Nat, S # {}
  PROVE  First(S) \in S
BY LeastNumber DEF First

(* StartsWith, Rest and \o, element by element. *)
LEMMA BeginningMeans ==
  ASSUME NEW W, NEW p \in Seq(W), NEW q \in Seq(W)
  PROVE  /\ Len(p) \in Nat /\ Len(q) \in Nat
         /\ StartsWith(p, q) <=> Len(p) <= Len(q) /\ \A i \in 1..Len(p) : q[i] = p[i]
<1>1. Len(p) \in Nat /\ Len(q) \in Nat
  OBVIOUS
<1>2. CASE Len(p) <= Len(q)
  <2>1. /\ SubSeq(q, 1, Len(p)) \in Seq(W) /\ Len(SubSeq(q, 1, Len(p))) = Len(p)
        /\ \A i \in 1..Len(p) : SubSeq(q, 1, Len(p))[i] = q[i]
    BY <1>1, <1>2
  <2> DEFINE h == SubSeq(q, 1, Len(p))
  <2> HIDE DEF h
  <2>2. h = p <=> \A i \in 1..Len(p) : q[i] = p[i]
    BY <2>1, <1>1, SeqEqual DEF h
  <2> QED  BY <2>2, <1>1, <1>2 DEF StartsWith, h
<1>3. CASE ~(Len(p) <= Len(q))
  BY <1>1, <1>3 DEF StartsWith
<1> QED  BY <1>1, <1>2, <1>3

LEMMA RestMeans ==
  ASSUME NEW W, NEW p \in Seq(W), NEW q \in Seq(W), Len(p) <= Len(q)
  PROVE  /\ Rest(p, q) \in Seq(W)
         /\ Len(Rest(p, q)) = Len(q) - Len(p)
         /\ \A i \in 1..(Len(q) - Len(p)) : Rest(p, q)[i] = q[Len(p) + i]
BY DEF Rest

LEMMA JoinMeans ==
  ASSUME NEW W, NEW p \in Seq(W), NEW q \in Seq(W)
  PROVE  /\ p \o q \in Seq(W) /\ Len(p \o q) = Len(p) + Len(q)
         /\ \A i \in 1..Len(p) : (p \o q)[i] = p[i]
         /\ \A i \in 1..Len(q) : (p \o q)[Len(p) + i] = q[i]
<1>1. Len(p) \in Nat /\ Len(q) \in Nat
  OBVIOUS
<1>2. /\ p \o q \in Seq(W) /\ Len(p \o q) = Len(p) + Len(q)
      /\ \A i \in 1..(Len(p) + Len(q)) :
           (p \o q)[i] = IF i <= Len(p) THEN p[i] ELSE q[i - Len(p)]
  BY ConcatProperties, ZenonT(30)
<1>3. \A i \in 1..Len(p) : i \in 1..(Len(p) + Len(q)) /\ i <= Len(p)
  BY <1>1
<1>4. \A i \in 1..Len(q) : Len(p) + i \in 1..(Len(p) + Len(q)) /\ ~(Len(p) + i <= Len(p))
                             /\ (Len(p) + i) - Len(p) = i
  BY <1>1
<1> QED  BY <1>2, <1>3, <1>4

(* What begins with p is p and the rest. *)
LEMMA BeginningAndRest ==
  ASSUME NEW W, NEW p \in Seq(W), NEW q \in Seq(W), StartsWith(p, q)
  PROVE  p \o Rest(p, q) = q
<1> DEFINE r == Rest(p, q)
           j == p \o r
<1>1. Len(p) \in Nat /\ Len(q) \in Nat /\ Len(p) <= Len(q) /\ \A i \in 1..Len(p) : q[i] = p[i]
  BY BeginningMeans
<1>2. r \in Seq(W) /\ Len(r) = Len(q) - Len(p)
      /\ \A i \in 1..(Len(q) - Len(p)) : r[i] = q[Len(p) + i]
  BY <1>1, RestMeans
<1> HIDE DEF r
<1>3. /\ j \in Seq(W) /\ Len(j) = Len(p) + Len(r)
      /\ \A i \in 1..Len(p) : j[i] = p[i]
      /\ \A i \in 1..Len(r) : j[Len(p) + i] = r[i]
  BY <1>2, JoinMeans
<1> HIDE DEF j
<1>4. ASSUME NEW i \in 1..Len(q) PROVE j[i] = q[i]
  <2>1. CASE i <= Len(p)
    BY <2>1, <1>1, <1>3
  <2>2. CASE ~(i <= Len(p))
    <3>1. i - Len(p) \in 1..Len(r) /\ Len(p) + (i - Len(p)) = i
      BY <2>2, <1>1, <1>2
    <3> QED  BY <3>1, <1>2, <1>3
  <2> QED  BY <2>1, <2>2
<1>5. j = q
  BY <1>1, <1>2, <1>3, <1>4, SeqEqual
<1> QED  BY <1>5 DEF j, r

(* A sequence begins with its own first elements. *)
LEMMA BeginningOf ==
  ASSUME NEW W, NEW q \in Seq(W), NEW n \in 0..Len(q)
  PROVE  /\ SubSeq(q, 1, n) \in Seq(W) /\ Len(SubSeq(q, 1, n)) = n
         /\ \A i \in 1..n : SubSeq(q, 1, n)[i] = q[i]
         /\ StartsWith(SubSeq(q, 1, n), q)
<1>1. Len(q) \in Nat
  OBVIOUS
<1>2. /\ SubSeq(q, 1, n) \in Seq(W) /\ Len(SubSeq(q, 1, n)) = n
      /\ \A i \in 1..n : SubSeq(q, 1, n)[i] = q[i]
  BY <1>1
<1> QED  BY <1>1, <1>2 DEF StartsWith

LEMMA BeginningTransitive ==
  ASSUME NEW W, NEW p \in Seq(W), NEW q \in Seq(W), NEW r \in Seq(W),
         StartsWith(p, q), StartsWith(q, r)
  PROVE  StartsWith(p, r)
<1>1. Len(p) \in Nat /\ Len(q) \in Nat /\ Len(r) \in Nat
  OBVIOUS
<1>2. /\ Len(p) <= Len(q) /\ \A i \in 1..Len(p) : q[i] = p[i]
      /\ Len(q) <= Len(r) /\ \A i \in 1..Len(q) : r[i] = q[i]
  BY BeginningMeans
<1>3. Len(p) <= Len(r) /\ \A i \in 1..Len(p) : r[i] = p[i]
  BY <1>1, <1>2
<1> QED  BY <1>3, BeginningMeans

(* Of two beginnings of one sequence the shorter begins the longer. *)
LEMMA BeginningsNest ==
  ASSUME NEW W, NEW p \in Seq(W), NEW q \in Seq(W), NEW r \in Seq(W),
         StartsWith(p, r), StartsWith(q, r), Len(p) <= Len(q)
  PROVE  StartsWith(p, q)
<1>1. Len(p) \in Nat /\ Len(q) \in Nat /\ Len(r) \in Nat
  OBVIOUS
<1>2. /\ Len(p) <= Len(r) /\ \A i \in 1..Len(p) : r[i] = p[i]
      /\ Len(q) <= Len(r) /\ \A i \in 1..Len(q) : r[i] = q[i]
  BY BeginningMeans
<1>3. \A i \in 1..Len(p) : q[i] = p[i]
  BY <1>1, <1>2
<1> QED  BY <1>3, BeginningMeans

(* Beginnings of the same length are the same. *)
LEMMA BeginningUnique ==
  ASSUME NEW W, NEW p \in Seq(W), NEW q \in Seq(W), StartsWith(p, q), Len(p) = Len(q)
  PROVE  p = q
<1>1. Len(p) \in Nat /\ Len(q) \in Nat /\ \A i \in 1..Len(p) : q[i] = p[i]
  BY BeginningMeans
<1> QED  BY <1>1, SeqEqual

LEMMA JoinBegins ==
  ASSUME NEW W, NEW p \in Seq(W), NEW r \in Seq(W)
  PROVE  StartsWith(p, p \o r) /\ Rest(p, p \o r) = r
<1> DEFINE j == p \o r
           e == Rest(p, j)
<1>1. /\ j \in Seq(W) /\ Len(j) = Len(p) + Len(r)
      /\ \A i \in 1..Len(p) : j[i] = p[i]
      /\ \A i \in 1..Len(r) : j[Len(p) + i] = r[i]
  BY JoinMeans
<1>2. Len(p) \in Nat /\ Len(r) \in Nat
  OBVIOUS
<1> HIDE DEF j
<1>3. StartsWith(p, j)
  BY <1>1, <1>2, BeginningMeans
<1>4. e \in Seq(W) /\ Len(e) = Len(j) - Len(p)
      /\ \A i \in 1..(Len(j) - Len(p)) : e[i] = j[Len(p) + i]
  <2>1. Len(p) <= Len(j)
    BY <1>1, <1>2
  <2> QED  BY <1>1, <2>1, RestMeans
<1> HIDE DEF e
<1>5. Len(e) = Len(r) /\ \A i \in 1..Len(r) : e[i] = r[i]
  BY <1>1, <1>2, <1>4
<1>6. e = r
  BY <1>4, <1>5, SeqEqual
<1> QED  BY <1>3, <1>6 DEF j, e

-----------------------------------------------------------------------------
(* real_dir() *)

(* One round of the loop: the longest alias so far is j, the next is the n-th. *)
Round(list, groups, path, j, n) ==
  IF \/ ~StartsWith(list[n].alias, path)
     \/ j # 0 /\ Len(list[n].alias) <= Len(list[j].alias)
  THEN j
  ELSE IF TooDeep(list[n], groups, path) THEN 0
  ELSE n

Loop(f, list, groups, path) ==
  /\ f \in [0..Len(list) -> 0..Len(list)]
  /\ f[0] = 0
  /\ \A i \in 1..Len(list) : f[i] = Round(list, groups, path, f[i - 1], i)

(* Lookup is a recursive function: such a function exists, by NatRecursion, and
   the one that is chosen runs through the list as the loop does. *)
LEMMA LookupIsLoop ==
  ASSUME NEW list, NEW groups, NEW path, Len(list) \in Nat
  PROVE  \E f : Loop(f, list, groups, path) /\ Lookup(list, groups, path) = f[Len(list)]
<1> DEFINE N == Len(list)
           A == 0..N
           step == [x \in A \X (1..N) |-> Round(list, groups, path, x[1], x[2])]
           Body(f) == [n \in 0..N |->
             IF n = 0 THEN 0
             ELSE IF \/ ~StartsWith(list[n].alias, path)
                     \/ f[n - 1] # 0 /\ Len(list[n].alias) <= Len(list[f[n - 1]].alias)
                  THEN f[n - 1]
             ELSE IF TooDeep(list[n], groups, path) THEN 0
             ELSE n]
           F == CHOOSE f : f = Body(f)
<1>0. N \in Nat
  OBVIOUS
<1>1. \A j \in A, n \in 1..N : Round(list, groups, path, j, n) \in A
  BY DEF Round
<1>2. step \in [A \X (1..N) -> A]
  BY <1>1
<1>3. \A j \in A, n \in 1..N : step[<<j, n>>] = Round(list, groups, path, j, n)
  OBVIOUS
<1>4. 0 \in A
  OBVIOUS
<1> HIDE DEF step
<1>5. PICK f \in [0..N -> A] : f[0] = 0 /\ \A i \in 1..N : f[i] = step[<<f[i - 1], i>>]
  <2> HIDE DEF A, N
  <2>1. \E f : Recursive(f, A, N, 0, step)
    BY <1>0, <1>2, <1>4, RecursionUpTo
  <2> QED  BY <2>1 DEF Recursive
<1>10. \A i \in 1..N : i - 1 \in 0..N /\ f[i - 1] \in A
  BY <1>0, <1>5
<1>6. \A i \in 1..N : i - 1 \in 0..N /\ f[i] = Round(list, groups, path, f[i - 1], i)
  BY <1>3, <1>5, <1>10
<1>7. f = Body(f)
  BY <1>5, <1>6 DEF Round
<1>8. F = Body(F)
  BY <1>7
<1>9. Lookup(list, groups, path) = F[N]
  BY DEF Lookup
<1>11. F \in [0..N -> A] /\ F[0] = 0
       /\ \A i \in 1..N : F[i] = Round(list, groups, path, F[i - 1], i)
  <2> DEFINE S == {k \in 0..N : F[k] \in A}
  <2>1. F = [i \in 0..N |-> F[i]] /\ F[0] = 0 /\ 0 \in 0..N
    <3> HIDE DEF F
    <3>1. 0 \in 0..N
      BY <1>0
    <3>2. F[0] = Body(F)[0]
      BY <1>8
    <3>3. Body(F)[0] = 0
      BY <3>1
    <3>4. Body(F) = [i \in 0..N |-> Body(F)[i]]
      OBVIOUS
    <3> HIDE DEF Body
    <3> QED  BY <3>1, <3>2, <3>3, <3>4, <1>8
  <2>2. ASSUME NEW i \in 1..N PROVE F[i] = Round(list, groups, path, F[i - 1], i)
    <3>1. i \in 0..N /\ i # 0
      BY <1>0
    <3>2. F[i] = Body(F)[i]
      BY <1>8
    <3> HIDE DEF F
    <3> QED  BY <3>1, <3>2 DEF Round
  <2> HIDE DEF F
  <2>3. 0 \in S
    BY <2>1, <1>4
  <2>4. \A k \in 1..N : k - 1 \in S => k \in S
    BY <2>2, <1>1, <1>0
  <2>5. 0..N \subseteq S
    <3> HIDE DEF S
    <3> QED  BY <1>0, <2>3, <2>4, InductionUpTo
  <2>6. F \in [0..N -> A]
    BY <2>1, <2>5
  <2> QED  BY <2>1, <2>2, <2>6
<1> HIDE DEF F
<1> QED  BY <1>9, <1>11 DEF Loop

(* The alias that the loop ends with holds the path. *)
LEMMA LookupHolds ==
  ASSUME NEW list, NEW groups, NEW path, Len(list) \in Nat
  PROVE  LET i == Lookup(list, groups, path)
         IN  i = 0 \/ (i \in 1..Len(list) /\ StartsWith(list[i].alias, path))
<1> DEFINE N == Len(list)
           fits == {j \in 1..N : StartsWith(list[j].alias, path)}
<1>11. PICK f : Loop(f, list, groups, path) /\ Lookup(list, groups, path) = f[Len(list)]
  BY LookupIsLoop
<1>1. /\ f \in [0..N -> 0..N] /\ f[0] = 0
      /\ \A k \in 1..N : f[k] = Round(list, groups, path, f[k - 1], k)
      /\ Lookup(list, groups, path) = f[N]
  BY <1>11 DEF Loop
<1>2. N \in Nat
  OBVIOUS
<1>8. ASSUME NEW k \in 1..N PROVE f[k] \in {f[k - 1], 0} \/ (f[k] = k /\ k \in fits)
  <2>1. f[k] = Round(list, groups, path, f[k - 1], k)
    BY <1>1
  <2>2. CASE k \in fits
    BY <2>1, <2>2 DEF Round
  <2>3. CASE k \notin fits
    <3>1. ~StartsWith(list[k].alias, path)
      BY <2>3
    <3> QED  BY <2>1, <3>1 DEF Round, StartsWith
  <2> QED  BY <2>2, <2>3
<1> HIDE DEF N, fits
<1> DEFINE S == {k \in 0..N : f[k] = 0 \/ f[k] \in fits}
<1>3. 0 \in S
  BY <1>1, <1>2
<1>4. ASSUME NEW k \in 1..N, k - 1 \in S PROVE k \in S
  <2>1. k \in 0..N
    BY <1>2
  <2>2. f[k - 1] = 0 \/ f[k - 1] \in fits
    BY <1>4
  <2>3. f[k] = 0 \/ f[k] \in fits
    BY <2>2, <1>8
  <2> QED  BY <2>1, <2>3
<1>5. 0..N \subseteq S
  <2> HIDE DEF S
  <2> QED  BY <1>2, <1>3, <1>4, InductionUpTo
<1>6. N \in S /\ f[N] \in 0..N
  BY <1>1, <1>2, <1>5
<1> HIDE DEF S
<1>7. f[N] = 0 \/ f[N] \in fits
  BY <1>6 DEF S
<1>9. f[N] = 0 \/ (f[N] \in 1..N /\ StartsWith(list[f[N]].alias, path))
  BY <1>7, Zenon DEF fits
<1>10. Lookup(list, groups, path) = f[N]
  BY <1>1
<1> QED  BY <1>9, <1>10 DEF N

(* If every alias that holds the path may be used as deep as that, the loop
   ends with the longest of them. *)
LEMMA LookupLongest ==
  ASSUME NEW list \in Seq(Alias), NEW groups, NEW path, NEW i \in 1..Len(list),
         StartsWith(list[i].alias, path),
         \A j \in 1..Len(list) : StartsWith(list[j].alias, path) =>
           /\ ~TooDeep(list[j], groups, path)
           /\ j # i => Len(list[j].alias) < Len(list[i].alias)
  PROVE  Lookup(list, groups, path) = i
<1> DEFINE N == Len(list)
           fits == {j \in 1..N : StartsWith(list[j].alias, path)}
           deep == {j \in 1..N : TooDeep(list[j], groups, path)}
           size(j) == Len(list[j].alias)
<1>0. N \in Nat
  OBVIOUS
<1>11. PICK f : Loop(f, list, groups, path) /\ Lookup(list, groups, path) = f[Len(list)]
  BY <1>0, LookupIsLoop
<1>1. /\ f \in [0..N -> 0..N] /\ f[0] = 0
      /\ \A k \in 1..N : f[k] = Round(list, groups, path, f[k - 1], k)
      /\ Lookup(list, groups, path) = f[N]
  BY <1>11 DEF Loop
<1>2. \A j \in 1..N : size(j) \in Nat
  <2>1. \A j \in 1..N : list[j].alias \in Seq(Names)
    <3>1. \A j \in 1..N : list[j] \in Alias
      OBVIOUS
    <3> QED  BY <3>1 DEF Alias, Path
  <2> QED  BY <2>1
<1>3. /\ i \in 1..N /\ i \in fits
      /\ \A j \in fits : j \notin deep /\ (j # i => size(j) < size(i))
  OBVIOUS
<1>4. ASSUME NEW k \in 1..N
      PROVE  /\ f[k] \in {f[k - 1], 0} \/ (f[k] = k /\ k \in fits)
             /\ k \notin fits \/ (f[k - 1] # 0 /\ size(k) <= size(f[k - 1])) => f[k] = f[k - 1]
             /\ k \in fits /\ k \notin deep
                  /\ ~(f[k - 1] # 0 /\ size(k) <= size(f[k - 1])) => f[k] = k
  <2>1. f[k] = Round(list, groups, path, f[k - 1], k)
    BY <1>1
  <2>2. CASE StartsWith(list[k].alias, path)
    <3>1. k \in fits /\ (k \in deep <=> TooDeep(list[k], groups, path))
      BY <2>2
    <3> HIDE DEF fits, deep
    <3> QED  BY <2>1, <2>2, <3>1 DEF Round
  <2>3. CASE ~StartsWith(list[k].alias, path)
    BY <2>1, <2>3 DEF Round, StartsWith
  <2> QED  BY <2>2, <2>3
<1>5. \A k \in 1..N : k - 1 \in 0..N /\ f[k - 1] \in 0..N /\ k \in Int
  BY <1>0, <1>1
<1> HIDE DEF N, fits, deep, size
<1> DEFINE Before(k) == f[k] = 0 \/ (f[k] # i /\ f[k] \in fits)
           S == {k \in 0..N : (k < i => Before(k)) /\ (k >= i => f[k] = i)}
<1>6. 0 \in S
  <2>1. 0 \in 0..N /\ 0 < i /\ ~(0 >= i)
    BY <1>0, <1>3
  <2>2. Before(0)
    BY <1>1
  <2> QED  BY <2>1, <2>2
<1>7. ASSUME NEW k \in 1..N, k - 1 \in S PROVE k \in S
  <2>1. f[k - 1] # 0 => f[k - 1] \in 1..N
    BY <1>0, <1>5
  <2>2. CASE k < i
    <3>1. Before(k - 1)
      BY <1>7, <1>3, <1>5, <2>2
    <3>2. Before(k)
      BY <3>1, <2>2, <1>0, <1>3, <1>4, <1>5
    <3> QED  BY <3>2, <2>2, <1>0, <1>3
  <2>3. CASE k = i
    <3>1. Before(k - 1)
      BY <1>7, <1>3, <1>5, <2>3
    <3>2. ~(f[k - 1] # 0 /\ size(k) <= size(f[k - 1]))
      BY <3>1, <2>1, <2>3, <1>2, <1>3
    <3>3. f[k] = i
      BY <3>2, <2>3, <1>3, <1>4
    <3> QED  BY <3>3, <2>3, <1>0, <1>3
  <2>4. CASE k > i
    <3>1. f[k - 1] = i /\ i # 0
      BY <1>7, <1>3, <1>5, <2>4
    <3>2. k \in fits => size(k) <= size(i)
      BY <2>4, <1>2, <1>3
    <3>3. f[k] = i
      BY <3>1, <3>2, <1>4
    <3> QED  BY <3>3, <2>4, <1>0, <1>3
  <2> QED  BY <2>2, <2>3, <2>4, <1>3, <1>5
<1>8. 0..N \subseteq S
  <2> HIDE DEF S
  <2> QED  BY <1>0, <1>6, <1>7, InductionUpTo
<1>9. N \in S /\ N >= i
  BY <1>0, <1>3, <1>8
<1>10. f[N] = i
  BY <1>9
<1> QED  BY <1>1, <1>10

-----------------------------------------------------------------------------
(* The invariant of the sessions *)

Session == [on : BOOLEAN, online : BOOLEAN, quit : BOOLEAN, user : Int, access : Int,
            path : Seq(Words), cd : Seq(Words), filename : Seq(Args), moved : BOOLEAN]

(* The three records of a session's directory agree under these lists. *)
Agrees(f, userList, aliasList) ==
  LET i == RealDir(aliasList, GroupsOf(userList, f.user), f.path) IN
  f.access = i /\ f.cd = IF i = Null THEN <<>> ELSE FilePath(aliasList, i, f.path)

(* What holds of a session, and of the entries its pointers stand for. *)
SessionOK(f, userList, aliasList) ==
  /\ f.online => f.on /\ f.user # Null
  /\ ~f.online => f.path = Nowhere /\ f.cd = <<>>
  /\ f.user \in {Null, Unknown, Freed} \cup DOMAIN userList
  /\ f.access \in {Null, Freed} \cup DOMAIN aliasList
  /\ f.on /\ ~f.quit => f.user # Freed /\ f.access # Freed
  /\ f.online /\ f.moved /\ ~f.quit => Agrees(f, userList, aliasList)

(* The invariant: a directory is known to agree only together with the alias and
   the account that the pointers stand for. *)
SessionInv ==
  /\ users \in UserLists /\ aliases \in AliasLists /\ pages \subseteq {"users", "paths"}
  /\ ftp \in [Sessions -> Session]
  /\ \A s \in Sessions : SessionOK(ftp[s], users, aliases)

-----------------------------------------------------------------------------
(* Types of what paths are made into *)

LEMMA ListTypes ==
  /\ \A list \in UserLists : list \in Seq(Account) /\ Len(list) \in Nat /\ DOMAIN list = 1..Len(list)
  /\ \A list \in AliasLists : list \in Seq(Alias) /\ Len(list) \in Nat /\ DOMAIN list = 1..Len(list)
BY DirectoriesAssumption DEF DirectoriesAssumption

LEMMA AliasTypes ==
  ASSUME NEW list \in Seq(Alias), NEW i \in 1..Len(list)
  PROVE  list[i].alias \in Seq(Words) /\ list[i].path \in Seq(Words)
<1>1. list[i] \in Alias
  OBVIOUS
<1>2. list[i].alias \in Seq(Names) /\ list[i].path \in Place \cup {<<>>}
  BY <1>1 DEF Alias, Path
<1>3. Names \subseteq Words /\ (Names \cup Volumes \cup {"current_dir"}) \subseteq Words
  BY DEF Words
<1>4. \A p \in Place : p \in Seq(Names \cup Volumes \cup {"current_dir"})
  BY DEF Place
<1>5. \A V, W : V \subseteq W => Seq(V) \subseteq Seq(W)
  OBVIOUS
<1>6. <<>> \in Seq(Words)
  OBVIOUS
<1>7. Seq(Names) \subseteq Seq(Words) /\ Seq(Names \cup Volumes \cup {"current_dir"}) \subseteq Seq(Words)
  <2> HIDE DEF Words
  <2> QED  BY <1>3, <1>5
<1> QED  BY <1>2, <1>4, <1>6, <1>7

(* The alias that real_dir() returns holds the path and gives some right. *)
LEMMA RealDirHolds ==
  ASSUME NEW list \in Seq(Alias), NEW groups, NEW path
  PROVE  LET i == RealDir(list, groups, path)
         IN  /\ i = 0 \/ i \in 1..Len(list)
             /\ i # 0 => StartsWith(list[i].alias, path)
             /\ i # 0 => SomeRight(list[i], groups)
<1>1. Len(list) \in Nat
  OBVIOUS
<1> DEFINE l == Lookup(list, groups, path)
<1>2. l = 0 \/ (l \in 1..Len(list) /\ StartsWith(list[l].alias, path))
  BY <1>1, LookupHolds
<1> HIDE DEF l
<1>3. RealDir(list, groups, path) = IF path # Root /\ Head(path) = "nowhere" THEN 0
        ELSE IF l # 0 /\ SomeRight(list[l], groups) THEN l ELSE 0
  BY DEF RealDir, l
<1>4. RealDir(list, groups, path) = 0
        \/ (RealDir(list, groups, path) = l /\ l # 0 /\ SomeRight(list[l], groups))
  BY <1>3 DEF SomeRight
<1> QED  BY <1>2, <1>4

(* No alias holds the empty path. *)
LEMMA RealDirNowhere ==
  ASSUME NEW list, NEW groups
  PROVE  RealDir(list, groups, Nowhere) = 0
<1>1. Nowhere # Root /\ Head(Nowhere) = "nowhere"
  BY DEF Nowhere, Root
<1> QED  BY <1>1 DEF RealDir

LEMMA FilePathType ==
  ASSUME NEW list \in Seq(Alias), NEW i \in 1..Len(list), NEW path \in Seq(Words),
         StartsWith(list[i].alias, path)
  PROVE  FilePath(list, i, path) \in Seq(Words)
<1> DEFINE a == list[i].alias
           v == list[i].path
           r == Rest(a, path)
<1>1. a \in Seq(Words) /\ v \in Seq(Words)
  BY AliasTypes
<1> HIDE DEF a, v
<1>2. Len(a) <= Len(path)
  BY DEF StartsWith, a
<1>3. r \in Seq(Words)
  BY <1>1, <1>2, RestMeans
<1>4. CurrentDir \in Seq(Words)
  BY DEF CurrentDir, Words
<1> HIDE DEF r
<1>5. CurrentDir \o r \in Seq(Words) /\ v \o r \in Seq(Words)
  BY <1>1, <1>3, <1>4, ConcatProperties
<1>6. FilePath(list, i, path) \in {CurrentDir \o r, v \o r}
  BY DEF FilePath, a, v, r
<1> QED  BY <1>5, <1>6

LEMMA ArgTypes ==
  ASSUME NEW a \in Args
  PROVE  a.from \in {"here", "root", "colon"} /\ a.names \in Seq(Words)
<1>1. a.from \in {"here", "root", "colon"} /\ a.names \in Seq(Names \cup {".."})
  BY DirectoriesAssumption DEF DirectoriesAssumption
<1>2. (Names \cup {".."}) \subseteq Words
  BY DEF Words
<1> QED  BY <1>1, <1>2

LEMMA AddPathType ==
  ASSUME NEW to \in Seq(Words), NEW a, NEW p \in AddPath(to, a),
         a.from \in {"here", "root", "colon"}, a.names \in Seq(Words)
  PROVE  p \in Seq(Words)
<1>1. Nowhere \in Seq(Words) /\ Root \in Seq(Words)
  BY DEF Nowhere, Root, Words
<1>2. Nowhere \o a.names \in Seq(Words) /\ to \o a.names \in Seq(Words)
  BY <1>1, ConcatProperties
<1>3. CASE a.from = "root"
  BY <1>3 DEF AddPath
<1>4. CASE a.from = "colon"
  <2>1. AddPath(to, a) = {IF to = Nowhere THEN Nowhere ELSE Root}
    BY <1>4 DEF AddPath
  <2> QED  BY <2>1, <1>1
<1>5. CASE a.from = "here"
  <2>1. AddPath(to, a) = IF to = Nowhere THEN {a.names, Nowhere \o a.names} ELSE {to \o a.names}
    BY <1>5 DEF AddPath
  <2> QED  BY <2>1, <1>2
<1> QED  BY <1>3, <1>4, <1>5

LEMMA ParentType ==
  ASSUME NEW p \in Seq(Words)
  PROVE  Parent(p) \in Seq(Words)
BY DEF Parent, Root

-----------------------------------------------------------------------------
(* The sessions *)

LEMMA InitSessionInv == Init => SessionInv
<1> SUFFICES ASSUME Init PROVE SessionInv
  OBVIOUS
<1>1. NoSession \in Session
  BY DEF NoSession, Session, Null, Nowhere, Words
<1>2. \A s \in Sessions : SessionOK(NoSession, users, aliases)
  BY DEF NoSession, SessionOK, Null, Freed
<1> QED  BY <1>1, <1>2 DEF Init, SessionInv

(* One session changes, and the lists do not. *)
LEMMA OneSession ==
  ASSUME SessionInv, NEW s \in Sessions, NEW f \in Session, ftp' = [ftp EXCEPT ![s] = f],
         SessionOK(f, users, aliases), UNCHANGED Lists
  PROVE  SessionInv'
<1>1. users' = users /\ aliases' = aliases /\ pages' = pages
  BY DEF Lists
<1>2. ftp' \in [Sessions -> Session] /\ \A t \in Sessions : ftp'[t] = IF t = s THEN f ELSE ftp[t]
  BY DEF SessionInv
<1>3. \A t \in Sessions : SessionOK(ftp'[t], users, aliases)
  BY <1>2 DEF SessionInv
<1> QED  BY <1>1, <1>2, <1>3 DEF SessionInv

(* A session enters a directory: the one it is resolved to. *)
LEMMA EntersStep ==
  ASSUME SessionInv, KickedServed = FALSE, NEW s \in Sessions, MayRun(s, {}),
         NEW p \in Seq(Words), Enters(s, p), UNCHANGED Lists
  PROVE  SessionInv'
<1> DEFINE i == Resolve(s, p)
           f == [ftp[s] EXCEPT !.access = i, !.path = p, !.cd = PlaceOf(s, p),
                               !.filename = <<>>, !.moved = TRUE]
<1>1. ftp[s] \in Session /\ SessionOK(ftp[s], users, aliases)
  BY DEF SessionInv
<1>2. ftp[s].on /\ ftp[s].online /\ ~ftp[s].quit
  BY <1>1 DEF MayRun, Served, SessionOK
<1>3. aliases \in Seq(Alias) /\ DOMAIN aliases = 1..Len(aliases)
  BY ListTypes DEF SessionInv
<1>4. i \in 1..Len(aliases) /\ StartsWith(aliases[i].alias, p)
  BY <1>3, RealDirHolds DEF Enters, Resolve
<1>5. PlaceOf(s, p) = FilePath(aliases, i, p) /\ PlaceOf(s, p) \in Seq(Words)
  BY <1>3, <1>4, FilePathType DEF PlaceOf
<1>6. i = RealDir(aliases, GroupsOf(users, ftp[s].user), p) /\ i \in Int /\ i # 0
  BY <1>4 DEF Resolve, Holder
<1>7. ftp' = [ftp EXCEPT ![s] = f]
  BY DEF Enters
<1> HIDE DEF i
<1>8. f \in Session
  <2>1. <<>> \in Seq(Args) /\ TRUE \in BOOLEAN
    OBVIOUS
  <2> QED  BY <1>1, <1>5, <1>6, <2>1 DEF Session
<1>9. /\ f.on = ftp[s].on /\ f.online = ftp[s].online /\ f.quit = ftp[s].quit
      /\ f.user = ftp[s].user /\ f.access = i /\ f.path = p /\ f.cd = PlaceOf(s, p)
  BY <1>1 DEF Session
<1> HIDE DEF f
<1>10. Agrees(f, users, aliases)
  BY <1>5, <1>6, <1>9 DEF Agrees, Null
<1>11. SessionOK(f, users, aliases)
  BY <1>1, <1>2, <1>3, <1>4, <1>6, <1>9, <1>10 DEF SessionOK, Null, Freed
<1> QED  BY <1>7, <1>8, <1>11, OneSession

LEMMA EntersNowhereStep ==
  ASSUME SessionInv, NEW s \in Sessions, ftp[s].online, EntersNowhere(s), UNCHANGED Lists
  PROVE  SessionInv'
<1> DEFINE f == [ftp[s] EXCEPT !.access = Null, !.path = Nowhere, !.cd = <<>>,
                               !.filename = <<>>, !.moved = TRUE]
<1>1. ftp[s] \in Session /\ SessionOK(ftp[s], users, aliases)
  BY DEF SessionInv
<1>2. ftp' = [ftp EXCEPT ![s] = f]
  BY DEF EntersNowhere
<1>3. Nowhere \in Seq(Words) /\ Null \in Int
  BY DEF Nowhere, Words, Null
<1>4. f \in Session
  <2>1. <<>> \in Seq(Args) /\ <<>> \in Seq(Words) /\ TRUE \in BOOLEAN
    OBVIOUS
  <2> QED  BY <1>1, <1>3, <2>1 DEF Session
<1>5. /\ f.on = ftp[s].on /\ f.online = ftp[s].online /\ f.quit = ftp[s].quit
      /\ f.user = ftp[s].user /\ f.access = Null /\ f.path = Nowhere /\ f.cd = <<>>
  BY <1>1 DEF Session
<1> HIDE DEF f
<1>6. Agrees(f, users, aliases)
  BY <1>5, RealDirNowhere DEF Agrees, Null
<1>7. SessionOK(f, users, aliases)
  BY <1>1, <1>5, <1>6 DEF SessionOK, Null, Freed
<1> QED  BY <1>2, <1>4, <1>7, OneSession

(* PASS enters "/", which only an alias "/" holds. *)
LEMMA PassStep ==
  ASSUME SessionInv, KickedServed = FALSE, NEW s \in Sessions, PassCommand(s)
  PROVE  SessionInv'
<1>1. ftp[s] \in Session /\ SessionOK(ftp[s], users, aliases)
  BY DEF SessionInv
<1>2. ftp[s].on /\ ~ftp[s].online /\ ~ftp[s].quit /\ ftp[s].user # Null
      /\ ftp[s].path = Nowhere /\ ftp[s].cd = <<>> /\ UNCHANGED Lists
  BY <1>1 DEF PassCommand, Served, SessionOK
<1>3. aliases \in Seq(Alias) /\ DOMAIN aliases = 1..Len(aliases)
  BY ListTypes DEF SessionInv
<1>4. CASE ftp' = [ftp EXCEPT ![s].user = Null]
  <2> DEFINE f == [ftp[s] EXCEPT !.user = Null]
  <2>1. ftp' = [ftp EXCEPT ![s] = f]
    BY <1>4
  <2>2. f \in Session
    BY <1>1 DEF Session, Null
  <2>3. /\ f.on = ftp[s].on /\ f.online = ftp[s].online /\ f.quit = ftp[s].quit
        /\ f.user = Null /\ f.access = ftp[s].access /\ f.path = ftp[s].path /\ f.cd = ftp[s].cd
    BY <1>1 DEF Session
  <2> HIDE DEF f
  <2>4. SessionOK(f, users, aliases)
    BY <1>1, <1>2, <2>3 DEF SessionOK, Null, Freed
  <2> QED  BY <1>2, <2>1, <2>2, <2>4, OneSession
<1>5. CASE ftp[s].user # Unknown /\ ftp' # [ftp EXCEPT ![s].user = Null]
  <2> DEFINE i == RealDir(aliases, users[ftp[s].user].groups, Root)
             p == IF i = 0 THEN ftp[s].path ELSE aliases[i].alias
             c == IF i = 0 THEN ftp[s].cd ELSE aliases[i].path
             f == [ftp[s] EXCEPT !.online = TRUE, !.access = i, !.path = p, !.cd = c, !.moved = TRUE]
  <2>1. ftp' = [ftp EXCEPT ![s] = f]
    BY <1>5 DEF PassCommand
  <2>2. GroupsOf(users, ftp[s].user) = users[ftp[s].user].groups
    BY <1>2 DEF GroupsOf
  <2>3. i = 0 \/ (i \in 1..Len(aliases) /\ StartsWith(aliases[i].alias, Root))
    BY <1>3, RealDirHolds
  <2>4. i = RealDir(aliases, GroupsOf(users, ftp[s].user), Root) /\ i \in Int
    BY <2>2, <2>3
  <2> HIDE DEF i
  <2>5. i # 0 => /\ aliases[i].alias = Root /\ aliases[i].path \in Seq(Words)
                 /\ FilePath(aliases, i, Root) = aliases[i].path
    <3> SUFFICES ASSUME i # 0
                 PROVE  /\ aliases[i].alias = Root /\ aliases[i].path \in Seq(Words)
                        /\ FilePath(aliases, i, Root) = aliases[i].path
      OBVIOUS
    <3> DEFINE a == aliases[i].alias
               v == aliases[i].path
    <3>1. a \in Seq(Words) /\ v \in Seq(Words)
      BY <2>3, <1>3, AliasTypes
    <3>2. Len(a) <= Len(Root)
      BY <2>3 DEF StartsWith
    <3> HIDE DEF a, v
    <3>3. a = <<>>
      BY <3>1, <3>2 DEF Root
    <3>4. Rest(<<>>, <<>>) = <<>>
      BY DEF Rest
    <3>5. v \o <<>> = v
      BY <3>1
    <3>6. FilePath(aliases, i, Root) = v
      BY <3>3, <3>4, <3>5, Zenon DEF FilePath, Root, a, v
    <3> QED  BY <3>1, <3>3, <3>6 DEF a, v, Root
  <2>6. p \in Seq(Words) /\ c \in Seq(Words)
    <3>1. Root \in Seq(Words)
      BY DEF Root
    <3>2. ftp[s].path \in Seq(Words) /\ ftp[s].cd \in Seq(Words)
      BY <1>1 DEF Session
    <3> QED  BY <2>5, <3>1, <3>2
  <2>7. f \in Session
    <3> HIDE DEF p, c
    <3> QED  BY <1>1, <2>4, <2>6 DEF Session
  <2>8. /\ f.on = ftp[s].on /\ f.online /\ f.quit = ftp[s].quit
        /\ f.user = ftp[s].user /\ f.access = i /\ f.path = p /\ f.cd = c
    <3> HIDE DEF p, c
    <3> QED  BY <1>1 DEF Session
  <2> HIDE DEF f
  <2>9. Agrees(f, users, aliases)
    <3>1. CASE i = 0
      <4>1. f.path = Nowhere /\ f.cd = <<>> /\ f.access = 0
        BY <2>8, <3>1, <1>2
      <4> QED  BY <4>1, RealDirNowhere DEF Agrees, Null
    <3>2. CASE i # 0
      <4>1. f.path = Root /\ f.cd = FilePath(aliases, i, Root) /\ f.access = i
        BY <2>8, <3>2, <2>5
      <4> QED  BY <4>1, <3>2, <2>4, <2>8 DEF Agrees, Null
    <3> QED  BY <3>1, <3>2
  <2>10. SessionOK(f, users, aliases)
    <3> HIDE DEF p, c
    <3> QED  BY <1>1, <1>2, <1>3, <2>3, <2>4, <2>8, <2>9 DEF SessionOK, Null, Freed
  <2> QED  BY <1>2, <2>1, <2>7, <2>10, OneSession
<1> QED  BY <1>4, <1>5 DEF PassCommand

-----------------------------------------------------------------------------
(* What "Use" leaves of a session *)

LEMMA UserKeptMeans ==
  ASSUME users \in UserLists, NEW list \in UserLists,
         NEW u \in {Null, Unknown, Freed} \cup DOMAIN users
  PROVE  LET k == UserKept(list, u) IN
         /\ u \in {Null, Unknown, Freed} => k = u
         /\ u \in DOMAIN users =>
              \/ k = Freed /\ \A v \in DOMAIN list : list[v].name # users[u].name
              \/ k \in DOMAIN list /\ list[k].name = users[u].name
         /\ k \in {Null, Unknown, Freed} \cup DOMAIN list
<1> DEFINE k == UserKept(list, u)
           same == SameName(list, users[u].name)
<1>1. /\ users \in Seq(Account) /\ DOMAIN users = 1..Len(users) /\ Len(users) \in Nat
      /\ list \in Seq(Account) /\ DOMAIN list = 1..Len(list) /\ Len(list) \in Nat
  BY ListTypes
<1>2. u \in DOMAIN users => u \notin {Null, Unknown, Freed}
  BY <1>1 DEF Null, Unknown, Freed
<1>3. u \in {Null, Unknown, Freed} => k = u
  BY DEF UserKept
<1>4. u \in DOMAIN users => k = IF same = {} THEN Freed ELSE First(same)
  BY <1>2 DEF UserKept
<1>5. same \in SUBSET Nat /\ same = {v \in DOMAIN list : list[v].name = users[u].name}
  BY <1>1 DEF SameName
<1>6. same # {} => First(same) \in same
  <2> HIDE DEF same
  <2> QED  BY <1>5, FirstIsLeast
<1> HIDE DEF k
<1>7. u \in DOMAIN users =>
        \/ k = Freed /\ \A v \in DOMAIN list : list[v].name # users[u].name
        \/ k \in DOMAIN list /\ list[k].name = users[u].name
  <2> HIDE DEF same
  <2> QED  BY <1>4, <1>5, <1>6
<1> QED  BY <1>3, <1>7 DEF k

LEMMA AliasKeptMeans ==
  ASSUME aliases \in AliasLists, NEW list \in AliasLists, NEW groups,
         NEW i \in {Null, Freed} \cup DOMAIN aliases
  PROVE  LET k == AliasKept(list, i, groups) IN
         /\ i \in {Null, Freed} => k = i
         /\ i \in DOMAIN aliases =>
              \/ /\ k = Freed
                 /\ \A j \in DOMAIN list : list[j].alias = aliases[i].alias => ~SomeRight(list[j], groups)
              \/ /\ k \in DOMAIN list
                 /\ list[k].alias = aliases[i].alias /\ SomeRight(list[k], groups)
         /\ k \in {Null, Freed} \cup DOMAIN list
<1> DEFINE k == AliasKept(list, i, groups)
           same == SameAlias(list, aliases[i], groups)
           A == aliases[i].alias
<1>1. /\ DOMAIN aliases = 1..Len(aliases) /\ Len(aliases) \in Nat
      /\ DOMAIN list = 1..Len(list) /\ Len(list) \in Nat
  BY ListTypes
<1>2. i \in DOMAIN aliases => i \notin {Null, Freed}
  BY <1>1 DEF Null, Freed
<1>3. i \in {Null, Freed} => k = i
  BY DEF AliasKept
<1>4. i \in DOMAIN aliases => k = IF same = {} THEN Freed ELSE First(same)
  BY <1>2 DEF AliasKept
<1>5. same \in SUBSET Nat /\ \A j : j \in same <=>
        j \in DOMAIN list /\ list[j].alias = A /\ SomeRight(list[j], groups)
  BY <1>1 DEF SameAlias, SomeRight
<1>6. same # {} => First(same) \in same
  <2> HIDE DEF same
  <2> QED  BY <1>5, FirstIsLeast
<1> HIDE DEF k, same
<1>7. i \in DOMAIN aliases /\ same = {} =>
        /\ k = Freed
        /\ \A j \in DOMAIN list : list[j].alias = A => ~SomeRight(list[j], groups)
  BY <1>4, <1>5 DEF SomeRight
<1>8. i \in DOMAIN aliases /\ same # {} =>
        k \in DOMAIN list /\ list[k].alias = A /\ SomeRight(list[k], groups)
  BY <1>4, <1>5, <1>6 DEF SomeRight
<1> QED  BY <1>3, <1>7, <1>8 DEF k

(* g is what is left of f: with the account u and the alias i, for rights of
   these groups. *)
KeptAs(f, userList, aliasList, g, u, i, groups) ==
  /\ u = IF "users" \in pages THEN UserKept(userList, f.user) ELSE f.user
  /\ u \notin {Unknown, Freed} => groups = GroupsOf(userList, u)
  /\ i = IF "paths" \in pages THEN AliasKept(aliasList, f.access, groups) ELSE f.access
  /\ g = [f EXCEPT !.user = u, !.access = i, !.moved = FALSE,
                   !.quit = f.quit \/ (f.on /\ Freed \in {u, i})]

LEMMA KeptMeans ==
  ASSUME NEW f, NEW userList, NEW aliasList, NEW g \in KeptSession(f, userList, aliasList)
  PROVE  \E u, i, groups :
           KeptAs(f, userList, aliasList, g, u, i, groups)
<1> DEFINE u == IF "users" \in pages THEN UserKept(userList, f.user) ELSE f.user
           held == IF u \in {Unknown, Freed} THEN SUBSET Groups ELSE {GroupsOf(userList, u)}
           kept == IF "paths" \in pages
                   THEN {AliasKept(aliasList, f.access, groups) : groups \in held} ELSE {f.access}
           made(i) == [f EXCEPT !.user = u, !.access = i, !.moved = FALSE,
                                !.quit = f.quit \/ (f.on /\ Freed \in {u, i})]
<1>1. g \in {made(i) : i \in kept}
  BY DEF KeptSession
<1> HIDE DEF made
<1>2. PICK i \in kept : g = made(i)
  BY <1>1
<1>3. CASE "paths" \in pages
  <2>1. PICK groups \in held : i = AliasKept(aliasList, f.access, groups)
    BY <1>2, <1>3
  <2>2. u \notin {Unknown, Freed} => groups = GroupsOf(userList, u)
    BY <2>1
  <2> HIDE DEF u
  <2> QED  BY <1>2, <1>3, <2>1, <2>2 DEF made, u, KeptAs
<1>4. CASE "paths" \notin pages
  <2>1. i = f.access
    BY <1>2, <1>4
  <2> QED  BY <1>2, <1>4, <2>1 DEF made, KeptAs
<1> QED  BY <1>3, <1>4

(* The session that is left: its pointers are into the new lists, or it was
   told 421. *)
LEMMA KeptOK ==
  ASSUME SessionInv, NEW f \in Session, SessionOK(f, users, aliases),
         NEW userList \in UserLists, NEW aliasList \in AliasLists,
         "users" \notin pages => userList = users,
         "paths" \notin pages => aliasList = aliases,
         NEW g \in KeptSession(f, userList, aliasList)
  PROVE  g \in Session /\ SessionOK(g, userList, aliasList)
<1>0. PICK u, i, groups : KeptAs(f, userList, aliasList, g, u, i, groups)
  BY KeptMeans
<1>1.   /\ u = IF "users" \in pages THEN UserKept(userList, f.user) ELSE f.user
        /\ u \notin {Unknown, Freed} => groups = GroupsOf(userList, u)
        /\ i = IF "paths" \in pages THEN AliasKept(aliasList, f.access, groups) ELSE f.access
        /\ g = [f EXCEPT !.user = u, !.access = i, !.moved = FALSE,
                         !.quit = f.quit \/ (f.on /\ Freed \in {u, i})]
  BY <1>0 DEF KeptAs
<1>2. users \in UserLists /\ aliases \in AliasLists
  BY DEF SessionInv
<1>3. f.user \in {Null, Unknown, Freed} \cup DOMAIN users
      /\ f.access \in {Null, Freed} \cup DOMAIN aliases
  BY DEF SessionOK
<1>4. /\ DOMAIN users = 1..Len(users) /\ DOMAIN aliases = 1..Len(aliases)
      /\ DOMAIN userList = 1..Len(userList) /\ DOMAIN aliasList = 1..Len(aliasList)
      /\ Len(userList) \in Nat /\ Len(aliasList) \in Nat
  BY <1>2, ListTypes
<1>5. u \in {Null, Unknown, Freed} \cup DOMAIN userList /\ (f.user # Null => u # Null)
  <2>1. CASE "users" \in pages
    <3>1. u = UserKept(userList, f.user)
      BY <1>1, <2>1
    <3>2. u \in {Null, Unknown, Freed} \cup DOMAIN userList
      BY <3>1, <1>2, <1>3, UserKeptMeans
    <3>3. f.user \in {Unknown, Freed} => u = f.user
      BY <3>1, <1>2, <1>3, UserKeptMeans
    <3>4. f.user \in DOMAIN users => u \in {Freed} \cup DOMAIN userList
      BY <3>1, <1>2, <1>3, UserKeptMeans
    <3> QED  BY <3>2, <3>3, <3>4, <1>3, <1>4 DEF Null, Unknown, Freed
  <2>2. CASE "users" \notin pages
    BY <1>1, <1>3, <2>2
  <2> QED  BY <2>1, <2>2
<1>6. i \in {Null, Freed} \cup DOMAIN aliasList
  <2>1. CASE "paths" \in pages
    BY <1>1, <1>2, <1>3, <2>1, AliasKeptMeans
  <2>2. CASE "paths" \notin pages
    BY <1>1, <1>3, <2>2
  <2> QED  BY <2>1, <2>2
<1>7. u \in Int /\ i \in Int
  BY <1>4, <1>5, <1>6 DEF Null, Unknown, Freed
<1> DEFINE q == f.quit \/ (f.on /\ Freed \in {u, i})
<1>8. q \in BOOLEAN /\ FALSE \in BOOLEAN
  OBVIOUS
<1>9. g = [f EXCEPT !.user = u, !.access = i, !.moved = FALSE, !.quit = q]
  BY <1>1
<1>10. f.on /\ ~q => u # Freed /\ i # Freed
  OBVIOUS
<1> HIDE DEF q
<1>11. g \in Session
  BY <1>7, <1>8, <1>9 DEF Session
<1>12. /\ g.on = f.on /\ g.online = f.online /\ g.path = f.path /\ g.cd = f.cd
       /\ g.user = u /\ g.access = i /\ g.quit = q /\ ~g.moved
  BY <1>9 DEF Session
<1>13. SessionOK(g, userList, aliasList)
  <2>1. g.online => g.on /\ g.user # Null
    BY <1>5, <1>12 DEF SessionOK
  <2>2. ~g.online => g.path = Nowhere /\ g.cd = <<>>
    BY <1>12 DEF SessionOK
  <2>3. g.on /\ ~g.quit => g.user # Freed /\ g.access # Freed
    BY <1>10, <1>12
  <2> QED  BY <2>1, <2>2, <2>3, <1>5, <1>6, <1>12 DEF SessionOK
<1> QED  BY <1>11, <1>13

LEMMA UseMeans ==
  ASSUME Use
  PROVE  /\ users' \in (IF "users" \in pages THEN UserLists ELSE {users})
         /\ aliases' \in (IF "paths" \in pages THEN AliasLists ELSE {aliases})
         /\ ftp' \in [Sessions -> UNION {KeptSession(ftp[s], users', aliases') : s \in Sessions}]
         /\ \A s \in Sessions : ftp'[s] \in KeptSession(ftp[s], users', aliases')
         /\ pages' = {} /\ UNCHANGED Tree
<1>1. PICK userList \in (IF "users" \in pages THEN UserLists ELSE {users}),
           aliasList \in (IF "paths" \in pages THEN AliasLists ELSE {aliases}) :
        /\ users' = userList /\ aliases' = aliasList
        /\ ftp' \in [Sessions -> UNION {KeptSession(ftp[s], userList, aliasList) : s \in Sessions}]
        /\ \A s \in Sessions : ftp'[s] \in KeptSession(ftp[s], userList, aliasList)
  BY DEF Use
<1> QED  BY <1>1 DEF Use

LEMMA UseStep ==
  ASSUME SessionInv, Use
  PROVE  SessionInv'
<1>1. /\ users' \in UserLists /\ aliases' \in AliasLists /\ pages' = {}
      /\ "users" \notin pages => users' = users
      /\ "paths" \notin pages => aliases' = aliases
  BY UseMeans DEF SessionInv
<1>2. /\ ftp' \in [Sessions -> UNION {KeptSession(ftp[s], users', aliases') : s \in Sessions}]
      /\ \A s \in Sessions : ftp'[s] \in KeptSession(ftp[s], users', aliases')
  BY UseMeans
<1>3. \A s \in Sessions : ftp[s] \in Session /\ SessionOK(ftp[s], users, aliases)
  BY DEF SessionInv
<1>4. ASSUME NEW s \in Sessions
      PROVE  ftp'[s] \in Session /\ SessionOK(ftp'[s], users', aliases')
  <2>1. ftp'[s] \in KeptSession(ftp[s], users', aliases')
    BY <1>2
  <2>2. ftp[s] \in Session /\ SessionOK(ftp[s], users, aliases)
    BY <1>3
  <2> QED  BY <1>1, <2>1, <2>2, KeptOK
<1>5. ftp' \in [Sessions -> Session]
  BY <1>2, <1>4
<1> QED  BY <1>1, <1>4, <1>5 DEF SessionInv

-----------------------------------------------------------------------------
(* Every step *)

(* Only the file names of a session change. *)
LEMMA NamesStep ==
  ASSUME SessionInv, NEW s \in Sessions, NEW n \in Seq(Args),
         ftp' = [ftp EXCEPT ![s].filename = n], UNCHANGED Lists
  PROVE  SessionInv'
<1> DEFINE f == [ftp[s] EXCEPT !.filename = n]
<1>1. ftp[s] \in Session /\ SessionOK(ftp[s], users, aliases)
  BY DEF SessionInv
<1>2. ftp' = [ftp EXCEPT ![s] = f]
  OBVIOUS
<1>3. f \in Session
  BY <1>1 DEF Session
<1>4. /\ f.on = ftp[s].on /\ f.online = ftp[s].online /\ f.quit = ftp[s].quit
      /\ f.user = ftp[s].user /\ f.access = ftp[s].access /\ f.path = ftp[s].path
      /\ f.cd = ftp[s].cd /\ f.moved = ftp[s].moved
  BY <1>1 DEF Session
<1> HIDE DEF f
<1>5. SessionOK(f, users, aliases)
  BY <1>1, <1>4 DEF SessionOK, Agrees
<1> QED  BY <1>2, <1>3, <1>5, OneSession

LEMMA UserStep ==
  ASSUME SessionInv, KickedServed = FALSE, NEW s \in Sessions, UserCommand(s)
  PROVE  SessionInv'
<1>1. ftp[s] \in Session /\ SessionOK(ftp[s], users, aliases) /\ UNCHANGED Lists
  BY DEF SessionInv, UserCommand
<1>2. PICK u \in {Unknown} \cup DOMAIN users : ftp' = [ftp EXCEPT ![s].user = u, ![s].moved = FALSE]
  BY DEF UserCommand
<1>3. DOMAIN users = 1..Len(users)
  BY ListTypes DEF SessionInv
<1>4. u \in Int /\ u # Null /\ u # Freed
  BY <1>2, <1>3 DEF Unknown, Null, Freed
<1> DEFINE f == [ftp[s] EXCEPT !.user = u, !.moved = FALSE]
<1>5. ftp' = [ftp EXCEPT ![s] = f]
  BY <1>2
<1>6. f \in Session
  BY <1>1, <1>4 DEF Session
<1>7. /\ f.on = ftp[s].on /\ f.online = ftp[s].online /\ f.quit = ftp[s].quit
      /\ f.user = u /\ f.access = ftp[s].access /\ f.path = ftp[s].path
      /\ f.cd = ftp[s].cd /\ ~f.moved
  BY <1>1 DEF Session
<1> HIDE DEF f
<1>8. SessionOK(f, users, aliases)
  BY <1>1, <1>2, <1>4, <1>7 DEF SessionOK
<1> QED  BY <1>1, <1>5, <1>6, <1>8, OneSession

LEMMA ReinStep ==
  ASSUME SessionInv, NEW s \in Sessions, ReinCommand(s)
  PROVE  SessionInv'
<1>1. ftp[s] \in Session /\ SessionOK(ftp[s], users, aliases) /\ UNCHANGED Lists
  BY DEF SessionInv, ReinCommand
<1> DEFINE f == [ftp[s] EXCEPT !.user = Null, !.path = Nowhere, !.cd = <<>>,
                               !.filename = <<>>, !.online = FALSE, !.moved = FALSE]
<1>2. ftp' = [ftp EXCEPT ![s] = f]
  BY DEF ReinCommand
<1>3. Nowhere \in Seq(Words) /\ <<>> \in Seq(Words) /\ <<>> \in Seq(Args) /\ Null \in Int
  BY DEF Nowhere, Words, Null
<1>4. f \in Session
  BY <1>1, <1>3 DEF Session
<1>5. /\ f.on = ftp[s].on /\ ~f.online /\ f.quit = ftp[s].quit
      /\ f.user = Null /\ f.access = ftp[s].access /\ f.path = Nowhere
      /\ f.cd = <<>> /\ ~f.moved
  BY <1>1 DEF Session
<1> HIDE DEF f
<1>6. SessionOK(f, users, aliases)
  BY <1>1, <1>5 DEF SessionOK, Null, Freed
<1> QED  BY <1>1, <1>2, <1>4, <1>6, OneSession

LEMMA BlankStep ==
  ASSUME SessionInv, NEW s \in Sessions, NEW f \in {NoSession, [NoSession EXCEPT !.on = TRUE]},
         ftp' = [ftp EXCEPT ![s] = f], UNCHANGED Lists
  PROVE  SessionInv'
<1>1. NoSession \in Session
  BY DEF NoSession, Session, Null, Nowhere, Words
<1>2. /\ ~NoSession.online /\ ~NoSession.quit /\ ~NoSession.moved
      /\ NoSession.user = Null /\ NoSession.access = Null
      /\ NoSession.path = Nowhere /\ NoSession.cd = <<>>
  BY DEF NoSession
<1> DEFINE e == [NoSession EXCEPT !.on = TRUE]
<1>3. e \in Session
  BY <1>1 DEF Session
<1>4. /\ e.online = NoSession.online /\ e.quit = NoSession.quit /\ e.moved = NoSession.moved
      /\ e.user = NoSession.user /\ e.access = NoSession.access
      /\ e.path = NoSession.path /\ e.cd = NoSession.cd
  BY <1>1 DEF Session
<1> HIDE DEF e
<1>5. SessionOK(NoSession, users, aliases) /\ SessionOK(e, users, aliases)
  BY <1>2, <1>4 DEF SessionOK, Null, Freed
<1>6. f = NoSession \/ f = e
  BY DEF e
<1> QED  BY <1>1, <1>3, <1>5, <1>6, OneSession

(* Every step preserves the invariant. *)
LEMMA NextSessionInv ==
  ASSUME SessionInv, KickedServed = FALSE, [Next]_vars
  PROVE  SessionInv'
<1>1. ASSUME NEW s \in Sessions, NewFtp(s) PROVE SessionInv'
  BY <1>1, BlankStep DEF NewFtp
<1>2. ASSUME NEW s \in Sessions, FreeFtp(s) PROVE SessionInv'
  BY <1>2, BlankStep DEF FreeFtp
<1>3. ASSUME NEW s \in Sessions, CdupCommand(s) PROVE SessionInv'
  <2>1. ftp[s] \in Session /\ ftp[s].path \in Seq(Words)
    BY DEF SessionInv, Session
  <2>2. MayRun(s, {}) /\ ftp[s].online /\ UNCHANGED Lists
    BY <1>3 DEF CdupCommand, MayRun
  <2>3. Parent(ftp[s].path) \in Seq(Words)
    BY <2>1, ParentType
  <2>4. EntersNowhere(s) \/ Enters(s, Parent(ftp[s].path))
    BY <1>3 DEF CdupCommand
  <2> QED  BY <2>2, <2>3, <2>4, EntersStep, EntersNowhereStep
<1>4. ASSUME NEW s \in Sessions, CwdCommand(s) PROVE SessionInv'
  <2>1. ftp[s] \in Session /\ ftp[s].path \in Seq(Words)
    BY DEF SessionInv, Session
  <2>2. MayRun(s, {}) /\ ftp[s].online /\ UNCHANGED Lists
    BY <1>4 DEF CwdCommand, MayRun
  <2>3. PICK a \in Args : \E p \in AddPath(ftp[s].path, a) :
                            IF p = Nowhere THEN EntersNowhere(s) ELSE Enters(s, p)
    BY <1>4 DEF CwdCommand
  <2>4. PICK p \in AddPath(ftp[s].path, a) : IF p = Nowhere THEN EntersNowhere(s) ELSE Enters(s, p)
    BY <2>3
  <2>5. p \in Seq(Words)
    BY <2>1, ArgTypes, AddPathType
  <2>6. EntersNowhere(s) \/ Enters(s, p)
    BY <2>4
  <2> QED  BY <2>2, <2>5, <2>6, EntersStep, EntersNowhereStep
<1>5. ASSUME NEW s \in Sessions, StorCommand(s) \/ RetrCommand(s) \/ RnfrCommand(s)
      PROVE  SessionInv'
  <2>1. UNCHANGED Lists
    BY <1>5 DEF StorCommand, RetrCommand, RnfrCommand
  <2>2. \E n \in Seq(Args) : ftp' = [ftp EXCEPT ![s].filename = n]
    <3>1. \A a \in Args : <<a>> \in Seq(Args)
      OBVIOUS
    <3>2. <<>> \in Seq(Args)
      OBVIOUS
    <3>3. ASSUME NEW a \in Args, Transferred(s) \/ NotOpened(s, a)
          PROVE  \E n \in Seq(Args) : ftp' = [ftp EXCEPT ![s].filename = n]
      BY <3>1, <3>2, <3>3 DEF Transferred, NotOpened
    <3>4. CASE StorCommand(s)
      BY <3>3, <3>4 DEF StorCommand
    <3>5. CASE RetrCommand(s)
      BY <3>3, <3>5 DEF RetrCommand
    <3>6. CASE RnfrCommand(s)
      BY <3>1, <3>6 DEF RnfrCommand
    <3> QED  BY <3>4, <3>5, <3>6, <1>5
  <2> QED  BY <2>1, <2>2, NamesStep
<1>6. ASSUME ftp' = ftp, users' = users, aliases' = aliases, pages' \subseteq {"users", "paths"}
      PROVE  SessionInv'
  BY <1>6 DEF SessionInv
<1>7. ASSUME NEW s \in Sessions,
             DeleCommand(s) \/ RmdCommand(s) \/ MkdCommand(s) \/ RntoCommand(s)
      PROVE  SessionInv'
  <2>1. UNCHANGED <<Lists, ftp>>
    BY <1>7 DEF DeleCommand, RmdCommand, MkdCommand, RntoCommand
  <2> QED  BY <2>1, <1>6 DEF Lists, SessionInv
<1>8. CASE OpenPage \/ Cancel \/ UNCHANGED vars
  <2>1. users' = users /\ aliases' = aliases /\ ftp' = ftp
    BY <1>8 DEF OpenPage, Cancel, vars
  <2>2. pages' \subseteq {"users", "paths"}
    BY <1>8 DEF OpenPage, Cancel, vars, SessionInv
  <2> QED  BY <2>1, <2>2, <1>6
<1> QED  BY <1>1, <1>2, <1>3, <1>4, <1>5, <1>7, <1>8, UserStep, PassStep, ReinStep, UseStep
         DEF Next, Command

(* A file or a directory has one name, and is in a directory. *)
TreeOK(d, f) ==
  /\ d \cup f \subseteq Places \cup StartDirs /\ d \cap f = {}
  /\ InDirectories(d, f)
TreeInv == TreeOK(dirs, files)

(* What a command has the right to reach is reached. *)
LEMMA GrantedReaches ==
  ASSUME SessionInv, NEW s \in Sessions, NEW p \in Seq(Words), NEW n, Granted(s, p, n)
  PROVE  Reaches(s, PlaceOf(s, p), n)
<1> DEFINE i == Resolve(s, p)
           a == aliases[i].alias
           r == Rest(a, p)
           w == aliases[i].path
           v == IF w = <<>> /\ r # <<>> THEN CurrentDir ELSE w
           x == v \o r
<1>1. aliases \in Seq(Alias) /\ DOMAIN aliases = 1..Len(aliases)
  BY ListTypes DEF SessionInv
<1>2. i \in 1..Len(aliases) /\ StartsWith(a, p)
  BY <1>1, RealDirHolds DEF Granted, Resolve
<1>3. a \in Seq(Words) /\ w \in Seq(Words) /\ CurrentDir \in Seq(Words)
  BY <1>1, <1>2, AliasTypes DEF CurrentDir, Words
<1>4. PlaceOf(s, p) = x
  BY DEF PlaceOf, FilePath
<1>5. Holder(s) \cap Rights(aliases[i], n) # {}
  BY DEF Granted
<1> HIDE DEF a, w
<1>6. a \o r = p /\ r \in Seq(Words)
  <2>1. Len(a) <= Len(p)
    BY <1>2 DEF StartsWith
  <2> QED  BY <1>2, <1>3, <2>1, BeginningAndRest, RestMeans
<1>7. v \in Seq(Words)
  BY <1>3
<1> HIDE DEF v, r
<1>8. /\ x \in Seq(Words) /\ Len(x) = Len(v) + Len(r)
      /\ StartsWith(v, x) /\ Rest(v, x) = r
  BY <1>6, <1>7, JoinMeans, JoinBegins
<1>9. Len(v) \in 0..Len(x)
  BY <1>6, <1>7, <1>8
<1>10. SubSeq(x, Len(v) + 1, Len(x)) = r
  BY <1>8 DEF Rest
<1> HIDE DEF x
<1> DEFINE q == aliases[i].alias \o SubSeq(x, Len(v) + 1, Len(x))
<1>11. q = p
  BY <1>6, <1>10 DEF a
<1>12. i = Resolve(s, q) /\ FilePath(aliases, i, q) = x
  BY <1>4, <1>11 DEF PlaceOf
<1>13. Reaches(s, x, n)
  <2> HIDE DEF i
  <2> QED  BY <1>1, <1>2, <1>5, <1>9, <1>12 DEF Reaches
<1> QED  BY <1>4, <1>13

-----------------------------------------------------------------------------
(* The tree *)

LEMMA PlaceTypes ==
  \A x \in Places \cup StartDirs : x \in Seq(Words) /\ Len(x) \in Nat /\ Len(x) >= 1
<1> SUFFICES ASSUME NEW x \in Places \cup StartDirs
             PROVE  x \in Seq(Words) /\ Len(x) \in Nat /\ Len(x) >= 1
  OBVIOUS
<1>1. x \in Seq(Names \cup Volumes \cup {"current_dir"}) /\ x # <<>>
  BY DirectoriesAssumption DEF DirectoriesAssumption, Place
<1>2. (Names \cup Volumes \cup {"current_dir"}) \subseteq Words
  BY DEF Words
<1> QED  BY <1>1, <1>2

(* A beginning of a beginning. *)
LEMMA BeginningOfBeginning ==
  ASSUME NEW W, NEW x \in Seq(W), NEW m \in 0..Len(x), NEW n \in 0..m
  PROVE  SubSeq(SubSeq(x, 1, m), 1, n) = SubSeq(x, 1, n)
<1> DEFINE y == SubSeq(x, 1, m)
           z == SubSeq(y, 1, n)
           t == SubSeq(x, 1, n)
<1>1. Len(x) \in Nat /\ n \in 0..Len(x)
  OBVIOUS
<1>2. y \in Seq(W) /\ Len(y) = m /\ \A i \in 1..m : y[i] = x[i]
  BY BeginningOf
<1> HIDE DEF y
<1>3. z \in Seq(W) /\ Len(z) = n /\ \A i \in 1..n : z[i] = y[i]
  BY <1>2, BeginningOf
<1>4. t \in Seq(W) /\ Len(t) = n /\ \A i \in 1..n : t[i] = x[i]
  BY <1>1, BeginningOf
<1> HIDE DEF z, t
<1>5. \A i \in 1..n : z[i] = t[i]
  BY <1>1, <1>2, <1>3, <1>4
<1>6. z = t
  BY <1>3, <1>4, <1>5, SeqEqual
<1> QED  BY <1>6 DEF z, t, y

LEMMA ParentMeans ==
  ASSUME NEW x \in Seq(Words), Len(x) >= 1
  PROVE  /\ Parent(x) = SubSeq(x, 1, Len(x) - 1)
         /\ Parent(x) \in Seq(Words) /\ Len(Parent(x)) = Len(x) - 1
<1>1. x # Root /\ Len(x) - 1 \in 0..Len(x)
  BY DEF Root
<1>2. Parent(x) = SubSeq(x, 1, Len(x) - 1)
  BY <1>1 DEF Parent
<1> QED  BY <1>1, <1>2, BeginningOf

(* What may be made has all the directories above it. *)
LEMMA AboveNew ==
  ASSUME NEW d, NEW f, TreeOK(d, f), NEW x \in Seq(Words), Len(x) >= 1, Parent(x) \in d,
         NEW n \in 1..(Len(x) - 1)
  PROVE  SubSeq(x, 1, n) \in d
<1> DEFINE y == Parent(x)
<1>1. y = SubSeq(x, 1, Len(x) - 1) /\ y \in Seq(Words) /\ Len(y) = Len(x) - 1 /\ Len(x) \in Nat
  BY ParentMeans
<1>2. CASE n = Len(x) - 1
  BY <1>1, <1>2
<1>3. CASE n # Len(x) - 1
  <2>1. n \in 1..(Len(y) - 1)
    BY <1>1, <1>3
  <2>2. SubSeq(y, 1, n) \in d
    BY <2>1 DEF TreeOK, InDirectories
  <2>3. SubSeq(y, 1, n) = SubSeq(x, 1, n)
    <3>1. Len(x) - 1 \in 0..Len(x) /\ n \in 0..(Len(x) - 1)
      BY <1>1
    <3> QED  BY <1>1, <3>1, BeginningOfBeginning
  <2> QED  BY <2>2, <2>3
<1> QED  BY <1>2, <1>3

(* Making and removing one thing keeps everything in a directory. *)
LEMMA MakeTree ==
  ASSUME TreeOK(dirs, files), NEW x, CanMake(x)
  PROVE  TreeOK(dirs \cup {x}, files) /\ TreeOK(dirs, files \cup {x})
<1>1. x \in Places /\ x \notin dirs /\ x \notin files /\ Parent(x) \in dirs
  BY DEF CanMake, Exists
<1>2. x \in Seq(Words) /\ Len(x) >= 1
  BY <1>1, PlaceTypes
<1>3. \A n \in 1..(Len(x) - 1) : SubSeq(x, 1, n) \in dirs
  BY <1>1, <1>2, AboveNew
<1> QED  BY <1>1, <1>3 DEF TreeOK, InDirectories

LEMMA RemoveTree ==
  ASSUME TreeOK(dirs, files), NEW x
  PROVE  /\ x \in files => TreeOK(dirs, files \ {x})
         /\ x \in dirs /\ Empty(x) => TreeOK(dirs \ {x}, files)
<1>1. x \in files => TreeOK(dirs, files \ {x})
  BY DEF TreeOK, InDirectories
<1>2. ASSUME x \in dirs, Empty(x) PROVE TreeOK(dirs \ {x}, files)
  <2>1. ASSUME NEW y \in dirs \cup files, NEW n \in 1..(Len(y) - 1)
        PROVE  SubSeq(y, 1, n) \in dirs \ {x}
    <3>1. y \in Seq(Words) /\ Len(y) \in Nat
      BY PlaceTypes DEF TreeOK
    <3>2. n \in 0..Len(y) /\ n # Len(y)
      BY <3>1
    <3>3. StartsWith(SubSeq(y, 1, n), y) /\ Len(SubSeq(y, 1, n)) = n
      BY <3>1, <3>2, BeginningOf
    <3>4. SubSeq(y, 1, n) # x
      BY <3>2, <3>3, <1>2 DEF Empty, Holds
    <3>5. SubSeq(y, 1, n) \in dirs
      BY DEF TreeOK, InDirectories
    <3> QED  BY <3>4, <3>5
  <2> QED  BY <2>1 DEF TreeOK, InDirectories
<1> QED  BY <1>1, <1>2

(* What RNTO asks of the two places. *)
Renames(from, to) ==
  /\ from \in dirs \cup files /\ CanMake(to) /\ Len(from) > 1 /\ ~Holds(from, to)
  /\ \A x \in dirs \cup files : Holds(from, x) => to \o Rest(from, x) \in Places

(* Nothing is below the new place yet; nothing is left at the old one. *)
LEMMA RenameApart ==
  ASSUME TreeOK(dirs, files), NEW from, NEW to, Renames(from, to)
  PROVE  /\ from \in Seq(Words) /\ to \in Seq(Words) /\ Len(to) >= 1
         /\ \A x \in dirs \cup files : x \in Seq(Words) /\ Len(x) \in Nat /\ ~Holds(to, x)
         /\ \A x \in dirs \cup files : Holds(from, x) =>
              /\ Rest(from, x) \in Seq(Words)
              /\ to \o Rest(from, x) \in Seq(Words)
              /\ Holds(to, to \o Rest(from, x))
              /\ Rest(to, to \o Rest(from, x)) = Rest(from, x)
              /\ from \o Rest(from, x) = x
              /\ ~Holds(from, to \o Rest(from, x))
<1>1. \A x \in dirs \cup files : x \in Seq(Words) /\ Len(x) \in Nat
  BY PlaceTypes DEF TreeOK
<1>2. /\ from \in Seq(Words) /\ Len(from) \in Nat
      /\ to \in Places /\ to \in Seq(Words) /\ Len(to) \in Nat /\ Len(to) >= 1
      /\ to \notin dirs \cup files
  BY <1>1, PlaceTypes DEF Renames, CanMake, Exists
<1>3. ASSUME NEW x \in dirs \cup files, Holds(to, x) PROVE FALSE
  <2>1. x \in Seq(Words) /\ Len(x) \in Nat /\ Len(to) <= Len(x)
    BY <1>1, <1>3 DEF Holds, StartsWith
  <2>2. SubSeq(x, 1, Len(to)) = to
    BY <1>3 DEF Holds, StartsWith
  <2>3. Len(to) # Len(x)
    BY <1>2, <1>3, <2>1, BeginningUnique DEF Holds
  <2>4. Len(to) \in 1..(Len(x) - 1)
    BY <1>2, <2>1, <2>3
  <2>5. to \in dirs
    BY <2>2, <2>4 DEF TreeOK, InDirectories
  <2> QED  BY <2>5, <1>2
<1>4. ASSUME NEW x \in dirs \cup files, Holds(from, x)
      PROVE  /\ Rest(from, x) \in Seq(Words)
             /\ to \o Rest(from, x) \in Seq(Words)
             /\ Holds(to, to \o Rest(from, x))
             /\ Rest(to, to \o Rest(from, x)) = Rest(from, x)
             /\ from \o Rest(from, x) = x
             /\ ~Holds(from, to \o Rest(from, x))
  <2> DEFINE r == Rest(from, x)
             y == to \o r
  <2>1. x \in Seq(Words) /\ Len(from) <= Len(x)
    BY <1>1, <1>4 DEF Holds, StartsWith
  <2>2. r \in Seq(Words) /\ from \o r = x
    BY <1>2, <1>4, <2>1, RestMeans, BeginningAndRest DEF Holds
  <2> HIDE DEF r
  <2>3. y \in Seq(Words) /\ StartsWith(to, y) /\ Rest(to, y) = r
    BY <1>2, <2>2, JoinMeans, JoinBegins
  <2> HIDE DEF y
  <2>4. ~StartsWith(from, y)
    <3> SUFFICES ASSUME StartsWith(from, y) PROVE FALSE
      OBVIOUS
    <3>1. CASE Len(from) <= Len(to)
      <4>1. StartsWith(from, to)
        BY <1>2, <2>3, <3>1, BeginningsNest
      <4> QED  BY <4>1 DEF Renames, Holds
    <3>2. CASE ~(Len(from) <= Len(to))
      <4>1. Len(to) <= Len(from)
        BY <1>2, <3>2
      <4>2. StartsWith(to, from)
        BY <1>2, <2>3, <4>1, BeginningsNest
      <4> QED  BY <4>2, <1>3 DEF Renames, Holds
    <3> QED  BY <3>1, <3>2
  <2> QED  BY <2>2, <2>3, <2>4 DEF Holds, r, y
<1> QED  BY <1>1, <1>2, <1>3, <1>4

(* A renamed set: what was not below `from', and what was, below `to'. *)
LEMMA RenamedMeans ==
  ASSUME NEW from, NEW to, NEW S
  PROVE  /\ \A y \in Renamed(from, to, S) :
              \/ y \in S /\ ~Holds(from, y)
              \/ \E x \in S : Holds(from, x) /\ y = to \o Rest(from, x)
         /\ \A x \in S : ~Holds(from, x) => x \in Renamed(from, to, S)
         /\ \A x \in S : Holds(from, x) => to \o Rest(from, x) \in Renamed(from, to, S)
<1>1. ASSUME NEW y \in Renamed(from, to, S)
      PROVE  \/ y \in S /\ ~Holds(from, y)
             \/ \E x \in S : Holds(from, x) /\ y = to \o Rest(from, x)
  <2>1. PICK x \in S : y = IF Holds(from, x) THEN to \o Rest(from, x) ELSE x
    BY DEF Renamed
  <2>2. CASE Holds(from, x)
    BY <2>1, <2>2
  <2>3. CASE ~Holds(from, x)
    BY <2>1, <2>3
  <2> QED  BY <2>2, <2>3
<1>2. ASSUME NEW x \in S
      PROVE  (IF Holds(from, x) THEN to \o Rest(from, x) ELSE x) \in Renamed(from, to, S)
  BY DEF Renamed
<1>3. ASSUME NEW x \in S, ~Holds(from, x) PROVE x \in Renamed(from, to, S)
  BY <1>2, <1>3
<1>4. ASSUME NEW x \in S, Holds(from, x) PROVE to \o Rest(from, x) \in Renamed(from, to, S)
  BY <1>2, <1>4
<1> QED  BY <1>1, <1>3, <1>4

(* JoinMeans for paths. *)
LEMMA JoinWords ==
  \A p, q \in Seq(Words) :
    /\ p \o q \in Seq(Words) /\ Len(p \o q) = Len(p) + Len(q)
    /\ \A i \in 1..Len(p) : (p \o q)[i] = p[i]
    /\ \A i \in 1..Len(q) : (p \o q)[Len(p) + i] = q[i]
<1> SUFFICES ASSUME NEW p \in Seq(Words), NEW q \in Seq(Words)
             PROVE  /\ p \o q \in Seq(Words) /\ Len(p \o q) = Len(p) + Len(q)
                    /\ \A i \in 1..Len(p) : (p \o q)[i] = p[i]
                    /\ \A i \in 1..Len(q) : (p \o q)[Len(p) + i] = q[i]
  OBVIOUS
<1> HIDE DEF Words
<1> QED  BY JoinMeans

(* So does a rename, with all that is below. *)
LEMMA RenameTree ==
  ASSUME TreeOK(dirs, files), NEW from, NEW to, Renames(from, to)
  PROVE  TreeOK(Renamed(from, to, dirs), Renamed(from, to, files))
<1> DEFINE D == Renamed(from, to, dirs)
           F == Renamed(from, to, files)
<1>1. /\ from \in Seq(Words) /\ to \in Seq(Words) /\ Len(to) >= 1
      /\ Len(from) \in Nat /\ Len(to) \in Nat
      /\ \A x \in dirs \cup files : x \in Seq(Words) /\ Len(x) \in Nat /\ ~Holds(to, x)
  BY RenameApart
<1>2. \A x \in dirs \cup files : Holds(from, x) =>
        /\ Rest(from, x) \in Seq(Words)
        /\ to \o Rest(from, x) \in Seq(Words)
        /\ Holds(to, to \o Rest(from, x))
        /\ Rest(to, to \o Rest(from, x)) = Rest(from, x)
        /\ from \o Rest(from, x) = x
  BY RenameApart
<1>3. ASSUME NEW y \in D \cup F
      PROVE  \/ y \in dirs \cup files /\ ~Holds(from, y)
             \/ \E x \in dirs \cup files : Holds(from, x) /\ y = to \o Rest(from, x)
  <2>1. CASE y \in D
    BY <2>1, RenamedMeans
  <2>2. CASE y \in F
    BY <2>2, RenamedMeans
  <2> QED  BY <2>1, <2>2
<1>4. D \cup F \subseteq Places \cup StartDirs
  <2> SUFFICES ASSUME NEW y \in D \cup F PROVE y \in Places \cup StartDirs
    OBVIOUS
  <2>1. CASE y \in dirs \cup files
    BY <2>1 DEF TreeOK
  <2>2. CASE \E x \in dirs \cup files : Holds(from, x) /\ y = to \o Rest(from, x)
    BY <2>2 DEF Renames
  <2> QED  BY <2>1, <2>2, <1>3
<1>5. ASSUME NEW y \in D, y \in F PROVE FALSE
  <2>1. CASE y \in dirs \cup files
    <3>1. ~Holds(to, y)
      BY <2>1, <1>1
    <3>2. ASSUME NEW x \in dirs \cup files, Holds(from, x), y = to \o Rest(from, x) PROVE FALSE
      BY <3>1, <3>2, <1>2
    <3>3. y \in dirs /\ y \in files
      BY <3>2, <1>5, RenamedMeans
    <3> QED  BY <3>3 DEF TreeOK
  <2>2. CASE y \notin dirs \cup files
    <3>1. PICK x1 \in dirs : Holds(from, x1) /\ y = to \o Rest(from, x1)
      BY <2>2, <1>5, RenamedMeans
    <3>2. PICK x2 \in files : Holds(from, x2) /\ y = to \o Rest(from, x2)
      BY <2>2, <1>5, RenamedMeans
    <3>3. Rest(to, y) = Rest(from, x1) /\ Rest(to, y) = Rest(from, x2)
      BY <3>1, <3>2, <1>2
    <3>4. x1 = from \o Rest(to, y) /\ x2 = from \o Rest(to, y)
      BY <3>1, <3>2, <3>3, <1>2
    <3> QED  BY <3>4 DEF TreeOK
  <2> QED  BY <2>1, <2>2
<1>6. ASSUME NEW y \in D \cup F, NEW n \in 1..(Len(y) - 1)
      PROVE  SubSeq(y, 1, n) \in D
  <2> DEFINE h == SubSeq(y, 1, n)
  <2>1. ASSUME y \in dirs \cup files, ~Holds(from, y) PROVE h \in D
    <3>1. y \in Seq(Words) /\ n \in 0..Len(y)
      BY <2>1, <1>1
    <3>2. h \in Seq(Words) /\ StartsWith(h, y)
      BY <3>1, BeginningOf
    <3>3. h \in dirs
      BY <2>1 DEF TreeOK, InDirectories
    <3> HIDE DEF h
    <3>4. ~Holds(from, h)
      BY <2>1, <3>1, <3>2, <1>1, BeginningTransitive DEF Holds
    <3>5. h \in D
      BY <3>3, <3>4, RenamedMeans
    <3> QED  BY <3>5
  <2>2. ASSUME NEW x \in dirs \cup files, Holds(from, x), y = to \o Rest(from, x)
        PROVE  h \in D
    <3> DEFINE r == Rest(from, x)
    <3>1. /\ x \in Seq(Words) /\ Len(x) \in Nat /\ r \in Seq(Words) /\ from \o r = x
          /\ y \in Seq(Words) /\ StartsWith(to, y) /\ Rest(to, y) = r
      BY <2>2, <1>1, <1>2 DEF Holds
    <3>2. y = to \o r
      BY <2>2
    <3> HIDE DEF r
    <3>3. /\ Len(y) = Len(to) + Len(r) /\ Len(x) = Len(from) + Len(r) /\ Len(r) \in Nat
          /\ \A i \in 1..Len(to) : y[i] = to[i]
          /\ \A i \in 1..Len(r) : y[Len(to) + i] = r[i]
          /\ \A i \in 1..Len(from) : x[i] = from[i]
          /\ \A i \in 1..Len(r) : x[Len(from) + i] = r[i]
      BY <3>1, <3>2, <1>1, JoinMeans
    <3>4. n \in 0..Len(y) /\ n \in Nat
      BY <3>3, <1>1
    <3>5. h \in Seq(Words) /\ Len(h) = n /\ StartsWith(h, y) /\ \A i \in 1..n : h[i] = y[i]
      BY <3>1, <3>4, BeginningOf
    <3>6. CASE n < Len(to)
      <4>1. n \in 1..(Len(to) - 1)
        BY <3>6, <1>1
      <4>2. SubSeq(to, 1, n) \in dirs
        BY <4>1, <1>1, AboveNew DEF Renames, CanMake
      <4>3. n \in 0..Len(to)
        BY <4>1, <1>1
      <4>4. /\ SubSeq(to, 1, n) \in Seq(Words) /\ Len(SubSeq(to, 1, n)) = n
            /\ \A i \in 1..n : SubSeq(to, 1, n)[i] = to[i]
            /\ StartsWith(SubSeq(to, 1, n), to)
        BY <4>3, <1>1, BeginningOf
      <4> DEFINE t == SubSeq(to, 1, n)
      <4> HIDE DEF h, t
      <4>5. \A i \in 1..n : h[i] = t[i]
        BY <3>3, <3>5, <4>3, <4>4, <1>1 DEF t
      <4>6. h = t
        BY <3>5, <4>4, <4>5, SeqEqual DEF t
      <4>7. ~Holds(from, t)
        BY <4>4, <1>1, BeginningTransitive DEF Renames, Holds, t
      <4>8. t \in dirs
        BY <4>2 DEF t
      <4> QED  BY <4>6, <4>7, <4>8, RenamedMeans
    <3>7. CASE ~(n < Len(to))
      <4> DEFINE m == Len(from) + (n - Len(to))
                 z == SubSeq(x, 1, m)
      <4>1. m \in 1..(Len(x) - 1) /\ m \in 0..Len(x) /\ Len(from) <= m /\ m \in Nat
        <5>1. Len(from) > 1
          BY DEF Renames
        <5> QED  BY <5>1, <3>3, <3>4, <3>7, <1>1
      <4>2. z \in dirs
        <5> HIDE DEF m
        <5> QED  BY <4>1 DEF TreeOK, InDirectories
      <4>3. z \in Seq(Words) /\ Len(z) = m /\ \A i \in 1..m : z[i] = x[i]
        <5> HIDE DEF m
        <5> QED  BY <4>1, <3>1, BeginningOf
      <4> HIDE DEF z, h
      <4>4. StartsWith(from, z)
        <5>1. \A i \in 1..Len(from) : z[i] = from[i]
          <6> HIDE DEF m
          <6> QED  BY <3>3, <4>1, <4>3, <1>1
        <5> HIDE DEF m
        <5> QED  BY <5>1, <4>1, <4>3, <1>1, BeginningMeans
      <4> DEFINE e == Rest(from, z)
                 k == to \o e
      <4>5. e \in Seq(Words) /\ Len(e) = m - Len(from)
            /\ \A i \in 1..(m - Len(from)) : e[i] = z[Len(from) + i]
        <5> HIDE DEF m
        <5> QED  BY <4>1, <4>3, <1>1, RestMeans
      <4> HIDE DEF e, k
      <4>6. /\ to \o e \in Seq(Words) /\ Len(to \o e) = Len(to) + Len(e)
            /\ \A i \in 1..Len(to) : (to \o e)[i] = to[i]
            /\ \A i \in 1..Len(e) : (to \o e)[Len(to) + i] = e[i]
        <5>1. e \in Seq(Words) /\ to \in Seq(Words)
          BY <4>5, <1>1
        <5> HIDE DEF z, m, h, r
        <5> QED  BY <5>1, JoinWords, Zenon
      <4>10. /\ k \in Seq(Words) /\ Len(k) = Len(to) + Len(e)
             /\ \A i \in 1..Len(to) : k[i] = to[i]
             /\ \A i \in 1..Len(e) : k[Len(to) + i] = e[i]
        BY <4>6, Zenon DEF k
      <4>7. Len(e) = n - Len(to) /\ Len(k) = n
        BY <4>5, <4>10, <3>4, <1>1
      <4>8. ASSUME NEW i \in 1..n PROVE h[i] = k[i]
        <5>1. CASE i <= Len(to)
          <6>1. i \in 1..Len(to)
            BY <5>1, <1>1
          <6> QED  BY <6>1, <3>3, <3>5, <4>10
        <5>2. CASE ~(i <= Len(to))
          <6> DEFINE j == i - Len(to)
          <6>1. /\ j \in 1..Len(e) /\ j \in 1..Len(r) /\ j \in 1..(m - Len(from))
                /\ Len(to) + j = i /\ Len(from) + j \in 1..m
            BY <5>2, <4>7, <3>3, <3>4, <1>1
          <6> HIDE DEF j, m
          <6>2. h[i] = r[j]
            BY <6>1, <3>3, <3>5
          <6>3. k[i] = e[j] /\ e[j] = z[Len(from) + j] /\ z[Len(from) + j] = x[Len(from) + j]
            <7>1. k[Len(to) + j] = e[j]
              BY <6>1, <4>10
            <7>2. e[j] = z[Len(from) + j]
              BY <6>1, <4>5
            <7>3. z[Len(from) + j] = x[Len(from) + j]
              BY <6>1, <4>3
            <7> QED  BY <7>1, <7>2, <7>3, <6>1
          <6>4. x[Len(from) + j] = r[j]
            BY <6>1, <3>3
          <6> QED  BY <6>2, <6>3, <6>4
        <5> QED  BY <5>1, <5>2
      <4>9. h = k
        BY <3>5, <4>10, <4>7, <4>8, SeqEqual
      <4> QED  BY <4>2, <4>4, <4>9, RenamedMeans DEF Holds, k, e
    <3> QED  BY <3>6, <3>7
  <2> HIDE DEF h
  <2>3. h \in D
    <3> HIDE DEF D, F
    <3>1. CASE y \in dirs \cup files /\ ~Holds(from, y)
      BY <3>1, <2>1
    <3>2. CASE \E x \in dirs \cup files : Holds(from, x) /\ y = to \o Rest(from, x)
      BY <3>2, <2>2
    <3> QED  BY <3>1, <3>2, <1>3
  <2> QED  BY <2>3 DEF h
<1> HIDE DEF D, F
<1> QED  BY <1>4, <1>5, <1>6 DEF TreeOK, InDirectories, D, F

LEMMA AddPartType ==
  ASSUME NEW to \in Seq(Words), NEW a, NEW p \in AddPart(to, a), a.names \in Seq(Words)
  PROVE  p \in Seq(Words)
<1>1. Nowhere \in Seq(Words)
  BY DEF Nowhere, Words
<1>2. Nowhere \o a.names \in Seq(Words) /\ to \o a.names \in Seq(Words)
  BY <1>1, JoinWords
<1>3. CASE a.from = "here"
  <2>1. AddPart(to, a) = {IF to = Nowhere THEN Nowhere \o a.names ELSE to \o a.names}
    BY <1>3 DEF AddPart
  <2> QED  BY <2>1, <1>2
<1>4. CASE a.from # "here"
  <2>1. AddPart(to, a) = {IF to = Nowhere THEN a.names ELSE Nowhere}
    BY <1>4 DEF AddPart
  <2> QED  BY <2>1, <1>1
<1> QED  BY <1>3, <1>4

(* The names that a command makes of its argument, and that RNTO makes of the
   argument RNFR left. *)
LEMMA NameTypes ==
  ASSUME SessionInv, NEW s \in Sessions
  PROVE  /\ \A a \in Args : \A p \in AddPath(ftp[s].path, a) \cup AddPart(ftp[s].path, a) :
              p \in Seq(Words)
         /\ \A p \in AddPath(ftp[s].path, Remembered(s)) : p \in Seq(Words)
<1>1. ftp[s].path \in Seq(Words) /\ ftp[s].filename \in Seq(Args)
  BY DEF SessionInv, Session
<1>2. \A a \in Args : \A p \in AddPath(ftp[s].path, a) \cup AddPart(ftp[s].path, a) :
         p \in Seq(Words)
  BY <1>1, ArgTypes, AddPathType, AddPartType
<1>3. Here(<<>>).from \in {"here", "root", "colon"} /\ Here(<<>>).names \in Seq(Words)
  BY DEF Here
<1>4. Remembered(s).from \in {"here", "root", "colon"} /\ Remembered(s).names \in Seq(Words)
  <2>1. CASE ftp[s].filename = <<>>
    BY <2>1, <1>3 DEF Remembered
  <2>2. CASE ftp[s].filename # <<>>
    <3>1. ftp[s].filename[1] \in Args
      BY <2>2, <1>1
    <3>2. Remembered(s) = ftp[s].filename[1]
      BY <2>2 DEF Remembered
    <3> QED  BY <3>1, <3>2, ArgTypes
  <2> QED  BY <2>1, <2>2
<1>5. \A p \in AddPath(ftp[s].path, Remembered(s)) : p \in Seq(Words)
  BY <1>1, <1>4, AddPathType
<1> QED  BY <1>2, <1>5

(* What a step may do to the tree: remove one file or empty directory, make
   one, or move one. *)
Removes(s, x) ==
  /\ Reaches(s, x, "delete")
  /\ \/ x \in files /\ files' = files \ {x} /\ dirs' = dirs
     \/ x \in dirs /\ Empty(x) /\ dirs' = dirs \ {x} /\ files' = files
Makes(s, x) ==
  /\ Reaches(s, x, "write") /\ CanMake(x)
  /\ \/ files' = files \cup {x} /\ dirs' = dirs
     \/ dirs' = dirs \cup {x} /\ files' = files
Moves(s, from, to) ==
  /\ Reaches(s, from, "delete") /\ Reaches(s, to, "delete")
  /\ Renames(from, to)
  /\ dirs' = Renamed(from, to, dirs) /\ files' = Renamed(from, to, files)

ChangesTree(s) ==
  /\ ftp[s].online /\ ~ftp[s].quit
  /\ \/ \E x : Removes(s, x)
     \/ \E x : Makes(s, x)
     \/ \E from, to : Moves(s, from, to)

(* Each step that changes the tree is one of these, by a session that is logged
   in and has the right. *)
LEMMA StepsOfTree ==
  ASSUME SessionInv, KickedServed = FALSE, [Next]_vars
  PROVE  UNCHANGED Tree \/ \E s \in Sessions : ChangesTree(s)
<1>1. ASSUME NEW s \in Sessions, DeleCommand(s) PROVE ChangesTree(s)
  <2>0. PICK a \in Args : \E p \in AddPath(ftp[s].path, a) :
          /\ Granted(s, p, "delete") /\ PlaceOf(s, p) \in files
          /\ files' = files \ {PlaceOf(s, p)}
    BY <1>1 DEF DeleCommand
  <2>1. PICK p \in AddPath(ftp[s].path, a) :
          /\ Granted(s, p, "delete") /\ PlaceOf(s, p) \in files
          /\ files' = files \ {PlaceOf(s, p)}
    BY <2>0
  <2>2. p \in Seq(Words)
    BY NameTypes
  <2>3. Reaches(s, PlaceOf(s, p), "delete")
    BY <2>1, <2>2, GrantedReaches
  <2>4. Removes(s, PlaceOf(s, p))
    BY <1>1, <2>1, <2>3 DEF Removes, DeleCommand
  <2> QED  BY <1>1, <2>4 DEF ChangesTree, DeleCommand, MayRun, Served, SessionInv, SessionOK
<1>2. ASSUME NEW s \in Sessions, RmdCommand(s) PROVE ChangesTree(s)
  <2>0. PICK a \in Args : \E p \in AddPath(ftp[s].path, a) :
          /\ Granted(s, p, "delete") /\ PlaceOf(s, p) \in dirs /\ Empty(PlaceOf(s, p))
          /\ dirs' = dirs \ {PlaceOf(s, p)}
    BY <1>2 DEF RmdCommand
  <2>1. PICK p \in AddPath(ftp[s].path, a) :
          /\ Granted(s, p, "delete") /\ PlaceOf(s, p) \in dirs /\ Empty(PlaceOf(s, p))
          /\ dirs' = dirs \ {PlaceOf(s, p)}
    BY <2>0
  <2>2. p \in Seq(Words)
    BY NameTypes
  <2>3. Reaches(s, PlaceOf(s, p), "delete")
    BY <2>1, <2>2, GrantedReaches
  <2>4. Removes(s, PlaceOf(s, p))
    BY <1>2, <2>1, <2>3 DEF Removes, RmdCommand
  <2> QED  BY <1>2, <2>4 DEF ChangesTree, RmdCommand, MayRun, Served, SessionInv, SessionOK
<1>3. ASSUME NEW s \in Sessions, MkdCommand(s) PROVE ChangesTree(s)
  <2>0. PICK a \in Args : \E p \in AddPath(ftp[s].path, a) :
          /\ Granted(s, p, "write") /\ CanMake(PlaceOf(s, p))
          /\ dirs' = dirs \cup {PlaceOf(s, p)}
    BY <1>3 DEF MkdCommand
  <2>1. PICK p \in AddPath(ftp[s].path, a) :
          /\ Granted(s, p, "write") /\ CanMake(PlaceOf(s, p))
          /\ dirs' = dirs \cup {PlaceOf(s, p)}
    BY <2>0
  <2>2. p \in Seq(Words)
    BY NameTypes
  <2>3. Reaches(s, PlaceOf(s, p), "write")
    BY <2>1, <2>2, GrantedReaches
  <2>4. Makes(s, PlaceOf(s, p))
    BY <1>3, <2>1, <2>3 DEF Makes, MkdCommand
  <2> QED  BY <1>3, <2>4 DEF ChangesTree, MkdCommand, MayRun, Served, SessionInv, SessionOK
<1>4. ASSUME NEW s \in Sessions, StorCommand(s) PROVE UNCHANGED Tree \/ ChangesTree(s)
  <2>0. PICK a \in Args : \E p \in AddPath(ftp[s].path, a) :
          /\ Granted(s, p, "write")
          /\ \/ /\ PlaceOf(s, p) \in files \/ CanMake(PlaceOf(s, p))
                /\ files' = files \cup {PlaceOf(s, p)}
             \/ UNCHANGED files
    BY <1>4 DEF StorCommand
  <2>1. PICK p \in AddPath(ftp[s].path, a) :
          /\ Granted(s, p, "write")
          /\ \/ /\ PlaceOf(s, p) \in files \/ CanMake(PlaceOf(s, p))
                /\ files' = files \cup {PlaceOf(s, p)}
             \/ UNCHANGED files
    BY <2>0
  <2>2. p \in Seq(Words)
    BY NameTypes
  <2>3. Reaches(s, PlaceOf(s, p), "write")
    BY <2>1, <2>2, GrantedReaches
  <2>4. dirs' = dirs
    BY <1>4 DEF StorCommand
  <2>5. CASE CanMake(PlaceOf(s, p)) /\ files' = files \cup {PlaceOf(s, p)}
    <3>1. Makes(s, PlaceOf(s, p))
      BY <2>3, <2>4, <2>5 DEF Makes
    <3> QED  BY <1>4, <3>1 DEF ChangesTree, StorCommand, MayRun, Served, SessionInv, SessionOK
  <2>6. CASE files' = files \/ (PlaceOf(s, p) \in files /\ files' = files \cup {PlaceOf(s, p)})
    BY <2>4, <2>6 DEF Tree
  <2> QED  BY <2>1, <2>5, <2>6
<1>5. ASSUME NEW s \in Sessions, RntoCommand(s) PROVE ChangesTree(s)
  <2>1. PICK p \in AddPath(ftp[s].path, Remembered(s)),
             q \in UNION {AddPart(ftp[s].path, a) : a \in Args} :
          /\ Granted(s, p, "delete") /\ Granted(s, q, "delete")
          /\ \E from \in {PlaceOf(s, p)}, to \in {PlaceOf(s, q)} :
               /\ Exists(from) /\ CanMake(to) /\ Len(from) > 1 /\ ~Holds(from, to)
               /\ \A x \in dirs \cup files : Holds(from, x) => to \o Rest(from, x) \in Places
               /\ dirs' = Renamed(from, to, dirs) /\ files' = Renamed(from, to, files)
    BY <1>5 DEF RntoCommand
  <2>2. PICK a \in Args : q \in AddPart(ftp[s].path, a)
    BY <2>1
  <2>3. p \in Seq(Words) /\ q \in Seq(Words)
    BY <2>2, NameTypes
  <2> DEFINE from == PlaceOf(s, p)
             to == PlaceOf(s, q)
  <2>4. Reaches(s, from, "delete") /\ Reaches(s, to, "delete")
    BY <2>1, <2>3, GrantedReaches
  <2>5. /\ Exists(from) /\ CanMake(to) /\ Len(from) > 1 /\ ~Holds(from, to)
        /\ \A x \in dirs \cup files : Holds(from, x) => to \o Rest(from, x) \in Places
        /\ dirs' = Renamed(from, to, dirs) /\ files' = Renamed(from, to, files)
    BY <2>1
  <2> HIDE DEF from, to
  <2>6. Moves(s, from, to)
    BY <2>4, <2>5 DEF Moves, Renames, Exists
  <2> QED  BY <1>5, <2>6 DEF ChangesTree, RntoCommand, MayRun, Served, SessionInv, SessionOK
<1>6. ASSUME NEW s \in Sessions, NewFtp(s) \/ FreeFtp(s) PROVE UNCHANGED Tree
  BY <1>6 DEF NewFtp, FreeFtp
<1>7. ASSUME NEW s \in Sessions,
             \/ UserCommand(s) \/ PassCommand(s) \/ ReinCommand(s) \/ CwdCommand(s)
             \/ CdupCommand(s) \/ RetrCommand(s) \/ RnfrCommand(s)
      PROVE  UNCHANGED Tree
  BY <1>7 DEF UserCommand, PassCommand, ReinCommand, CwdCommand, CdupCommand, RetrCommand, RnfrCommand
<1>8. CASE OpenPage \/ Cancel \/ Use
  BY <1>8 DEF OpenPage, Cancel, Use
<1>9. CASE UNCHANGED vars
  BY <1>9 DEF vars, Tree
<1> QED  BY <1>1, <1>2, <1>3, <1>4, <1>5, <1>6, <1>7, <1>8, <1>9 DEF Next, Command

(* Every step keeps everything in a directory. *)
LEMMA NextTree ==
  ASSUME SessionInv, TreeOK(dirs, files), KickedServed = FALSE, [Next]_vars
  PROVE  TreeOK(dirs', files')
<1>1. CASE UNCHANGED Tree
  BY <1>1 DEF Tree, TreeOK, InDirectories
<1>2. ASSUME NEW s \in Sessions, ChangesTree(s) PROVE TreeOK(dirs', files')
  <2>1. ASSUME NEW x, Removes(s, x) PROVE TreeOK(dirs', files')
    BY <2>1, RemoveTree DEF Removes
  <2>2. ASSUME NEW x, Makes(s, x) PROVE TreeOK(dirs', files')
    BY <2>2, MakeTree DEF Makes
  <2>3. ASSUME NEW from, NEW to, Moves(s, from, to) PROVE TreeOK(dirs', files')
    BY <2>3, RenameTree DEF Moves
  <2> QED  BY <1>2, <2>1, <2>2, <2>3 DEF ChangesTree
<1> QED  BY <1>1, <1>2, StepsOfTree

(* What is below d, and is not d, is in a directory that is at or below d. *)
LEMMA Above ==
  ASSUME NEW d \in Seq(Words), NEW x \in Seq(Words), Holds(d, x), d # x
  PROVE  /\ Len(x) > Len(d) /\ Len(d) \in Nat /\ Len(x) \in Nat
         /\ Parent(x) = SubSeq(x, 1, Len(x) - 1) /\ Holds(d, Parent(x))
<1>1. Len(d) \in Nat /\ Len(x) \in Nat /\ Len(d) <= Len(x)
  BY DEF Holds, StartsWith
<1>2. Len(d) # Len(x)
  BY BeginningUnique DEF Holds
<1>3. Len(x) >= 1 /\ Len(x) - 1 \in 0..Len(x) /\ Len(d) <= Len(x) - 1
  BY <1>1, <1>2
<1>4. Parent(x) = SubSeq(x, 1, Len(x) - 1) /\ Parent(x) \in Seq(Words) /\ Len(Parent(x)) = Len(x) - 1
  BY <1>3, ParentMeans
<1>5. StartsWith(Parent(x), x)
  BY <1>3, <1>4, BeginningOf
<1>6. Holds(d, Parent(x))
  BY <1>3, <1>4, <1>5, BeginningsNest DEF Holds
<1> QED  BY <1>1, <1>2, <1>4, <1>6

Gone == (dirs \cup files) \ (dirs' \cup files')
New == (dirs' \cup files') \ (dirs \cup files)
Top(S) == {x \in S : Parent(x) \notin S}

(* A rename takes away what was at and below the one place, and brings it to
   the other. *)
LEMMA MoveTops ==
  ASSUME TreeOK(dirs, files), TreeOK(dirs', files'), NEW from, NEW to, Renames(from, to),
         dirs' = Renamed(from, to, dirs), files' = Renamed(from, to, files)
  PROVE  from \in Gone /\ Top(Gone) \subseteq {from} /\ Top(New) \subseteq {to}
<1>1. /\ from \in Seq(Words) /\ to \in Seq(Words) /\ Len(to) >= 1
      /\ \A x \in dirs \cup files : x \in Seq(Words) /\ Len(x) \in Nat /\ ~Holds(to, x)
      /\ \A x \in dirs \cup files : Holds(from, x) =>
              /\ Rest(from, x) \in Seq(Words)
              /\ to \o Rest(from, x) \in Seq(Words)
              /\ Holds(to, to \o Rest(from, x))
              /\ ~Holds(from, to \o Rest(from, x))
  BY RenameApart
<1>2. \A y \in dirs' \cup files' :
        \/ y \in dirs \cup files /\ ~Holds(from, y)
        \/ \E x \in dirs \cup files : Holds(from, x) /\ y = to \o Rest(from, x)
  BY RenamedMeans
<1>3. ASSUME NEW y \in dirs' \cup files'
      PROVE  ~Holds(from, y) /\ (y \notin dirs \cup files => y \in Seq(Words) /\ Holds(to, y))
  <2>1. CASE y \in dirs \cup files /\ ~Holds(from, y)
    BY <2>1
  <2>2. ASSUME NEW x \in dirs \cup files, Holds(from, x), y = to \o Rest(from, x)
        PROVE  ~Holds(from, y) /\ y \in Seq(Words) /\ Holds(to, y)
    BY <2>2, <1>1
  <2>3. \/ y \in dirs \cup files /\ ~Holds(from, y)
        \/ \E x \in dirs \cup files : Holds(from, x) /\ y = to \o Rest(from, x)
    BY <1>2
  <2> QED  BY <2>1, <2>2, <2>3
<1>4. \A x \in dirs \cup files : ~Holds(from, x) => x \in dirs' \cup files'
  BY RenamedMeans
<1>5. from \in Gone
  <2>1. Holds(from, from)
    BY <1>1 DEF Holds, StartsWith
  <2> QED  BY <2>1, <1>3 DEF Gone, Renames
<1>6. ASSUME NEW x \in Top(Gone), x # from PROVE FALSE
  <2>1. x \in dirs \cup files /\ Holds(from, x) /\ Parent(x) \notin Gone
    BY <1>6, <1>4 DEF Top, Gone
  <2>2. /\ Len(x) > Len(from) /\ Len(from) \in Nat /\ Len(x) \in Nat
        /\ Parent(x) = SubSeq(x, 1, Len(x) - 1) /\ Holds(from, Parent(x))
    BY <2>1, <1>1, <1>6, Above
  <2>3. Len(x) - 1 \in 1..(Len(x) - 1)
    BY <2>2 DEF Renames
  <2>4. Parent(x) \in dirs
    BY <2>1, <2>2, <2>3 DEF TreeOK, InDirectories
  <2>5. Parent(x) \in Gone
    BY <2>2, <2>4, <1>3 DEF Gone
  <2> QED  BY <2>1, <2>5
<1>7. ASSUME NEW y \in Top(New), y # to PROVE FALSE
  <2>1. y \in dirs' \cup files' /\ y \notin dirs \cup files /\ Parent(y) \notin New
    BY <1>7 DEF Top, New
  <2>2. y \in Seq(Words) /\ Holds(to, y)
    BY <2>1, <1>3
  <2>3. /\ Len(y) > Len(to) /\ Len(to) \in Nat /\ Len(y) \in Nat
        /\ Parent(y) = SubSeq(y, 1, Len(y) - 1) /\ Holds(to, Parent(y))
    BY <2>2, <1>1, <1>7, Above
  <2>4. Len(y) - 1 \in 1..(Len(y) - 1)
    BY <2>3, <1>1
  <2>5. Parent(y) \in dirs'
    BY <2>1, <2>3, <2>4 DEF TreeOK, InDirectories
  <2>6. Parent(y) \in New
    BY <2>3, <2>5, <1>1 DEF New
  <2> QED  BY <2>1, <2>6
<1> QED  BY <1>5, <1>6, <1>7

-----------------------------------------------------------------------------
(* The theorems *)

(* Both invariants hold, if a session that was told 421 gives no more commands: the
   select loop writes to it first, and then frees it. *)
LEMMA Invariant ==
  ASSUME KickedServed = FALSE
  PROVE  Spec => [](SessionInv /\ TreeInv)
<1>1. Init => SessionInv /\ TreeInv
  <2>1. Init => TreeInv
    BY DirectoriesAssumption DEF DirectoriesAssumption, Init, TreeInv, TreeOK
  <2> QED  BY <2>1, InitSessionInv
<1>2. SessionInv /\ TreeInv /\ [Next]_vars => (SessionInv /\ TreeInv)'
  BY NextSessionInv, NextTree DEF TreeInv
<1> QED  BY <1>1, <1>2, PTL DEF Spec

(* A session that is served never points to an account or an alias that
   GetUsers() or GetPath() freed. *)
THEOREM PointersValid ==
  ASSUME KickedServed = FALSE
  PROVE  Spec => []TypeOK
<1>1. SessionInv /\ TreeInv => TypeOK
  BY DEF SessionInv, SessionOK, TreeInv, TreeOK, TypeOK
<1> QED  BY <1>1, Invariant, PTL

(* ftpdata.access, ftpdata.path and ftpdata.cd are of one directory, from CWD,
   CDUP or PASS on until the lists or the account change. *)
THEOREM DirectoryRecordsAgree ==
  ASSUME KickedServed = FALSE
  PROVE  Spec => []DirectoryAgrees
<1>1. ASSUME SessionInv PROVE DirectoryAgrees
  <2>1. ASSUME NEW s \in Sessions, ftp[s].online /\ ftp[s].moved /\ ~ftp[s].quit
        PROVE  /\ ftp[s].access = Resolve(s, ftp[s].path)
               /\ ftp[s].cd = IF ftp[s].access = Null THEN <<>> ELSE PlaceOf(s, ftp[s].path)
    <3>1. Agrees(ftp[s], users, aliases)
      BY <2>1, <1>1 DEF SessionInv, SessionOK
    <3>2. /\ ftp[s].access = RealDir(aliases, GroupsOf(users, ftp[s].user), ftp[s].path)
          /\ ftp[s].cd = IF ftp[s].access = Null THEN <<>>
                         ELSE FilePath(aliases, ftp[s].access, ftp[s].path)
      BY <3>1 DEF Agrees
    <3> QED  BY <3>2 DEF Resolve, PlaceOf, Holder
  <2> QED  BY <2>1 DEF DirectoryAgrees
<1> QED  BY <1>1, Invariant, PTL

(* Whatever the sessions do, the lists are some the operator made. *)
LEMMA ListsTyped ==
  Spec => [](users \in UserLists /\ aliases \in AliasLists)
<1>1. Init => users \in UserLists /\ aliases \in AliasLists
  BY DEF Init
<1>2. ASSUME users \in UserLists /\ aliases \in AliasLists, [Next]_vars
      PROVE  (users \in UserLists /\ aliases \in AliasLists)'
  <2>1. CASE Use
    BY <2>1, <1>2, UseMeans
  <2>2. CASE OpenPage \/ Cancel \/ UNCHANGED vars
    BY <2>2, <1>2 DEF OpenPage, Cancel, vars
  <2>3. ASSUME NEW s \in Sessions, NewFtp(s) \/ FreeFtp(s) \/ Command(s)
        PROVE  UNCHANGED Lists
    BY <2>3 DEF Command, NewFtp, FreeFtp, UserCommand, PassCommand, ReinCommand, CwdCommand,
         CdupCommand, DeleCommand, RmdCommand, MkdCommand, StorCommand, RetrCommand,
         RnfrCommand, RntoCommand
  <2> QED  BY <1>2, <2>1, <2>2, <2>3 DEF Next, Lists
<1> QED  BY <1>1, <1>2, PTL DEF Spec

(* real_dir() finds the longest alias, in every list of aliases in any order, if
   none that holds the path is too deep above it; no assumption on sessions. *)
THEOREM LongestAliasFound ==
  Spec => []LongestAlias
<1>1. ASSUME users \in UserLists, aliases \in AliasLists PROVE LongestAlias
  <2>1. aliases \in Seq(Alias) /\ DOMAIN aliases = 1..Len(aliases)
    BY <1>1, ListTypes
  <2>2. ASSUME NEW u \in DOMAIN users, NEW p \in Paths, NEW i \in DOMAIN aliases,
               StartsWith(aliases[i].alias, p),
               \A j \in DOMAIN aliases : StartsWith(aliases[j].alias, p) =>
                 /\ ~TooDeep(aliases[j], users[u].groups, p)
                 /\ j # i => Len(aliases[j].alias) < Len(aliases[i].alias)
        PROVE  RealDir(aliases, users[u].groups, p) =
                 IF SomeRight(aliases[i], users[u].groups) THEN i ELSE 0
    <3> DEFINE groups == users[u].groups
               l == Lookup(aliases, groups, p)
    <3>1. l = i
      BY <2>1, <2>2, LookupLongest
    <3>2. p = Root \/ Head(p) # "nowhere"
      <4>1. PICK n \in 0..2 : p \in [1..n -> Names]
        BY DEF Paths
      <4>2. p \in Seq(Names) /\ (p = <<>> \/ p[1] \in Names)
        BY <4>1
      <4>3. CASE p # <<>>
        <5>1. Head(p) = p[1]
          BY <4>2, <4>3
        <5> QED  BY <5>1, <4>2, <4>3, PathAssumption DEF PathAssumption
      <4> QED  BY <4>3 DEF Root
    <3>3. i # 0
      BY <2>1
    <3> HIDE DEF l, groups
    <3>4. RealDir(aliases, groups, p) = IF l # 0 /\ SomeRight(aliases[l], groups) THEN l ELSE 0
      BY <3>2 DEF RealDir, l
    <3> QED  BY <3>1, <3>3, <3>4 DEF groups, SomeRight
  <2>3. ASSUME NEW u \in DOMAIN users, NEW p \in Paths
        PROVE  LET groups == users[u].groups
                   fits == {i \in DOMAIN aliases : StartsWith(aliases[i].alias, p)}
               IN \A i \in fits :
                    /\ \A j \in fits : ~TooDeep(aliases[j], groups, p)
                    /\ \A j \in fits \ {i} : Len(aliases[j].alias) < Len(aliases[i].alias)
                    => RealDir(aliases, groups, p) = IF SomeRight(aliases[i], groups) THEN i ELSE 0
    <3> DEFINE groups == users[u].groups
               fits == {i \in DOMAIN aliases : StartsWith(aliases[i].alias, p)}
    <3>1. ASSUME NEW i \in fits, \A j \in fits : ~TooDeep(aliases[j], groups, p),
                 \A j \in fits \ {i} : Len(aliases[j].alias) < Len(aliases[i].alias)
          PROVE  RealDir(aliases, groups, p) = IF SomeRight(aliases[i], groups) THEN i ELSE 0
      <4>1. i \in DOMAIN aliases /\ StartsWith(aliases[i].alias, p)
        OBVIOUS
      <4>2. \A j \in DOMAIN aliases : StartsWith(aliases[j].alias, p) =>
              /\ ~TooDeep(aliases[j], users[u].groups, p)
              /\ j # i => Len(aliases[j].alias) < Len(aliases[i].alias)
        BY <3>1
      <4> QED  BY <2>2, <4>1, <4>2
    <3> QED  BY <3>1
  <2> QED  BY <2>3 DEF LongestAlias
<1> QED  BY <1>1, ListsTyped, PTL

-----------------------------------------------------------------------------
(* What Use leaves, by its definition. *)
LEMMA UsedFacts ==
  ASSUME SessionInv, Use, NEW s \in Sessions
  PROVE  /\ users' \in UserLists /\ aliases' \in AliasLists
         /\ "users" \notin pages => users' = users
         /\ "paths" \notin pages => aliases' = aliases
         /\ ftp[s] \in Session /\ SessionOK(ftp[s], users, aliases)
         /\ ftp'[s] \in KeptSession(ftp[s], users', aliases')
BY UseMeans DEF SessionInv

(* Both properties of "Use", for one session f and what is left of it. *)
LEMMA KeptRight ==
  ASSUME SessionInv, NEW f \in Session, SessionOK(f, users, aliases), f.on,
         NEW list \in UserLists, NEW aliasList \in AliasLists,
         "users" \notin pages => list = users,
         "paths" \notin pages => aliasList = aliases,
         NEW g \in KeptSession(f, list, aliasList)
  PROVE  /\ ~g.quit =>
              /\ NameOf(list, g.user) = NameOf(users, f.user)
              /\ f.access # Null /\ "paths" \in pages =>
                   /\ aliasList[g.access].alias = aliases[f.access].alias
                   /\ f.user # Unknown => SomeRight(aliasList[g.access], GroupsOf(list, g.user))
         /\ ~f.quit /\ g.quit =>
              \/ f.user = Unknown
              \/ f.user # Null /\ NameOf(users, f.user) \notin {list[v].name : v \in DOMAIN list}
              \/ /\ f.access # Null
                 /\ \A j \in DOMAIN aliasList :
                      aliasList[j].alias = aliases[f.access].alias =>
                        ~SomeRight(aliasList[j], GroupsOf(list, g.user))
<1>0. PICK u, i, groups : KeptAs(f, list, aliasList, g, u, i, groups)
  BY KeptMeans
<1>1. /\ u = IF "users" \in pages THEN UserKept(list, f.user) ELSE f.user
      /\ u \notin {Unknown, Freed} => groups = GroupsOf(list, u)
      /\ i = IF "paths" \in pages THEN AliasKept(aliasList, f.access, groups) ELSE f.access
      /\ g = [f EXCEPT !.user = u, !.access = i, !.moved = FALSE,
                       !.quit = f.quit \/ (f.on /\ Freed \in {u, i})]
  BY <1>0 DEF KeptAs
<1>2. users \in UserLists /\ aliases \in AliasLists
  BY DEF SessionInv
<1>3. f.user \in {Null, Unknown, Freed} \cup DOMAIN users
      /\ f.access \in {Null, Freed} \cup DOMAIN aliases
      /\ (~f.quit => f.user # Freed /\ f.access # Freed)
  BY DEF SessionOK
<1>4. /\ DOMAIN users = 1..Len(users) /\ DOMAIN aliases = 1..Len(aliases)
      /\ DOMAIN list = 1..Len(list) /\ DOMAIN aliasList = 1..Len(aliasList)
      /\ Len(list) \in Nat /\ Len(aliasList) \in Nat /\ Len(users) \in Nat /\ Len(aliases) \in Nat
  BY <1>2, ListTypes
<1>5. g.user = u /\ g.access = i /\ (~g.quit <=> ~f.quit /\ u # Freed /\ i # Freed)
  <2> DEFINE q == f.quit \/ (f.on /\ Freed \in {u, i})
  <2>1. g = [f EXCEPT !.user = u, !.access = i, !.moved = FALSE, !.quit = q]
    BY <1>1
  <2>2. ~q <=> ~f.quit /\ u # Freed /\ i # Freed
    OBVIOUS
  <2> HIDE DEF q
  <2>3. g.user = u /\ g.access = i /\ g.quit = q
    BY <2>1 DEF Session
  <2> QED  BY <2>2, <2>3
<1>6. ASSUME ~g.quit PROVE NameOf(list, u) = NameOf(users, f.user) /\ (f.user # Unknown => u # Unknown)
  <2>1. CASE f.user \in {Null, Unknown, Freed}
    <3>1. u = f.user
      BY <2>1, <1>1, <1>2, UserKeptMeans
    <3> QED  BY <2>1, <3>1 DEF NameOf, Null, Unknown, Freed
  <2>2. CASE f.user \in DOMAIN users
    <3>1. u \in DOMAIN list /\ list[u].name = users[f.user].name
      BY <2>2, <1>1, <1>2, <1>5, <1>6, UserKeptMeans
    <3>2. u > 0 /\ f.user > 0
      BY <3>1, <2>2, <1>4
    <3> QED  BY <3>1, <3>2 DEF NameOf, Unknown
  <2> QED  BY <2>1, <2>2, <1>3
<1>7. ASSUME ~g.quit, f.access # Null, "paths" \in pages
      PROVE  /\ aliasList[i].alias = aliases[f.access].alias
             /\ f.user # Unknown => SomeRight(aliasList[i], GroupsOf(list, u))
  <2>1. f.access \in DOMAIN aliases
    BY <1>3, <1>5, <1>7
  <2>2. i = AliasKept(aliasList, f.access, groups) /\ i # Freed /\ u # Freed
    BY <1>1, <1>5, <1>7
  <2>3. aliasList[i].alias = aliases[f.access].alias /\ SomeRight(aliasList[i], groups)
    BY <2>1, <2>2, <1>2, AliasKeptMeans
  <2>4. f.user # Unknown => groups = GroupsOf(list, u)
    BY <1>1, <1>6, <1>7, <2>2
  <2> QED  BY <2>3, <2>4
<1>8. ASSUME ~f.quit, g.quit
      PROVE  \/ f.user = Unknown
             \/ f.user # Null /\ NameOf(users, f.user) \notin {list[v].name : v \in DOMAIN list}
             \/ /\ f.access # Null
                /\ \A j \in DOMAIN aliasList :
                     aliasList[j].alias = aliases[f.access].alias =>
                       ~SomeRight(aliasList[j], GroupsOf(list, u))
  <2>1. f.user # Freed /\ f.access # Freed /\ (u = Freed \/ i = Freed)
    BY <1>3, <1>5, <1>8
  <2>2. CASE u = Freed
    <3>1. "users" \in pages /\ u = UserKept(list, f.user)
      BY <2>1, <2>2, <1>1
    <3>2. f.user \notin {Null, Unknown}
      BY <2>1, <2>2, <3>1, <1>2, UserKeptMeans
    <3>3. f.user \in DOMAIN users
      BY <3>2, <2>1, <1>3
    <3>4. \A v \in DOMAIN list : list[v].name # users[f.user].name
      BY <2>2, <3>1, <3>3, <1>2, <1>4, UserKeptMeans DEF Freed
    <3>5. NameOf(users, f.user) = users[f.user].name
      BY <3>3, <1>4 DEF NameOf
    <3> QED  BY <3>2, <3>4, <3>5
  <2>3. CASE u # Freed /\ i = Freed
    <3>1. "paths" \in pages /\ i = AliasKept(aliasList, f.access, groups)
      BY <2>1, <2>3, <1>1
    <3>2. f.access # Null
      BY <2>3, <3>1, <1>2, AliasKeptMeans DEF Null, Freed
    <3>3. f.access \in DOMAIN aliases
      BY <3>2, <2>1, <1>3
    <3>4. \A j \in DOMAIN aliasList : aliasList[j].alias = aliases[f.access].alias =>
            ~SomeRight(aliasList[j], groups)
      BY <2>3, <3>1, <3>3, <1>2, <1>4, AliasKeptMeans DEF Freed
    <3>5. CASE f.user = Unknown
      BY <3>5
    <3>6. CASE f.user # Unknown
      <4>1. u \notin {Unknown, Freed}
        <5>1. CASE f.user = Null
          <6>1. u = Null
            BY <5>1, <1>1, <1>2, <1>3, UserKeptMeans
          <6> QED  BY <6>1 DEF Null, Unknown, Freed
        <5>2. CASE f.user \in DOMAIN users
          <6>1. u \in DOMAIN list
            BY <5>2, <2>3, <1>1, <1>2, UserKeptMeans
          <6> QED  BY <6>1, <1>4 DEF Unknown, Freed
        <5> QED  BY <5>1, <5>2, <3>6, <2>1, <1>3
      <4>2. groups = GroupsOf(list, u)
        BY <4>1, <1>1
      <4> QED  BY <3>2, <3>4, <4>2
    <3> QED  BY <3>5, <3>6
  <2> QED  BY <2>1, <2>2, <2>3
<1> QED  BY <1>5, <1>6, <1>7, <1>8

(* GetUsers() and GetPath() under running sessions: one that is not told 421 still
   has the account and the alias it had, with a right. *)
THEOREM UseKeepsSessions ==
  ASSUME KickedServed = FALSE
  PROVE  Spec => SessionsKept
<1>1. ASSUME SessionInv, Use, NEW s \in Sessions, ftp[s].on /\ ~ftp'[s].quit
      PROVE  /\ NameOf(users', ftp'[s].user) = NameOf(users, ftp[s].user)
             /\ ftp[s].access # Null /\ "paths" \in pages =>
                  /\ aliases'[ftp'[s].access].alias = aliases[ftp[s].access].alias
                  /\ ftp[s].user # Unknown =>
                       SomeRight(aliases'[ftp'[s].access], GroupsOf(users', ftp'[s].user))
  BY <1>1, UsedFacts, KeptRight
<1>2. SessionInv /\ [Next]_vars =>
        [Use =>
           \A s \in Sessions : ftp[s].on /\ ~ftp'[s].quit =>
             /\ NameOf(users', ftp'[s].user) = NameOf(users, ftp[s].user)
             /\ ftp[s].access # Null /\ "paths" \in pages =>
                  /\ aliases'[ftp'[s].access].alias = aliases[ftp[s].access].alias
                  /\ ftp[s].user # Unknown =>
                       SomeRight(aliases'[ftp'[s].access], GroupsOf(users', ftp'[s].user))]_vars
  BY <1>1
<1> QED  BY <1>2, Invariant, PTL DEF Spec, SessionsKept

(* And they tell 421 only to a session whose account is gone or has no right from
   any alias of that name. *)
THEOREM UseSparesOthers ==
  ASSUME KickedServed = FALSE
  PROVE  Spec => UnaffectedStay
<1>1. ASSUME SessionInv, Use, NEW s \in Sessions, ftp[s].on /\ ~ftp[s].quit /\ ftp'[s].quit
      PROVE  \/ ftp[s].user = Unknown
             \/ /\ ftp[s].user # Null
                /\ NameOf(users, ftp[s].user) \notin {users'[u].name : u \in DOMAIN users'}
             \/ /\ ftp[s].access # Null
                /\ \A i \in DOMAIN aliases' :
                     aliases'[i].alias = aliases[ftp[s].access].alias =>
                       ~SomeRight(aliases'[i], GroupsOf(users', ftp'[s].user))
  BY <1>1, UsedFacts, KeptRight
<1>2. SessionInv /\ [Next]_vars =>
        [Use =>
           \A s \in Sessions : ftp[s].on /\ ~ftp[s].quit /\ ftp'[s].quit =>
             \/ ftp[s].user = Unknown
             \/ /\ ftp[s].user # Null
                /\ NameOf(users, ftp[s].user) \notin {users'[u].name : u \in DOMAIN users'}
             \/ /\ ftp[s].access # Null
                /\ \A i \in DOMAIN aliases' :
                     aliases'[i].alias = aliases[ftp[s].access].alias =>
                       ~SomeRight(aliases'[i], GroupsOf(users', ftp'[s].user))]_vars
  BY <1>1
<1> QED  BY <1>2, Invariant, PTL DEF Spec, UnaffectedStay

(* Where a step changes the tree, the session that made it had the right. *)
LEMMA TreeChangeByRight ==
  ASSUME SessionInv, TreeInv, TreeInv', NEW s \in Sessions, ChangesTree(s)
  PROVE  /\ ftp[s].online /\ ~ftp[s].quit
         /\ \A x \in Top(Gone) : Reaches(s, x, "delete")
         /\ \A x \in Top(New) : Reaches(s, x, IF Gone = {} THEN "write" ELSE "delete")
<1>1. ASSUME NEW x, Removes(s, x)
      PROVE  Top(Gone) \subseteq {x} /\ Top(New) = {} /\ Reaches(s, x, "delete")
  BY <1>1 DEF Removes, Top, Gone, New
<1>2. ASSUME NEW x, Makes(s, x)
      PROVE  Gone = {} /\ Top(Gone) = {} /\ Top(New) \subseteq {x} /\ Reaches(s, x, "write")
  BY <1>2 DEF Makes, Top, Gone, New
<1>3. ASSUME NEW from, NEW to, Moves(s, from, to)
      PROVE  /\ Gone # {} /\ Top(Gone) \subseteq {from} /\ Top(New) \subseteq {to}
             /\ Reaches(s, from, "delete") /\ Reaches(s, to, "delete")
  BY <1>3, MoveTops DEF Moves, TreeInv
<1>4. CASE \E x : Removes(s, x)
  BY <1>1, <1>4 DEF ChangesTree
<1>5. CASE \E x : Makes(s, x)
  BY <1>2, <1>5 DEF ChangesTree
<1>6. CASE \E from, to : Moves(s, from, to)
  BY <1>3, <1>6 DEF ChangesTree
<1> QED  BY <1>4, <1>5, <1>6 DEF ChangesTree

(* Files and directories are made, removed and renamed only where the session has
   the right, for every tree, every list of aliases and every rename. *)
THEOREM ChangedByRight ==
  ASSUME KickedServed = FALSE
  PROVE  Spec => FilesChangeByRight
<1> DEFINE Right ==
      LET gone == (dirs \cup files) \ (dirs' \cup files')
          new == (dirs' \cup files') \ (dirs \cup files)
          top(S) == {x \in S : Parent(x) \notin S}
      IN gone \cup new # {} =>
           \E s \in Sessions :
             /\ ftp[s].online /\ ~ftp[s].quit
             /\ \A x \in top(gone) : Reaches(s, x, "delete")
             /\ \A x \in top(new) : Reaches(s, x, IF gone = {} THEN "write" ELSE "delete")
<1>1. ASSUME SessionInv, TreeInv, TreeInv', [Next]_vars PROVE Right
  <2>1. CASE UNCHANGED Tree
    BY <2>1 DEF Tree
  <2>2. ASSUME NEW s \in Sessions, ChangesTree(s) PROVE Right
    BY <2>2, <1>1, TreeChangeByRight DEF Top, Gone, New
  <2> QED  BY <1>1, <2>1, <2>2, StepsOfTree
<1>2. SessionInv /\ TreeInv /\ TreeInv' /\ [Next]_vars => [Right]_vars
  BY <1>1
<1> QED  BY <1>2, Invariant, PTL DEF Spec, FilesChangeByRight

(* A login keeps its account, if peers do not send USER while they are logged in:
   the only way to lose it (LoginKept is violated with UserAgain = TRUE). *)
THEOREM LoginKeptButForUser ==
  ASSUME KickedServed = FALSE, UserAgain = FALSE
  PROVE  Spec => LoginKept
<1> DEFINE Kept(t) == ftp[t].online /\ ftp'[t].online /\ ~ftp'[t].quit =>
                         NameOf(users', ftp'[t].user) = NameOf(users, ftp[t].user)
<1>1. ASSUME SessionInv, [Next]_vars, NEW t \in Sessions PROVE Kept(t)
  <2>1. CASE Use
    <3> SUFFICES ASSUME ftp[t].online, ~ftp'[t].quit
                 PROVE  NameOf(users', ftp'[t].user) = NameOf(users, ftp[t].user)
      OBVIOUS
    <3>1. ftp[t].on
      BY <1>1 DEF SessionInv, SessionOK
    <3> QED  BY <1>1, <2>1, <3>1, UsedFacts, KeptRight
  <2>2. CASE UNCHANGED <<users, ftp>>
    BY <2>2
  <2>3. ASSUME NEW s \in Sessions, NEW f \in Session, users' = users,
               ftp' = [ftp EXCEPT ![s] = f],
               ftp[s].online /\ f.online => f.user = ftp[s].user
        PROVE  Kept(t)
    <3>1. ftp'[t] = IF t = s THEN f ELSE ftp[t]
      BY <1>1, <2>3 DEF SessionInv
    <3> QED  BY <2>3, <3>1
  <2> HIDE DEF Kept
  <2>4. ASSUME NEW s \in Sessions, NewFtp(s) \/ FreeFtp(s) PROVE Kept(t)
    <3> DEFINE e == [NoSession EXCEPT !.on = TRUE]
    <3>1. NoSession \in Session /\ ~NoSession.online
      BY DEF NoSession, Session, Null, Nowhere, Words
    <3>2. e \in Session /\ ~e.online
      BY <3>1 DEF Session
    <3>3. ftp' = [ftp EXCEPT ![s] = e] \/ ftp' = [ftp EXCEPT ![s] = NoSession]
      BY <2>4 DEF NewFtp, FreeFtp
    <3>4. users' = users
      BY <2>4 DEF NewFtp, FreeFtp, Lists
    <3> HIDE DEF e
    <3> QED  BY <3>1, <3>2, <3>3, <3>4, <2>3
  <2>5. ASSUME NEW s \in Sessions, UserCommand(s) \/ PassCommand(s) \/ ReinCommand(s) PROVE Kept(t)
    <3>1. users' = users /\ ftp \in [Sessions -> Session]
      BY <1>1, <2>5 DEF UserCommand, PassCommand, ReinCommand, Lists, SessionInv
    <3>2. CASE t # s
      <4>1. ftp'[t] = ftp[t]
        BY <2>5, <3>1, <3>2 DEF UserCommand, PassCommand, ReinCommand
      <4> QED  BY <3>1, <4>1 DEF Kept
    <3>3. CASE t = s
      <4>1. CASE ReinCommand(s)
        <5>1. ~ftp'[s].online
          BY <3>1, <4>1 DEF ReinCommand, Session
        <5> QED  BY <3>3, <5>1 DEF Kept
      <4>2. CASE UserCommand(s) \/ PassCommand(s)
        <5>1. ~ftp[s].online
          BY <4>2 DEF UserCommand, PassCommand
        <5> QED  BY <3>3, <5>1 DEF Kept
      <4> QED  BY <2>5, <4>1, <4>2
    <3> QED  BY <3>2, <3>3
  <2>6. ASSUME NEW s \in Sessions, CwdCommand(s) \/ CdupCommand(s)
        PROVE  Kept(t)
    <3>1. users' = users /\ ftp \in [Sessions -> Session]
      BY <1>1, <2>6 DEF CwdCommand, CdupCommand, Lists, SessionInv
    <3>2. EntersNowhere(s) \/ \E p : Enters(s, p)
      <4>1. CASE CdupCommand(s)
        BY <4>1 DEF CdupCommand
      <4>2. CASE CwdCommand(s)
        <5>1. PICK a \in Args : \E p \in AddPath(ftp[s].path, a) :
                                  IF p = Nowhere THEN EntersNowhere(s) ELSE Enters(s, p)
          BY <4>2 DEF CwdCommand
        <5> QED  BY <5>1
      <4> QED  BY <2>6, <4>1, <4>2
    <3>3. ASSUME NEW p, Enters(s, p) PROVE users' = users /\ ftp'[t].user = ftp[t].user
      BY <3>1, <3>3 DEF Enters, Session
    <3>4. ASSUME EntersNowhere(s) PROVE users' = users /\ ftp'[t].user = ftp[t].user
      BY <3>1, <3>4 DEF EntersNowhere, Session
    <3> QED  BY <3>2, <3>3, <3>4 DEF Kept
  <2>7. ASSUME NEW s \in Sessions, StorCommand(s) \/ RetrCommand(s) \/ RnfrCommand(s)
        PROVE  Kept(t)
    <3>1. users' = users /\ ftp \in [Sessions -> Session]
      BY <1>1, <2>7 DEF StorCommand, RetrCommand, RnfrCommand, Lists, SessionInv
    <3>2. \E n : ftp' = [ftp EXCEPT ![s].filename = n]
      BY <2>7 DEF StorCommand, RetrCommand, RnfrCommand, Transferred, NotOpened
    <3>3. ftp'[t].user = ftp[t].user
      BY <3>1, <3>2 DEF Session
    <3> QED  BY <3>1, <3>3 DEF Kept
  <2>8. ASSUME NEW s \in Sessions,
               DeleCommand(s) \/ RmdCommand(s) \/ MkdCommand(s) \/ RntoCommand(s)
        PROVE  UNCHANGED <<users, ftp>>
    BY <2>8 DEF DeleCommand, RmdCommand, MkdCommand, RntoCommand, Lists
  <2>9. OpenPage \/ Cancel \/ UNCHANGED vars => UNCHANGED <<users, ftp>>
    BY DEF OpenPage, Cancel, vars
  <2> QED  BY <1>1, <2>1, <2>2, <2>4, <2>5, <2>6, <2>7, <2>8, <2>9 DEF Next, Command
<1>2. SessionInv /\ [Next]_vars =>
        [\A s \in Sessions : ftp[s].online /\ ftp'[s].online /\ ~ftp'[s].quit =>
           NameOf(users', ftp'[s].user) = NameOf(users, ftp[s].user)]_vars
  BY <1>1
<1> HIDE DEF Kept
<1> QED  BY <1>2, Invariant, PTL DEF Spec, LoginKept
=============================================================================
