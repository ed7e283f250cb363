-------------------------- MODULE Throttle_proofs --------------------------
(***************************************************************************)
(* The bandwidth limit, for every number of sessions, every limit and      *)
(* every size of chunks.  WithinLimit is not inductive: a pass that begins *)
(* a second must leave the part of each transfer as it was computed from   *)
(* the transfers that still run, and a connection that is watched must not *)
(* have used its part up.  The last part is about module Statistics.       *)
(***************************************************************************)
EXTENDS Throttle, Statistics, FiniteSetTheorems, TLAPS

(* The set Limited and the share that follow from a state f of the sessions. *)
LEMMA LimitedFinite == IsFiniteSet(Limited)
BY FS_Subset, ThrottleAssumption DEF Limited

LEMMA DivisionBounds ==
  ASSUME NEW m \in Nat, NEW n \in Nat \ {0}
  PROVE  m \div n \in Nat /\ n * (m \div n) <= m
OBVIOUS

(* The parts of all transfers together are no more than the limit. *)
LEMMA ShareFits ==
  ASSUME NEW limit \in Nat
  PROVE  /\ Share(limit) \in Nat
         /\ Cardinality(Limited) \in Nat
         /\ Cardinality(Limited) * Share(limit) <= limit
<1>1. Cardinality(Limited) \in Nat
  BY LimitedFinite, FS_CardinalityType
<1>2. CASE limit = 0 \/ Limited = {}
  BY <1>1, <1>2 DEF Share
<1>3. CASE limit # 0 /\ Limited # {}
  <2>1. Cardinality(Limited) # 0
    BY <1>3, LimitedFinite, FS_EmptySet
  <2>2. Share(limit) = limit \div Cardinality(Limited)
    BY <1>3 DEF Share
  <2> QED BY <1>1, <2>1, <2>2, DivisionBounds
<1> QED BY <1>2, <1>3

-----------------------------------------------------------------------------
(* What the handlers make of the record of a session is such a record. *)
LEMMA SessionRecords ==
  /\ NoSession \in Session
  /\ \A f \in Session :
       /\ f.left \in Nat /\ f.xfer \in Nat
       /\ FreeData(f) \in Session
       /\ [f EXCEPT !.connected = TRUE] \in Session
       /\ [f EXCEPT !.idle = 0] \in Session
       /\ \A b \in BOOLEAN : [f EXCEPT !.quit = b] \in Session
       /\ \A file \in {"RECV", "SEND"}, b \in BOOLEAN, n \in Nat :
            [f EXCEPT !.file = file, !.connected = b, !.left = n, !.idle = 0] \in Session
       /\ \A n, m \in Nat : [f EXCEPT !.left = n, !.xfer = m] \in Session
<1>1. 0 \in 0..(Timeout + 1)
  BY ThrottleAssumption
<1>2. NoSession \in Session
  BY <1>1 DEF NoSession, Session
<1>3. ASSUME NEW f \in Session, NEW b \in BOOLEAN, NEW n \in Nat, NEW m \in Nat,
             NEW file \in {"RECV", "SEND"}
      PROVE  /\ f.left \in Nat /\ f.xfer \in Nat
             /\ FreeData(f) \in Session
             /\ [f EXCEPT !.connected = TRUE] \in Session
             /\ [f EXCEPT !.idle = 0] \in Session
             /\ [f EXCEPT !.quit = b] \in Session
             /\ [f EXCEPT !.file = file, !.connected = b, !.left = n, !.idle = 0] \in Session
             /\ [f EXCEPT !.left = n, !.xfer = m] \in Session
  <2>1. f.left \in Nat /\ f.xfer \in Nat
    BY DEF Session
  <2>2. FreeData(f) \in Session
    <3> DEFINE g == [f EXCEPT !.file = "none", !.connected = FALSE]
               h == [g EXCEPT !.left = 0, !.xfer = 0]
    <3>1. g \in Session
      BY DEF Session
    <3>2. h \in Session
      <4> HIDE DEF g
      <4> QED BY <3>1 DEF Session
    <3>3. [h EXCEPT !.idle = 0] \in Session
      <4> HIDE DEF h
      <4> QED BY <1>1, <3>2 DEF Session
    <3>4. FreeData(f) = [h EXCEPT !.idle = 0]
      BY DEF FreeData
    <3> QED BY <3>3, <3>4
  <2>3. [f EXCEPT !.connected = TRUE] \in Session
    BY DEF Session
  <2>4. [f EXCEPT !.idle = 0] \in Session
    BY <1>1 DEF Session
  <2>5. [f EXCEPT !.quit = b] \in Session
    BY DEF Session
  <2>6. [f EXCEPT !.file = file, !.connected = b, !.left = n, !.idle = 0] \in Session
    <3> DEFINE g == [f EXCEPT !.file = file, !.connected = b]
               h == [g EXCEPT !.left = n]
    <3>1. g \in Session
      BY DEF Session
    <3>2. h \in Session
      <4> HIDE DEF g
      <4> QED BY <3>1 DEF Session
    <3>3. [h EXCEPT !.idle = 0] \in Session
      <4> HIDE DEF h
      <4> QED BY <1>1, <3>2 DEF Session
    <3>4. [f EXCEPT !.file = file, !.connected = b, !.left = n, !.idle = 0]
            = [h EXCEPT !.idle = 0]
      OBVIOUS
    <3> QED BY <3>3, <3>4
  <2>7. [f EXCEPT !.left = n, !.xfer = m] \in Session
    BY DEF Session
  <2> QED BY <2>1, <2>2, <2>3, <2>4, <2>5, <2>6, <2>7
<1> HIDE DEF Session
<1> QED BY <1>2, <1>3

(* A pass only counts idle seconds and begins counts again. *)
LEMMA OlderRecords ==
  ASSUME NEW f \in Session, NEW seconds \in Nat
  PROVE  Older(f, seconds) \in Session
<1>1. Timeout \in Nat
  BY ThrottleAssumption
<1>2. f.idle \in 0..(Timeout + 1)
  BY DEF Session
<1>3. Least(f.idle + seconds, Timeout + 1) \in 0..(Timeout + 1)
  BY <1>1, <1>2 DEF Least
<1>4. \A i \in 0..(Timeout + 1) : [f EXCEPT !.idle = i] \in Session
  BY DEF Session
<1>5. NewCount(f) \in Session
  BY DEF NewCount, Session
<1> QED BY <1>3, <1>4, <1>5 DEF Older

(* It says goodbye to whoever has been idle too long. *)
LEMMA PassRecords ==
  ASSUME NEW f \in Session, NEW seconds \in Nat
  PROVE  Checked(Older(f, seconds)) \in Session
<1>1. \A g \in Session : (g.quit \/ IdleTooLong(g)) \in BOOLEAN
  BY DEF Session, IdleTooLong
<1> HIDE DEF Session
<1> QED BY <1>1, OlderRecords, SessionRecords DEF Checked

(* What a transfer moves at once. *)
LEMMA ChunkBounds ==
  ASSUME TypeOK, NEW s \in Sessions, NEW maxlen \in Chunks(s),
         NEW n \in 1..Least(ftp[s].left, maxlen)
  PROVE  /\ maxlen \in Nat /\ maxlen <= MaxFilebuf
         /\ n \in Nat /\ n <= maxlen /\ ftp[s].left - n \in Nat /\ ftp[s].xfer + n \in Nat
         /\ s \notin Lan /\ my_cps # 0 /\ ftp[s].file = "SEND" =>
              maxlen <= MinChunk \/ maxlen <= my_cps - ftp[s].xfer
<1>1. /\ MinChunk \in Nat /\ MaxFilebuf \in Nat /\ MinChunk <= MaxFilebuf
      /\ ftp[s].left \in Nat /\ ftp[s].xfer \in Nat /\ my_cps \in Nat
  BY ThrottleAssumption, SessionRecords DEF TypeOK
<1>2. CASE ftp[s].file = "RECV"
  BY <1>1, <1>2 DEF Chunks, Least
<1>3. CASE ftp[s].file # "RECV" /\ s \notin Lan /\ my_cps # 0
  <2>1. maxlen = range(MinChunk, my_cps - ftp[s].xfer, MaxFilebuf)
    BY <1>3 DEF Chunks
  <2> QED BY <1>1, <2>1 DEF range, Least
<1>4. CASE ftp[s].file # "RECV" /\ ~(s \notin Lan /\ my_cps # 0)
  <2>1. maxlen \in MinChunk..MaxFilebuf
    BY <1>4 DEF Chunks
  <2> QED BY <1>1, <1>4, <2>1 DEF Least
<1> QED BY <1>2, <1>3, <1>4

(* Type correctness: counters stay natural numbers, idle times within their cap. *)
THEOREM TypeCorrect == Spec => []TypeOK
<1>1. Init => TypeOK
  <2>1. NoSession \in Session
    BY SessionRecords
  <2>2. Init => ftp \in [Sessions -> Session]
    BY <2>1 DEF Init
  <2>3. Init => watch \subseteq Sessions /\ todo \subseteq Sessions
    BY DEF Init
  <2>4. Init => maxcps \in Limits /\ my_cps \in Nat
    BY DEF Init
  <2>5. Init => steady \in BOOLEAN
    BY Zenon DEF Init
  <2> QED BY <2>2, <2>3, <2>4, <2>5 DEF TypeOK
<1>2. ASSUME TypeOK, [Next]_vars PROVE TypeOK'
  <2> USE <1>2 DEF TypeOK
  <2>1. ASSUME NEW seconds \in 0..MaxLag, Pass(seconds) PROVE TypeOK'
    <3>1. \A limit \in Limits : Share(limit) \in Nat
      BY ShareFits, ThrottleAssumption
    <3>2. \A s \in Sessions : Checked(Older(ftp[s], seconds)) \in Session
      BY PassRecords, ThrottleAssumption
    <3>3. ftp' \in [Sessions -> Session]
      BY <2>1, <3>2 DEF Pass
    <3>4. steady' \in BOOLEAN
      BY <2>1 DEF Pass
    <3> QED BY <2>1, <3>1, <3>3, <3>4 DEF Pass
  <2>2. ASSUME NEW s \in Sessions, NewFtp(s) PROVE TypeOK'
    <3>1. [NoSession EXCEPT !.on = TRUE] \in Session
      BY SessionRecords DEF Session
    <3> QED BY <2>2, <3>1 DEF NewFtp
  <2>3. ASSUME NEW s \in Sessions, Written(s) PROVE TypeOK'
    BY <2>3, SessionRecords DEF Written, Serve
  <2>4. ASSUME NEW s \in Sessions, Answer(s) PROVE TypeOK'
    <3>1. [ftp[s] EXCEPT !.idle = IF ftp[s].file = "none" THEN 0 ELSE @] \in Session
      BY ThrottleAssumption DEF Session
    <3> QED BY <2>4, <3>1 DEF Answer, Serve
  <2>5. ASSUME NEW s \in Sessions, Refuse(s) PROVE TypeOK'
    BY <2>5 DEF Refuse, Serve
  <2>6. ASSUME NEW s \in Sessions, Open(s) PROVE TypeOK'
    <3>1. PICK file \in {"RECV", "SEND"}, connected \in BOOLEAN, size \in 0..MaxSize :
            ftp' = [ftp EXCEPT ![s].file = file, ![s].connected = connected,
                               ![s].left = size, ![s].idle = 0]
      BY <2>6 DEF Open
    <3>2. ftp' = [ftp EXCEPT ![s] = [ftp[s] EXCEPT !.file = file, !.connected = connected,
                                                   !.left = size, !.idle = 0]]
      BY <3>1
    <3>3. size \in Nat
      BY ThrottleAssumption
    <3>4. ftp' \in [Sessions -> Session]
      BY <3>2, <3>3, SessionRecords
    <3> QED BY <2>6, <3>4 DEF Open, Serve
  <2>7. ASSUME NEW s \in Sessions, Accept(s) PROVE TypeOK'
    <3>1. ftp' = [ftp EXCEPT ![s] = [ftp[s] EXCEPT !.connected = TRUE]]
      BY <2>7 DEF Accept
    <3>2. [ftp[s] EXCEPT !.connected = TRUE] \in Session
      BY SessionRecords
    <3> QED BY <2>7, <3>1, <3>2 DEF Accept, Serve
  <2>8. ASSUME NEW s \in Sessions, Abort(s) PROVE TypeOK'
    BY <2>8, SessionRecords DEF Abort, Serve
  <2>9. ASSUME NEW s \in Sessions, Move(s) PROVE TypeOK'
    <3>1. ftp' \in [Sessions -> Session]
      <4>1. CASE ftp' = [ftp EXCEPT ![s] = FreeData(@)]
        BY <4>1, SessionRecords
      <4>2. ASSUME NEW maxlen \in Chunks(s), NEW n \in 1..Least(ftp[s].left, maxlen),
                   ftp' = [ftp EXCEPT ![s].left = @ - n, ![s].xfer = @ + n]
            PROVE  ftp' \in [Sessions -> Session]
        <5>1. ftp[s].left - n \in Nat /\ ftp[s].xfer + n \in Nat
          BY ChunkBounds
        <5>2. ftp' = [ftp EXCEPT ![s] = [ftp[s] EXCEPT !.left = ftp[s].left - n,
                                                       !.xfer = ftp[s].xfer + n]]
          BY <4>2
        <5> QED BY <5>1, <5>2, SessionRecords
      <4> QED BY <2>9, <4>1, <4>2 DEF Move
    <3> QED BY <2>9, <3>1 DEF Move, Serve
  <2>10. CASE UNCHANGED vars
    BY <2>10 DEF vars
  <2> QED BY <2>1, <2>2, <2>3, <2>4, <2>5, <2>6, <2>7, <2>8, <2>9, <2>10 DEF Next
<1> QED BY <1>1, <1>2, PTL DEF Spec

-----------------------------------------------------------------------------
(* The inductive invariant. *)

(* Whoever has a file open, or is to be looked at, is a session. *)
Running ==
  \A s \in Sessions :
    /\ s \in todo => ftp[s].on
    /\ ftp[s].file # "none" => ftp[s].on

Kept ==
  steady /\ maxcps # 0 =>
    /\ my_cps = Share(maxcps)
    /\ \A s \in Limited :
         /\ ftp[s].xfer <= my_cps + Excess(s)
         /\ s \in watch => ftp[s].xfer < my_cps

IInv == TypeOK /\ Running /\ Kept

(* What a pass makes of the record of a session. *)
LEMMA PassFields ==
  ASSUME NEW f \in Session, NEW seconds \in Nat
  PROVE  LET g == Checked(Older(f, seconds)) IN
         /\ g.on = f.on /\ g.file = f.file
         /\ seconds = 0 => g.xfer = f.xfer
         /\ seconds # 0 /\ f.on /\ f.file # "none" => g.xfer = 0
<1>1. /\ Older(f, seconds).on = f.on /\ Older(f, seconds).file = f.file
      /\ seconds = 0 => Older(f, seconds).xfer = f.xfer
      /\ seconds # 0 /\ f.on /\ f.file # "none" => Older(f, seconds).xfer = 0
  BY DEF Older, NewCount, Session
<1>2. Older(f, seconds) \in Session
  BY OlderRecords
<1>3. \A g \in Session :
        Checked(g).on = g.on /\ Checked(g).file = g.file /\ Checked(g).xfer = g.xfer
  BY DEF Checked, Session
<1> QED BY <1>1, <1>2, <1>3

(* A step in which no transfer moves, ends or is watched anew. *)
LEMMA QuietKept ==
  ASSUME Kept, UNCHANGED <<maxcps, my_cps, steady>>, watch' \subseteq watch,
         \A s \in Sessions :
           /\ ftp'[s].file = ftp[s].file
           /\ ftp[s].file # "none" => ftp'[s].xfer = ftp[s].xfer
  PROVE  Kept'
<1>1. Limited' = Limited
  BY DEF Limited
<1>2. Share(maxcps)' = Share(maxcps)
  BY <1>1 DEF Share
<1>3. \A s \in Limited : Excess(s)' = Excess(s) /\ ftp'[s].xfer = ftp[s].xfer
  BY DEF Limited, Excess
<1> QED BY <1>1, <1>2, <1>3 DEF Kept

(* A pass gives every transfer its part, and begins their counts if a second has come. *)
LEMMA PassKept ==
  ASSUME IInv, NEW seconds \in 0..MaxLag, Pass(seconds)
  PROVE  Kept'
<1>1. /\ seconds \in Nat /\ my_cps \in Nat /\ maxcps \in Limits
      /\ MinChunk \in Nat \ {0} /\ MaxFilebuf \in Nat \ {0}
      /\ \A s \in Sessions : ftp[s] \in Session
      /\ maxcps' \in Nat /\ Share(maxcps') \in Nat
  BY ShareFits, ThrottleAssumption DEF IInv, TypeOK, Pass
<1>2. \A s \in Sessions : ftp'[s] = Checked(Older(ftp[s], seconds))
  BY DEF Pass
<1>3. \A s \in Sessions :
        /\ ftp'[s].file = ftp[s].file
        /\ seconds = 0 => ftp'[s].xfer = ftp[s].xfer
        /\ seconds # 0 /\ ftp[s].file # "none" => ftp'[s].xfer = 0
  BY <1>1, <1>2, PassFields DEF IInv, Running
<1>4. Limited' = Limited
  BY <1>3 DEF Limited
<1>5. my_cps' = Share(maxcps') /\ Share(maxcps)' = Share(maxcps')
  BY <1>4 DEF Share, Pass
<1>6. \A s \in Limited : Excess(s)' = Excess(s) /\ Excess(s) \in Nat
  BY <1>1, <1>3 DEF Limited, Excess
<1> SUFFICES ASSUME steady', maxcps' # 0, NEW s \in Limited
             PROVE  /\ ftp'[s].xfer <= my_cps' + Excess(s)
                    /\ s \in watch' => ftp'[s].xfer < my_cps'
  BY <1>4, <1>5, <1>6 DEF Kept
<1>7. s \in Sessions /\ s \notin Lan /\ ftp[s].file # "none"
  BY DEF Limited
<1>8. s \in watch' => Share(maxcps') # 0 /\ ftp[s].xfer < Share(maxcps')
  BY <1>7 DEF Pass, Watched
<1>9. CASE seconds # 0
  BY <1>1, <1>3, <1>5, <1>6, <1>7, <1>8, <1>9
<1>10. CASE seconds = 0
  <2>1. steady /\ maxcps' = maxcps
    <3>1. ~(seconds > 0)
      BY <1>10
    <3> QED BY <3>1, Zenon DEF Pass
  <2>2. my_cps = Share(maxcps) /\ ftp[s].xfer <= my_cps + Excess(s)
    BY <2>1 DEF IInv, Kept
  <2> QED BY <1>3, <1>5, <1>7, <1>8, <1>10, <2>1, <2>2
<1> QED BY <1>9, <1>10

(* A transfer that moves was watched, so it had a byte of its part left. *)
LEMMA MoveKept ==
  ASSUME IInv, NEW s \in Sessions, Move(s)
  PROVE  Kept'
<1>1. CASE ~steady'
  BY <1>1 DEF Kept
<1>2. CASE steady'
  <2>1. PICK maxlen \in Chunks(s) : \E n \in 1..Least(ftp[s].left, maxlen) :
             /\ ftp' = [ftp EXCEPT ![s].left = @ - n, ![s].xfer = @ + n]
             /\ UNCHANGED steady
    BY <1>2 DEF Move
  <2>2. PICK n \in 1..Least(ftp[s].left, maxlen) :
             /\ ftp' = [ftp EXCEPT ![s].left = @ - n, ![s].xfer = @ + n]
             /\ UNCHANGED steady
    BY <2>1
  <2>3. /\ ftp \in [Sessions -> Session] /\ my_cps \in Nat
        /\ MinChunk \in Nat \ {0} /\ MaxFilebuf \in Nat \ {0}
    BY ThrottleAssumption DEF IInv, TypeOK
  <2>4. \A t \in Sessions : ftp[t].xfer \in Nat
    BY <2>3, SessionRecords
  <2>5. ftp'[s].file = ftp[s].file /\ ftp'[s].xfer = ftp[s].xfer + n
    BY <2>2, <2>3 DEF Session
  <2>6. \A t \in Sessions \ {s} : ftp'[t] = ftp[t]
    BY <2>2, <2>3
  <2>7. UNCHANGED <<maxcps, my_cps>> /\ watch' = watch \ {s} /\ s \in watch
    BY DEF Move, Serve
  <2>8. Limited' = Limited
    BY <2>5, <2>6 DEF Limited
  <2>9. Share(maxcps)' = Share(maxcps)
    BY <2>7, <2>8 DEF Share
  <2>10. \A t \in Sessions : Excess(t)' = Excess(t)
    BY <2>5, <2>6 DEF Excess
  <2>11. ASSUME steady, maxcps # 0, s \in Limited
         PROVE  ftp'[s].xfer <= my_cps + Excess(s)
    <3>1. ftp[s].xfer < my_cps /\ s \notin Lan /\ ftp[s].file # "none"
      BY <2>7, <2>11 DEF IInv, Kept, Limited
    <3>2. /\ maxlen \in Nat /\ maxlen <= MaxFilebuf /\ n \in Nat /\ n <= maxlen
          /\ ftp[s].file = "SEND" => maxlen <= MinChunk \/ maxlen <= my_cps - ftp[s].xfer
      BY <2>3, <2>4, <3>1, ChunkBounds DEF IInv
    <3> QED BY <2>3, <2>4, <2>5, <3>1, <3>2 DEF Excess
  <2>12. ASSUME steady', maxcps' # 0
         PROVE  /\ my_cps' = Share(maxcps)'
                /\ \A t \in Limited' :
                     /\ ftp'[t].xfer <= my_cps' + Excess(t)'
                     /\ t \in watch' => ftp'[t].xfer < my_cps'
    <3>1. steady /\ maxcps # 0
      BY <2>2, <2>7, <2>12
    <3>2. my_cps = Share(maxcps)
      BY <3>1 DEF IInv, Kept
    <3>3. ASSUME NEW t \in Limited
          PROVE  /\ ftp'[t].xfer <= my_cps + Excess(t)
                 /\ t \in watch \ {s} => ftp'[t].xfer < my_cps
      <4>1. CASE t = s
        BY <2>11, <3>1, <4>1
      <4>2. CASE t # s
        <5>1. ftp'[t] = ftp[t]
          BY <2>6, <4>2 DEF Limited
        <5> QED BY <3>1, <5>1 DEF IInv, Kept
      <4> QED BY <4>1, <4>2
    <3>4. \A t \in Limited : t \in Sessions
      BY DEF Limited
    <3> QED BY <2>7, <2>8, <2>9, <2>10, <3>2, <3>3, <3>4
  <2> QED BY <2>12 DEF Kept
<1> QED BY <1>1, <1>2 DEF Move

(* A new session, or one that answers, neither moves a transfer nor ends one. *)
LEMMA RestKept ==
  ASSUME IInv, NEW s \in Sessions,
         NewFtp(s) \/ Answer(s) \/ Refuse(s) \/ Accept(s)
  PROVE  Kept'
<1>1. ftp \in [Sessions -> Session]
  BY DEF IInv, TypeOK
<1>2. UNCHANGED <<maxcps, my_cps, steady>> /\ watch' \subseteq watch
  BY DEF NewFtp, Answer, Refuse, Accept, Serve
<1>3. \A t \in Sessions :
        /\ ftp'[t].file = ftp[t].file
        /\ ftp[t].file # "none" => ftp'[t].xfer = ftp[t].xfer
  <2>1. CASE NewFtp(s)
    <3>1. ftp[s].file = "none"
      BY <2>1 DEF IInv, Running, NewFtp
    <3>2. ftp'[s].file = "none"
      BY <1>1, <2>1 DEF NewFtp, NoSession
    <3> QED BY <1>1, <2>1, <3>1, <3>2 DEF NewFtp
  <2>2. CASE Answer(s)
    BY <1>1, <2>2 DEF Answer, Session
  <2>3. CASE Refuse(s)
    BY <2>3 DEF Refuse
  <2>4. CASE Accept(s)
    BY <1>1, <2>4 DEF Accept, Session
  <2> QED BY <2>1, <2>2, <2>3, <2>4
<1> QED BY <1>2, <1>3, QuietKept DEF IInv

(* Only a session that is there opens a file or is looked at. *)
LEMMA RunningStep ==
  ASSUME IInv, Next
  PROVE  Running'
<1>1. ftp \in [Sessions -> Session]
  BY DEF IInv, TypeOK
<1>2. ASSUME NEW seconds \in 0..MaxLag, Pass(seconds) PROVE Running'
  <2>1. seconds \in Nat
    BY ThrottleAssumption
  <2>2. \A s \in Sessions : ftp'[s].on = ftp[s].on /\ ftp'[s].file = ftp[s].file
    BY <1>1, <1>2, <2>1, PassFields DEF Pass
  <2> QED BY <1>2, <2>2 DEF IInv, Running, Pass
<1>3. ASSUME NEW s \in Sessions,
             \/ NewFtp(s) \/ Written(s) \/ Answer(s) \/ Refuse(s)
             \/ Open(s) \/ Accept(s) \/ Abort(s) \/ Move(s)
      PROVE  Running'
  <2>1. \A t \in Sessions \ {s} : ftp'[t] = ftp[t]
    BY <1>1, <1>3 DEF NewFtp, Written, Answer, Refuse, Open, Accept, Abort, Move
  <2>2. todo' \subseteq todo /\ (Serve(s) => s \notin todo' /\ ftp[s].on)
    BY <1>3 DEF NewFtp, Written, Answer, Refuse, Open, Accept, Abort, Move, Serve, IInv, Running
  <2>3. \/ ftp'[s].on
        \/ Serve(s) /\ ftp'[s].file = "none"
    <3>1. CASE NewFtp(s)
      BY <1>1, <3>1 DEF NewFtp, NoSession
    <3>2. CASE Written(s)
      BY <1>1, <3>2 DEF Written, NoSession
    <3>3. CASE Answer(s)
      BY <1>1, <2>2, <3>3 DEF Answer, Session
    <3>4. CASE Refuse(s)
      BY <2>2, <3>4 DEF Refuse
    <3>5. CASE Open(s)
      BY <1>1, <2>2, <3>5 DEF Open, Session
    <3>6. CASE Accept(s)
      BY <1>1, <2>2, <3>6 DEF Accept, Session
    <3>7. CASE Abort(s)
      BY <1>1, <2>2, <3>7 DEF Abort, FreeData, Session
    <3>8. CASE Move(s)
      BY <1>1, <2>2, <3>8 DEF Move, FreeData, Session
    <3> QED BY <1>3, <3>1, <3>2, <3>3, <3>4, <3>5, <3>6, <3>7, <3>8
  <2> QED BY <2>1, <2>2, <2>3 DEF IInv, Running
<1> QED BY <1>2, <1>3 DEF Next

(* The limit is kept for every number of sessions, every limit and every size of
   the chunks: what the running transfers move together in a second stays within
   maxcps, each but for its excess. *)
THEOREM LimitKept == Spec => []WithinLimit
<1>1. Init => Running /\ Kept
  BY DEF Init, Running, Kept, NoSession
<1>2. ASSUME IInv, TypeOK', [Next]_vars PROVE Running' /\ Kept'
  <2>1. CASE UNCHANGED vars
    <3>1. Running'
      BY <1>2, <2>1 DEF vars, IInv, Running
    <3>2. Kept'
      BY <1>2, <2>1, QuietKept DEF vars, IInv
    <3> QED BY <3>1, <3>2
  <2>2. CASE Next
    <3>1. Running'
      BY <1>2, <2>2, RunningStep
    <3>2. ASSUME NEW s \in Sessions, Written(s) \/ Open(s) \/ Abort(s) PROVE Kept'
      BY <3>2 DEF Written, Open, Abort, Kept
    <3>3. Kept'
      BY <1>2, <2>2, <3>2, PassKept, RestKept, MoveKept DEF Next
    <3> QED BY <3>1, <3>3
  <2> QED BY <1>2, <2>1, <2>2
<1>3. IInv => WithinLimit
  <2>1. ASSUME IInv, steady, maxcps # 0 PROVE WithinLimit
    <3>1. maxcps \in Nat /\ my_cps = Share(maxcps)
      BY <2>1, ThrottleAssumption DEF IInv, TypeOK, Kept
    <3>2. Cardinality(Limited) * my_cps <= maxcps
      BY <3>1, ShareFits
    <3>3. \A s \in Limited : ftp[s].xfer <= my_cps + Excess(s)
      BY <2>1 DEF IInv, Kept
    <3> QED BY <3>2, <3>3 DEF WithinLimit
  <2> QED BY <2>1 DEF WithinLimit
<1> QED BY <1>1, <1>2, <1>3, TypeCorrect, PTL DEF Spec, IInv

-----------------------------------------------------------------------------
(* The clock and the averages (module Statistics) *)

(* A day more or less. *)
LEMMA Days ==
  ASSUME NEW c \in Nat, NEW d \in Nat
  PROVE  /\ SecondsPerDay * d - SecondsPerDay * c = SecondsPerDay * (d - c)
         /\ d > c => SecondsPerDay * (d - c) >= SecondsPerDay
         /\ d < c => SecondsPerDay * (d - c) <= 0 - SecondsPerDay
BY StatisticsAssumption

(* The idle timeout and the one-second rhythm of the transfers rest on timer().
   It is exact over midnight, as long as less than a day has passed. *)
THEOREM TimerExact ==
  ASSUME NEW started \in DateStamp, NEW ds \in DateStamp,
         Instant(started) <= Instant(ds), Instant(ds) - Instant(started) < SecondsPerDay
  PROVE  timer(started, ds) = Instant(ds) - Instant(started)
<1> DEFINE between == SecondsPerDay * (ds.days - started.days)
<1>1. /\ started.days \in Nat /\ started.seconds \in 0..(SecondsPerDay - 1)
      /\ ds.days \in Nat /\ ds.seconds \in 0..(SecondsPerDay - 1)
      /\ SecondsPerDay \in Nat
  BY StatisticsAssumption DEF DateStamp
<1>2. between \in Int
  BY <1>1
<1>3. Instant(ds) - Instant(started) = between + (ds.seconds - started.seconds)
  <2>1. SecondsPerDay * ds.days \in Int /\ SecondsPerDay * started.days \in Int
    BY <1>1
  <2>2. SecondsPerDay * ds.days - SecondsPerDay * started.days = between
    BY <1>1, Days
  <2> HIDE DEF between
  <2> QED BY <1>1, <1>2, <2>1, <2>2 DEF Instant
<1>4. ds.seconds >= started.seconds => ds.days = started.days
  <2>1. ds.days > started.days => between >= SecondsPerDay
    BY <1>1, Days
  <2>2. ds.days < started.days => between <= 0 - SecondsPerDay
    BY <1>1, Days
  <2>3. Instant(ds) - Instant(started) >= 0
    <3>1. Instant(ds) \in Int /\ Instant(started) \in Int
      BY <1>1 DEF Instant
    <3> QED BY <3>1
  <2> HIDE DEF between
  <2> QED BY <1>1, <1>2, <1>3, <2>1, <2>2, <2>3
<1>5. ds.days = started.days => between = 0
  BY <1>1
<1>6. timer(started, ds) = IF ds.seconds - started.seconds < 0
                           THEN ds.seconds - started.seconds + between
                           ELSE ds.seconds - started.seconds
  BY DEF timer
<1> HIDE DEF between
<1> QED BY <1>1, <1>2, <1>3, <1>4, <1>5, <1>6

(* From a day on, it forgets every whole day, unless the time of the day is
   earlier than at the start: the speed of such a transfer comes out too high. *)
THEOREM TimerForgetsDays ==
  ASSUME NEW started \in DateStamp, NEW ds \in DateStamp,
         started.seconds <= ds.seconds
  PROVE  timer(started, ds) + SecondsPerDay * (ds.days - started.days) =
           Instant(ds) - Instant(started)
<1>1. /\ started.days \in Nat /\ started.seconds \in 0..(SecondsPerDay - 1)
      /\ ds.days \in Nat /\ ds.seconds \in 0..(SecondsPerDay - 1)
      /\ SecondsPerDay \in Nat
  BY StatisticsAssumption DEF DateStamp
<1>2. timer(started, ds) = ds.seconds - started.seconds
  BY <1>1 DEF timer
<1>3. /\ SecondsPerDay * ds.days \in Int /\ SecondsPerDay * started.days \in Int
      /\ SecondsPerDay * (ds.days - started.days)
           = SecondsPerDay * ds.days - SecondsPerDay * started.days
  BY <1>1, Days
<1> QED BY <1>1, <1>2, <1>3 DEF Instant

(* While nothing overflows, the new average lies between the old one and the speed
   of the transfer: rounding never carries it away from what was measured. *)
THEOREM AverageBetween ==
  ASSUME NEW cps \in Nat, NEW files \in Nat, NEW change \in Nat,
         change + cps * files < Word, files + 1 < Word,
         NEW low \in Nat, NEW high \in Nat,
         low <= cps /\ low <= change, cps <= high /\ change <= high
  PROVE  NewAverage(cps, files, change) \in low..high
<1> DEFINE sum == change + cps * files
           n == files + 1
<1>1. cps * files \in Nat /\ low * files \in Nat /\ high * files \in Nat
  OBVIOUS
<1>2. low * files <= cps * files /\ cps * files <= high * files
  OBVIOUS
<1>3. low * n = low * files + low /\ high * n = high * files + high
  OBVIOUS
<1>4. sum \in Nat /\ n \in Nat /\ n > 0 /\ sum < Word /\ n < Word
  BY <1>1
<1>5. low * n <= sum /\ sum <= high * n
  <2> HIDE DEF n
  <2> QED BY <1>1, <1>2, <1>3
<1>6. NewAverage(cps, files, change) = (sum % Word) \div (n % Word)
  BY DEF NewAverage
<1> HIDE DEF sum, n
<1>7. sum % Word = sum /\ n % Word = n
  BY <1>4, StatisticsAssumption
<1>8. n * (sum \div n) <= sum /\ sum < n * (sum \div n) + n /\ sum \div n \in Int
  <2>1. \A m \in Nat, k \in Nat \ {0} :
          k * (m \div k) <= m /\ m < k * (m \div k) + k /\ m \div k \in Int
    OBVIOUS
  <2> QED BY <1>4, <2>1
<1>9. low <= sum \div n /\ sum \div n <= high
  <2> DEFINE q == sum \div n
  <2>1. q < low => n * q + n <= n * low
    BY <1>4, <1>8
  <2>2. q > high => n * q >= n * high + n
    BY <1>4, <1>8
  <2>3. low * n = n * low /\ high * n = n * high /\ n * low \in Int /\ n * high \in Int /\ n * q \in Int
    BY <1>4, <1>8
  <2> QED BY <1>4, <1>5, <1>8, <2>1, <2>2, <2>3
<1> QED BY <1>6, <1>7, <1>8, <1>9
=============================================================================
