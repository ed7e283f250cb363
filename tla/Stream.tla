----------------------------- MODULE Stream -----------------------------
(***************************************************************************)
(* What a transfer promises: the bytes of its source arrive at the other   *)
(* side in order, none twice and none left out, and a download is answered *)
(* with 226 only when all of them have arrived, or after an ABOR, whose    *)
(* answer is 226 too.  A download moves a file to the peer, an upload      *)
(* moves what the peer sent to the disk.                                   *)
(***************************************************************************)
EXTENDS Integers, Sequences

VARIABLES
  download, \* the direction
  source,   \* the bytes to be moved, as far as they are known
  moved,    \* the bytes that have arrived
  reply,    \* "pending" while the transfer lasts, then the reply that ended it
  abor      \* was it the answer to ABOR?

vars == <<download, source, moved, reply, abor>>

Replies == {"226", "426", "none"}

Start ==
  /\ reply # "pending"
  /\ download' \in BOOLEAN
  /\ reply' = "pending" /\ abor' = FALSE /\ moved' = <<>>
  /\ source' \in Seq(Int)
  /\ ~download' => source' = <<>>

(* The peer of an upload sends more. *)
Offer ==
  /\ reply = "pending" /\ ~download
  /\ source' \in Seq(Int)
  /\ SubSeq(source', 1, Len(source)) = source
  /\ UNCHANGED <<download, moved, reply, abor>>

Move ==
  /\ reply = "pending"
  /\ moved' = SubSeq(source, 1, Len(moved'))
  /\ Len(moved') \in Len(moved)..Len(source)
  /\ UNCHANGED <<download, source, reply, abor>>

(* The end; the last bytes of an upload arrive when its file is closed. *)
Finish ==
  /\ reply = "pending" /\ reply' \in Replies
  /\ abor' \in BOOLEAN /\ (abor' => reply' = "226")
  /\ moved' = SubSeq(source, 1, Len(moved'))
  /\ Len(moved') \in Len(moved)..Len(source)
  /\ download => moved' = moved
  /\ download /\ reply' = "226" /\ ~abor' => moved = source
  /\ UNCHANGED <<download, source>>

Init ==
  /\ download \in BOOLEAN /\ source = <<>> /\ moved = <<>>
  /\ reply = "none" /\ abor = FALSE

Next == Start \/ Offer \/ Move \/ Finish

Spec == Init /\ [][Next]_vars
========================================================================
