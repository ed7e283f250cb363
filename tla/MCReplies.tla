--------------------------- MODULE MCReplies ---------------------------
(* Instances of Replies for TLC: see README.md for the bounds. *)
EXTENDS Replies
MCCodes == {200}
========================================================================
